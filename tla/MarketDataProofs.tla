--------------------------- MODULE MarketDataProofs ---------------------------
(***************************************************************************)
(* What the market data service and its stream keep, for all values of the *)
(* constants.                                                              *)
(*                                                                         *)
(* A collector never has two reconnections on their way: the state         *)
(* "connected" is entered by the only attempt there is, so a loss          *)
(* schedules the first timer and every failure replaces the attempt that   *)
(* failed.  From this follow the other two: a connected collector receives *)
(* what is subscribed, and an open circuit leaves the source alone.        *)
(*                                                                         *)
(* Of the stream: the last message about a symbol on the provider's        *)
(* connection says what its components want, so once all are handled the   *)
(* maps of the server say the same.                                        *)
(*                                                                         *)
(* Of the candles: every weighing of candles is conserved from the         *)
(* builders to the database, so no tick is lost; the candle of a period    *)
(* is being built or was closed when its period was left, so an            *)
(* undisturbed period has one; and the minutes of a longer period are next *)
(* to each other in every answer, so they merge into one.                  *)
(***************************************************************************)
EXTENDS Collector, MarketStream, Candles, SumProofs, SequenceTheorems, TLAPS

\* What is on its way, with its type.
Typed ==
    /\ base \in [state : States, failures : 0..Threshold, circuit : Circuits]
    /\ timers \in Seq({"backoff", "cooldown"})
    /\ attempts \in Seq({"start", "reconnect", "aborted"})
    /\ registry \in {"new", "starting", "ready", "done", "stopped"}

\* Before it is started and while it is connected, nothing is on its way.
Quiet ==
    /\ base.state = "connected" \/ registry = "new" => Len(timers) = 0 /\ Len(attempts) = 0
    /\ base.state = "connected" => registry # "new"

IInv == Typed /\ Quiet /\ OneReconnect

-----------------------------------------------------------------------------
(* The sequences and the circuit breaker                                    *)

\* A sequence without one of its elements.
LEMMA RemoveAtLength ==
    ASSUME NEW S, NEW s \in Seq(S), NEW i \in DOMAIN s
    PROVE  /\ RemoveAt(s, i) \in Seq(S)
           /\ Len(RemoveAt(s, i)) = Len(s) - 1
BY DEF RemoveAt

\* A sequence without its last element.
LEMMA FrontLength ==
    ASSUME NEW S, NEW s \in Seq(S), Len(s) # 0
    PROVE  Front(s) \in Seq(S) /\ Len(Front(s)) = Len(s) - 1
<1> DEFINE n == Len(s) - 1
<1>1. n \in Int /\ n >= 0 /\ \A i \in 1..n : s[i] \in S
    BY LenProperties, ElementOfSeq
<1> HIDE DEF n
<1>2. /\ SubSeq(s, 1, n) \in Seq(S)
      /\ Len(SubSeq(s, 1, n)) = IF 1 <= n THEN n - 1 + 1 ELSE 0
    BY <1>1, SubSeqProperties
<1>3. Len(SubSeq(s, 1, n)) = n
    BY <1>1, <1>2
<1> QED
    BY <1>2, <1>3 DEF Front, n

\* A recorded failure leaves the state or makes it "error".
LEMMA RecordFailureState ==
    ASSUME NEW b \in [state : States, failures : 0..Threshold, circuit : Circuits]
    PROVE  /\ RecordFailure(b) \in [state : States, failures : 0..Threshold, circuit : Circuits]
           /\ RecordFailure(b).state \in {b.state, "error"}
<1> DEFINE n == IF b.failures < Threshold THEN b.failures + 1 ELSE b.failures
<1>1. n \in 0..Threshold
    BY ThresholdAssumption
<1> HIDE DEF n
<1>2. [b EXCEPT !.failures = n] \in [state : States, failures : 0..Threshold, circuit : Circuits]
    BY <1>1
<1>3. RecordFailure(b) \in {[b EXCEPT !.failures = n],
                           [[b EXCEPT !.failures = n] EXCEPT !.circuit = "cooling", !.state = "error"]}
    BY DEF RecordFailure, n
<1> QED
    BY <1>2, <1>3 DEF States, Circuits

\* Asking for the circuit changes neither the type nor the state.
LEMMA CheckCircuitState ==
    ASSUME NEW b \in [state : States, failures : 0..Threshold, circuit : Circuits]
    PROVE  /\ CheckCircuit(b) \in [state : States, failures : 0..Threshold, circuit : Circuits]
           /\ CheckCircuit(b).state = b.state
<1>1. 0 \in 0..Threshold
    BY ThresholdAssumption
<1> QED
    BY <1>1 DEF CheckCircuit, Circuits

\* Scheduling adds one timer and keeps the state.
LEMMA ScheduleAddsOne ==
    ASSUME NEW b \in [state : States, failures : 0..Threshold, circuit : Circuits],
           timers \in Seq({"backoff", "cooldown"}), ScheduleReconnect(b)
    PROVE  /\ base' \in [state : States, failures : 0..Threshold, circuit : Circuits]
           /\ base'.state = b.state
           /\ timers' \in Seq({"backoff", "cooldown"})
           /\ Len(timers') = Len(timers) + 1
<1>1. Delay(CheckCircuit(b)) \in {"backoff", "cooldown"}
    BY DEF Delay
<1> QED
    BY <1>1, CheckCircuitState, AppendProperties DEF ScheduleReconnect

\* An attempt that is awaited is the only thing on its way.
LEMMA AttemptIsAlone ==
    ASSUME IInv, NEW i \in DOMAIN attempts
    PROVE  /\ Len(timers) = 0 /\ Len(attempts) = 1
           /\ base.state # "connected" /\ registry # "new"
           /\ RemoveAt(attempts, i) \in Seq({"start", "reconnect", "aborted"})
           /\ Len(RemoveAt(attempts, i)) = 0
<1>1. Len(attempts) \in Nat /\ Len(timers) \in Nat /\ DOMAIN attempts = 1..Len(attempts)
    BY LenProperties DEF IInv, Typed
<1>2. Len(attempts) = 1 /\ Len(timers) = 0
    BY <1>1 DEF IInv, OneReconnect
<1> QED
    BY <1>2, RemoveAtLength DEF IInv, Typed, Quiet

-----------------------------------------------------------------------------
(* The invariant                                                            *)

\* Nothing is on its way in the beginning.
LEMMA InitIInv == Init => IInv
<1> SUFFICES ASSUME Init PROVE IInv
    OBVIOUS
<1>1. Len(timers) = 0 /\ Len(attempts) = 0 /\ base.state # "connected"
    BY DEF Init
<1>2. Typed
    BY ThresholdAssumption DEF Init, Typed, States, Circuits
<1> QED
    BY <1>1, <1>2 DEF IInv, Quiet, OneReconnect

\* Each action of the collector keeps the invariant.
LEMMA NextIInv == IInv /\ [Next]_vars => IInv'
<1> SUFFICES ASSUME IInv, [Next]_vars PROVE IInv'
    OBVIOUS
<1> USE DEF IInv
<1>len. /\ Len(timers) \in Nat /\ Len(attempts) \in Nat
        /\ Len(timers) + Len(attempts) <= 1
    BY LenProperties DEF Typed, OneReconnect
<1>1. CASE Start
    <2>1. Len(timers) = 0 /\ Len(attempts) = 0
        BY <1>1 DEF Start, Quiet
    <2>2. attempts' \in Seq({"start", "reconnect", "aborted"}) /\ Len(attempts') = 1
        BY <1>1, <2>1, AppendProperties DEF Start, Typed
    <2>3. /\ base' \in [state : States, failures : 0..Threshold, circuit : Circuits]
          /\ base'.state = "connecting"
        BY <1>1, CheckCircuitState DEF Start, Typed, States
    <2> QED
        BY <1>1, <2>1, <2>2, <2>3 DEF Start, Typed, Quiet, OneReconnect
<1>2. CASE Subscribe \/ Subscribed \/ Flip \/ \E S \in SUBSET Symbols : Unsubscribe(S)
    <2>1. UNCHANGED <<base, timers, attempts>> /\ registry' \in {registry, "done"}
        BY <1>2 DEF Subscribe, Subscribed, Flip, Unsubscribe
    <2> QED
        BY <2>1 DEF Typed, Quiet, OneReconnect
<1>3. CASE Stop
    <2>1. Len(timers') <= Len(timers) /\ Len(timers') \in Nat
          /\ timers' \in Seq({"backoff", "cooldown"})
        <3>1. CASE timers = <<>>
            BY <1>3, <3>1 DEF Stop, Typed
        <3>2. CASE timers # <<>>
            <4>1. Len(timers) # 0
                BY <3>2, EmptySeq DEF Typed
            <4>2. Front(timers) \in Seq({"backoff", "cooldown"}) /\ Len(Front(timers)) = Len(timers) - 1
                BY <4>1, FrontLength DEF Typed
            <4> QED
                BY <1>3, <1>len, <3>2, <4>1, <4>2 DEF Stop
        <3> QED
            BY <3>1, <3>2
    <2>2. Len(attempts') <= Len(attempts) /\ Len(attempts') \in Nat
          /\ attempts' \in Seq({"start", "reconnect", "aborted"})
        <3>1. CASE kind = "poll"
            BY <1>3, <1>len, <3>1 DEF Stop, Typed
        <3>2. CASE kind # "poll" /\ Contains(attempts, "start")
            <4>1. Len(attempts) >= 1
                BY <1>len, <3>2 DEF Contains
            <4>2. attempts' = <<"aborted">>
                BY <1>3, <3>2 DEF Stop
            <4> QED
                BY <4>1, <4>2
        <3>3. CASE kind # "poll" /\ ~Contains(attempts, "start")
            <4>1. attempts' = <<>>
                BY <1>3, <3>3 DEF Stop
            <4> QED
                BY <1>len, <4>1
        <3> QED
            BY <3>1, <3>2, <3>3
    <2>3. /\ base' \in [state : States, failures : 0..Threshold, circuit : Circuits]
          /\ base'.state = "stopped"
        BY <1>3, RecordFailureState DEF Stop, Typed, States
    <2>4. registry' = "stopped"
        BY <1>3 DEF Stop
    <2>5. Quiet' /\ Typed'
        BY <2>1, <2>2, <2>3, <2>4 DEF Typed, Quiet
    <2>6. OneReconnect'
        BY <1>len, <2>1, <2>2 DEF OneReconnect
    <2> QED
        BY <2>5, <2>6
<1>4. CASE GetHealth
    BY <1>4, CheckCircuitState DEF GetHealth, Typed, Quiet, OneReconnect
<1>5. CASE Cool
    <2>1. /\ base' \in [state : States, failures : 0..Threshold, circuit : Circuits]
          /\ base'.state = base.state
        BY <1>5 DEF Cool, Typed, Circuits
    <2> QED
        BY <1>5, <2>1 DEF Cool, Typed, Quiet, OneReconnect
<1>6. ASSUME NEW t \in DOMAIN timers, AttemptReconnect(t) PROVE IInv'
    <2>1. /\ timers' \in Seq({"backoff", "cooldown"})
          /\ Len(timers') = Len(timers) - 1 /\ Len(timers) >= 1
        <3>1. DOMAIN timers = 1..Len(timers)
            BY LenProperties DEF Typed
        <3>2. /\ RemoveAt(timers, t) \in Seq({"backoff", "cooldown"})
              /\ Len(RemoveAt(timers, t)) = Len(timers) - 1
            BY RemoveAtLength DEF Typed
        <3>3. timers' = RemoveAt(timers, t)
            BY <1>6 DEF AttemptReconnect
        <3>4. Len(timers) >= 1
            BY <1>len, <3>1
        <3> QED
            BY <3>2, <3>3, <3>4
    <2>2. /\ attempts' \in Seq({"start", "reconnect", "aborted"})
          /\ Len(attempts') = Len(attempts) + 1
        BY <1>6, AppendProperties DEF AttemptReconnect, Typed
    <2>3. base.state # "connected" /\ registry # "new"
        BY <1>len, <2>1 DEF Quiet
    <2> QED
        BY <1>6, <1>len, <2>1, <2>2, <2>3 DEF AttemptReconnect, Typed, Quiet, OneReconnect
<1>7. ASSUME NEW i \in DOMAIN attempts, Connect(i) PROVE IInv'
    <2>1. /\ base' \in [state : States, failures : 0..Threshold, circuit : Circuits]
          /\ UNCHANGED timers /\ attempts' = RemoveAt(attempts, i)
        <3>1. 0 \in 0..Threshold
            BY ThresholdAssumption
        <3>2. ResetCircuitBreaker(base) \in [state : States, failures : 0..Threshold, circuit : Circuits]
            BY <3>1 DEF ResetCircuitBreaker, Typed, Circuits
        <3> QED
            BY <1>7, <3>2 DEF Connect, States
    <2>2. registry' \in {registry, "ready"}
        BY <1>7 DEF Connect, Returned
    <2> QED
        BY <1>7, <2>1, <2>2, AttemptIsAlone DEF Connect, Typed, Quiet, OneReconnect
<1>8. ASSUME NEW i \in DOMAIN attempts, FailStart(i) PROVE IInv'
    <2> DEFINE b == [RecordFailure(RecordFailure(base)) EXCEPT !.state = "reconnecting"]
    <2>1. b \in [state : States, failures : 0..Threshold, circuit : Circuits]
        BY RecordFailureState DEF Typed, States
    <2>2. b.state = "reconnecting"
        BY RecordFailureState DEF Typed
    <2>3. ScheduleReconnect(b)
        BY <1>8 DEF FailStart
    <2> HIDE DEF b
    <2>4. /\ base' \in [state : States, failures : 0..Threshold, circuit : Circuits]
          /\ base'.state = "reconnecting"
          /\ timers' \in Seq({"backoff", "cooldown"}) /\ Len(timers') = Len(timers) + 1
        BY <2>1, <2>2, <2>3, ScheduleAddsOne DEF Typed
    <2>5. registry' \in {registry, "ready"}
        BY <1>8 DEF FailStart, Returned
    <2> QED
        BY <1>8, <2>4, <2>5, AttemptIsAlone DEF FailStart, Typed, Quiet, OneReconnect
<1>9. ASSUME NEW i \in DOMAIN attempts, FailReconnect(i) PROVE IInv'
    <2>1. /\ base' \in [state : States, failures : 0..Threshold, circuit : Circuits]
          /\ base'.state \in {base.state, "error"}
          /\ timers' \in Seq({"backoff", "cooldown"}) /\ Len(timers') = Len(timers) + 1
        BY <1>9, RecordFailureState, ScheduleAddsOne DEF FailReconnect, Typed
    <2> QED
        BY <1>9, <2>1, AttemptIsAlone DEF FailReconnect, Typed, Quiet, OneReconnect
<1>10. ASSUME NEW i \in DOMAIN attempts, LoseReconnect(i) PROVE IInv'
    BY <1>10, RecordFailureState, AttemptIsAlone DEF LoseReconnect, Typed, Quiet, OneReconnect
<1>11. CASE SocketError \/ RateLimit
    <2>1. base' = RecordFailure(base) /\ UNCHANGED <<timers, attempts, registry>>
        BY <1>11 DEF SocketError, RateLimit
    <2> QED
        BY <2>1, RecordFailureState DEF Typed, Quiet, OneReconnect
<1>12. CASE SocketClose
    <2>1. CASE base.state = "connected"
        <3> DEFINE b == [base EXCEPT !.state = "reconnecting"]
        <3>1. /\ b \in [state : States, failures : 0..Threshold, circuit : Circuits]
              /\ b.state = "reconnecting"
            BY DEF Typed, States
        <3>2. ScheduleReconnect(b)
            BY <1>12, <2>1 DEF SocketClose
        <3> HIDE DEF b
        <3>3. /\ base' \in [state : States, failures : 0..Threshold, circuit : Circuits]
              /\ base'.state = "reconnecting"
              /\ timers' \in Seq({"backoff", "cooldown"}) /\ Len(timers') = Len(timers) + 1
            BY <3>1, <3>2, ScheduleAddsOne DEF Typed
        <3>4. registry # "new"
            BY <2>1 DEF Quiet
        <3> QED
            BY <1>12, <2>1, <3>3, <3>4 DEF SocketClose, Typed, Quiet, OneReconnect
    <2>2. CASE base.state # "connected"
        BY <1>12, <2>2 DEF SocketClose, Typed, Quiet, OneReconnect
    <2> QED
        BY <2>1, <2>2
<1>13. CASE UNCHANGED vars
    BY <1>13 DEF vars, Typed, Quiet, OneReconnect
<1> QED
    BY <1>1, <1>2, <1>3, <1>4, <1>5, <1>6, <1>7, <1>8, <1>9, <1>10, <1>11, <1>12, <1>13
       DEF Next, Elapse, Settle

\* Whatever fails, closes or is stopped, in any order, at most one reconnection is on
\* its way: each loss and each failed attempt of base.collector.ts schedules one.
THEOREM AtMostOneReconnect == Spec => []OneReconnect
<1>1. IInv => OneReconnect
    BY DEF IInv
<1> QED
    BY <1>1, InitIInv, NextIInv, PTL DEF Spec

-----------------------------------------------------------------------------
(* What is subscribed                                                       *)

\* Nothing is subscribed before the registry asks for it, nor while start() runs; a
\* connected collector follows what is subscribed and what its next poll subscribes.
Followed ==
    /\ registry \in {"new", "starting", "ready"} => subscribed = {} /\ asking = {}
    /\ \A i \in DOMAIN attempts : attempts[i] = "start" =>
            registry \in {"starting", "stopped"} /\ subscribed = {} /\ asking = {}
    /\ base.state = "connected" =>
            /\ subscribed \subseteq followed /\ asking \subseteq followed
            /\ kind # "push" => asking \cap subscribed = {}
            /\ kind = "push" => socket # "none"
    /\ kind = "push" => asking = {}

SInv == IInv /\ Followed

\* Which attempts there are after a step that does not start one.
LEMMA NoneLeft ==
    ASSUME IInv, NEW i \in DOMAIN attempts, attempts' = RemoveAt(attempts, i)
    PROVE  DOMAIN attempts' = {}
BY AttemptIsAlone, LenProperties

\* Nothing is subscribed in the beginning.
LEMMA InitFollowed == Init => Followed
BY DEF Init, Followed

\* Each action of the collector keeps what is subscribed followed.
LEMMA NextFollowed == SInv /\ [Next]_vars => Followed'
<1> SUFFICES ASSUME SInv, [Next]_vars PROVE Followed'
    OBVIOUS
<1> USE DEF SInv
<1>1. CASE Start
    <2>1. Len(attempts) = 0
        BY <1>1 DEF Start, IInv, Quiet
    <2>2. base'.state = "connecting"
        BY <1>1, CheckCircuitState DEF Start, IInv, Typed, States
    <2> QED
        BY <1>1, <2>2 DEF Start, Followed, subscriptions
<1>2. CASE Subscribe
    <2>1. \A i \in DOMAIN attempts : attempts[i] # "start"
        BY <1>2 DEF Subscribe, Followed
    <2> QED
        BY <1>2, <2>1 DEF Subscribe, Followed, subscriptions
<1>3. CASE Subscribed
    BY <1>3 DEF Subscribed, Followed
<1>4. CASE \E S \in SUBSET Symbols : Unsubscribe(S)
    <2>1. PICK S \in SUBSET Symbols : Unsubscribe(S)
        BY <1>4
    <2>2. /\ UNCHANGED <<kind, base, attempts, socket, asking, registry>>
          /\ subscribed' = subscribed \ S
          /\ followed' \in {followed, followed \ S}
        BY <2>1 DEF Unsubscribe
    <2>3. base.state = "connected" => asking \subseteq followed'
        <3>1. CASE kind = "push"
            BY <2>2, <3>1 DEF Followed
        <3>2. CASE kind # "push"
            <4>1. S \subseteq subscribed /\ (base.state = "connected" => asking \cap subscribed = {})
                BY <2>1, <3>2 DEF Unsubscribe, Followed, IInv, Typed
            <4> QED
                BY <2>2, <4>1 DEF Followed
        <3> QED
            BY <3>1, <3>2
    <2> QED
        BY <2>2, <2>3 DEF Followed
<1>5. CASE Stop
    <2>1. base'.state = "stopped"
        BY <1>5, RecordFailureState DEF Stop, IInv, Typed, States
    <2>2. \A i \in DOMAIN attempts' : attempts'[i] = "start" =>
              i \in DOMAIN attempts /\ attempts[i] = "start"
        BY <1>5 DEF Stop
    <2> QED
        BY <1>5, <2>1, <2>2 DEF Stop, Followed
<1>6. CASE GetHealth \/ Cool
    <2>1. base'.state = base.state
        BY <1>6, CheckCircuitState DEF GetHealth, Cool, IInv, Typed
    <2> QED
        BY <1>6, <2>1 DEF GetHealth, Cool, Followed, subscriptions
<1>7. ASSUME NEW t \in DOMAIN timers, AttemptReconnect(t) PROVE Followed'
    BY <1>7, AppendProperties DEF AttemptReconnect, Followed, subscriptions, IInv, Typed
<1>8. ASSUME NEW i \in DOMAIN attempts, Connect(i) PROVE Followed'
    <2>1. DOMAIN attempts' = {}
        BY <1>8, NoneLeft DEF Connect
    <2>2. registry' \in {"new", "starting", "ready"} => subscribed = {} /\ asking = {}
        BY <1>8 DEF Connect, Returned, Followed
    <2>3. CASE attempts[i] = "start"
        BY <1>8, <2>1, <2>2, <2>3 DEF Connect, Followed, subscriptions
    <2>4. CASE attempts[i] = "reconnect"
        BY <1>8, <2>1, <2>2, <2>4 DEF Connect, Followed, Resubscribe
    <2> QED
        BY <1>8, <2>3, <2>4 DEF Connect
<1>9. ASSUME NEW i \in DOMAIN attempts, FailStart(i) \/ FailReconnect(i) \/ LoseReconnect(i)
      PROVE  Followed'
    <2>1. DOMAIN attempts' = {} /\ UNCHANGED <<kind, subscriptions>>
        BY <1>9, NoneLeft DEF FailStart, FailReconnect, LoseReconnect
    <2>2. registry' \in {"new", "starting", "ready"} => subscribed = {} /\ asking = {}
        BY <1>9 DEF FailStart, FailReconnect, LoseReconnect, Returned, Followed
    <2>3. base'.state # "connected"
        <3>1. base.state # "connected"
            BY AttemptIsAlone
        <3>2. base \in [state : States, failures : 0..Threshold, circuit : Circuits]
              /\ timers \in Seq({"backoff", "cooldown"})
            BY DEF IInv, Typed
        <3>3. CASE FailStart(i)
            <4> DEFINE b == [RecordFailure(RecordFailure(base)) EXCEPT !.state = "reconnecting"]
            <4>1. b \in [state : States, failures : 0..Threshold, circuit : Circuits]
                  /\ b.state = "reconnecting"
                BY <3>2, RecordFailureState DEF States
            <4>2. ScheduleReconnect(b)
                BY <3>3 DEF FailStart
            <4> HIDE DEF b
            <4> QED
                BY <4>1, <4>2, <3>2, ScheduleAddsOne
        <3>4. CASE FailReconnect(i)
            BY <3>1, <3>2, <3>4, RecordFailureState, ScheduleAddsOne DEF FailReconnect
        <3>5. CASE LoseReconnect(i)
            BY <3>1, <3>2, <3>5, RecordFailureState DEF LoseReconnect
        <3> QED
            BY <1>9, <3>3, <3>4, <3>5
    <2> QED
        BY <2>1, <2>2, <2>3 DEF Followed, subscriptions
<1>10. CASE SocketError \/ RateLimit
    <2>1. /\ base'.state \in {base.state, "error"}
          /\ UNCHANGED <<kind, attempts, subscriptions, registry>>
          /\ socket # "none" => socket' # "none"
        BY <1>10, RecordFailureState DEF SocketError, RateLimit, IInv, Typed
    <2> QED
        BY <2>1 DEF Followed, subscriptions
<1>11. CASE SocketClose
    <2>1. base'.state # "connected"
        <3>1. CASE base.state = "connected"
            <4> DEFINE b == [base EXCEPT !.state = "reconnecting"]
            <4>1. /\ b \in [state : States, failures : 0..Threshold, circuit : Circuits]
                  /\ b.state = "reconnecting"
                BY DEF IInv, Typed, States
            <4>2. ScheduleReconnect(b)
                BY <1>11, <3>1 DEF SocketClose
            <4> HIDE DEF b
            <4> QED
                BY <4>1, <4>2, ScheduleAddsOne DEF IInv, Typed
        <3>2. CASE base.state # "connected"
            BY <1>11, <3>2 DEF SocketClose
        <3> QED
            BY <3>1, <3>2
    <2> QED
        BY <1>11, <2>1 DEF SocketClose, Followed, subscriptions
<1>12. CASE Flip \/ UNCHANGED vars
    BY <1>12 DEF Flip, vars, subscriptions, Followed
<1> QED
    BY <1>1, <1>2, <1>3, <1>4, <1>5, <1>6, <1>7, <1>8, <1>9, <1>10, <1>11, <1>12
       DEF Next, Elapse, Settle

\* A collector that is connected receives what it says is subscribed: attemptReconnect and
\* subscribe() of base.collector.ts and of the two sources ask for it before they say so.
THEOREM ConnectedMeansFollowed == Spec => []SubscribedAreFollowed
<1>1. Init => SInv
    BY InitIInv, InitFollowed DEF SInv
<1>2. SInv /\ [Next]_vars => SInv'
    BY NextIInv, NextFollowed DEF SInv
<1>3. SInv => SubscribedAreFollowed
    BY DEF SInv, Followed, SubscribedAreFollowed
<1> QED
    BY <1>1, <1>2, <1>3, PTL DEF Spec

-----------------------------------------------------------------------------
(* The circuit breaker and the reconnection                                 *)

\* Nothing that counts a failure happens while a reconnection waits: there is no socket
\* and no poll, so a timer that waits for the backoff only has a circuit that is not open.
Waiting == Len(timers) + Len(attempts) # 0

Rested ==
    /\ kind # "push" => socket = "none"
    /\ registry = "new" => socket = "none"
    /\ registry \in {"new", "starting", "ready"} => followed = {}
    /\ Waiting => socket = "none"
    /\ Waiting /\ kind = "poll" => followed = {}
    /\ \A t \in DOMAIN timers : timers[t] = "backoff" => base.circuit # "cooling"

RInv == SInv /\ kind \in {"push", "poll"} /\ Rested

\* The timer that is scheduled waits for the cooldown when the circuit is open.
LEMMA ScheduledByCircuit ==
    ASSUME NEW b \in [state : States, failures : 0..Threshold, circuit : Circuits],
           timers \in Seq({"backoff", "cooldown"}), Len(timers) = 0, ScheduleReconnect(b)
    PROVE  \A t \in DOMAIN timers' : timers'[t] = "backoff" => base'.circuit # "cooling"
<1>1. DOMAIN timers' = {1} /\ timers'[1] = Delay(CheckCircuit(b))
    BY AppendProperties DEF ScheduleReconnect
<1> QED
    BY <1>1 DEF ScheduleReconnect, Delay

\* Nothing waits in the beginning.
LEMMA InitRested == Init => Rested
BY DEF Init, Rested, Waiting

\* Each action of the collector keeps it.
LEMMA NextRested == RInv /\ [Next]_vars => Rested' /\ (kind \in {"push", "poll"})'
<1> SUFFICES ASSUME RInv, [Next]_vars PROVE Rested'
    BY DEF RInv, Next, Elapse, Settle, Start, Subscribe, Subscribed, Stop, GetHealth, Cool,
           AttemptReconnect, Connect, FailStart, FailReconnect, LoseReconnect, SocketError,
           SocketClose, RateLimit, Flip, Unsubscribe, vars
<1> USE DEF RInv
<1>len. /\ Len(timers) \in Nat /\ Len(attempts) \in Nat
        /\ Len(timers) + Len(attempts) <= 1
        /\ DOMAIN timers = 1..Len(timers)
        /\ base \in [state : States, failures : 0..Threshold, circuit : Circuits]
        /\ timers \in Seq({"backoff", "cooldown"})
    BY LenProperties DEF SInv, IInv, Typed, OneReconnect
<1>1. CASE Start
    <2>1. Len(timers) = 0
        BY <1>1 DEF Start, SInv, IInv, Quiet
    <2> QED
        BY <1>1, <1>len, <2>1 DEF Start, Rested, subscriptions
<1>2. CASE Subscribe
    <2>1. base.state = "connected" => ~Waiting
        BY DEF SInv, IInv, Quiet, Waiting
    <2> QED
        BY <1>2, <2>1 DEF Subscribe, Rested, Waiting, subscriptions
<1>3. CASE Subscribed \/ Flip \/ UNCHANGED vars
    BY <1>3 DEF Subscribed, Flip, Rested, Waiting, vars, subscriptions
<1>4. CASE \E S \in SUBSET Symbols : Unsubscribe(S)
    BY <1>4 DEF Unsubscribe, Rested, Waiting
<1>5. CASE Stop
    <2>1. CASE Len(timers) = 0
        <3>1. timers' = <<>>
            BY <1>5, <1>len, <2>1, EmptySeq DEF Stop
        <3> QED
            BY <1>5, <3>1 DEF Stop, Rested
    <2>2. CASE Len(timers) # 0
        <3>1. timers # <<>>
            BY <2>2
        <3>2. Len(timers') = 0 /\ timers' \in Seq({"backoff", "cooldown"})
            BY <1>5, <1>len, <2>2, <3>1, FrontLength DEF Stop
        <3>3. DOMAIN timers' = {}
            BY <3>2, LenProperties
        <3> QED
            BY <1>5, <3>3 DEF Stop, Rested
    <2> QED
        BY <2>1, <2>2
<1>6. CASE GetHealth \/ Cool
    <2>1. base'.circuit # "cooling"
        BY <1>6, <1>len DEF GetHealth, Cool, CheckCircuit
    <2> QED
        BY <1>6, <2>1 DEF GetHealth, Cool, Rested, Waiting, subscriptions
<1>7. ASSUME NEW t \in DOMAIN timers, AttemptReconnect(t) PROVE Rested'
    <2>1. Waiting
        BY <1>len DEF Waiting
    <2>2. timers' \in Seq({"backoff", "cooldown"}) /\ Len(timers') = 0
        <3>1. Len(RemoveAt(timers, t)) = Len(timers) - 1
              /\ RemoveAt(timers, t) \in Seq({"backoff", "cooldown"})
            BY <1>len, RemoveAtLength
        <3> QED
            BY <1>7, <1>len, <3>1 DEF AttemptReconnect
    <2>3. DOMAIN timers' = {}
        BY <2>2, LenProperties
    <2> QED
        BY <1>7, <2>1, <2>3 DEF AttemptReconnect, Rested, subscriptions
<1>8. ASSUME NEW i \in DOMAIN attempts, Connect(i) PROVE Rested'
    <2>1. Len(timers') = 0 /\ Len(attempts') = 0 /\ DOMAIN timers' = {}
        <3>1. Len(timers) = 0 /\ Len(RemoveAt(attempts, i)) = 0
            BY AttemptIsAlone DEF SInv
        <3> QED
            BY <1>8, <1>len, <3>1 DEF Connect
    <2>2. registry # "new" /\ registry' # "new"
        BY <1>8, AttemptIsAlone DEF Connect, Returned, SInv
    <2>3. registry' \in {"new", "starting", "ready"} => followed' = {}
        <3>1. CASE registry \in {"new", "starting", "ready"}
            BY <1>8, <3>1 DEF Connect, Resubscribe, Rested, SInv, Followed, subscriptions
        <3>2. CASE registry \notin {"new", "starting", "ready"}
            BY <1>8, <3>2 DEF Connect, Returned
        <3> QED
            BY <3>1, <3>2
    <2> QED
        BY <1>8, <2>1, <2>2, <2>3 DEF Connect, Rested, Waiting
<1>9. ASSUME NEW i \in DOMAIN attempts, FailStart(i) \/ FailReconnect(i) \/ LoseReconnect(i)
      PROVE  Rested'
    <2>1. Waiting /\ Len(timers) = 0 /\ registry # "new"
        BY AttemptIsAlone DEF Waiting, SInv
    <2>2. /\ UNCHANGED <<kind, socket, subscriptions>>
          /\ registry' \in {registry, "ready"}
          /\ registry' = "ready" => registry \in {"starting", "ready"}
        BY <1>9 DEF FailStart, FailReconnect, LoseReconnect, Returned
    <2>3. \A t \in DOMAIN timers' : timers'[t] = "backoff" => base'.circuit # "cooling"
        <3>1. CASE FailStart(i)
            <4> DEFINE b == [RecordFailure(RecordFailure(base)) EXCEPT !.state = "reconnecting"]
            <4>1. b \in [state : States, failures : 0..Threshold, circuit : Circuits]
                BY <1>len, RecordFailureState DEF States
            <4>2. ScheduleReconnect(b)
                BY <3>1 DEF FailStart
            <4> HIDE DEF b
            <4> QED
                BY <1>len, <2>1, <4>1, <4>2, ScheduledByCircuit
        <3>2. CASE FailReconnect(i)
            BY <1>len, <2>1, <3>2, RecordFailureState, ScheduledByCircuit DEF FailReconnect
        <3>3. CASE LoseReconnect(i)
            <4>1. DOMAIN timers' = {}
                BY <1>len, <2>1, <3>3 DEF LoseReconnect
            <4> QED
                BY <4>1
        <3> QED
            BY <1>9, <3>1, <3>2, <3>3
    <2> QED
        BY <2>1, <2>2, <2>3 DEF Rested, subscriptions
<1>10. CASE SocketError \/ RateLimit
    <2>1. ~Waiting /\ registry # "new"
        BY <1>10 DEF SocketError, RateLimit, Rested
    <2>2. Len(timers) = 0 /\ Len(attempts) = 0
        BY <1>len, <2>1 DEF Waiting
    <2>3. DOMAIN timers' = {} /\ ~Waiting'
        BY <1>10, <1>len, <2>2 DEF SocketError, RateLimit, Waiting
    <2> QED
        BY <1>10, <2>1, <2>3 DEF SocketError, RateLimit, Rested, subscriptions
<1>11. CASE SocketClose
    <2>1. kind = "push" /\ ~Waiting
        BY <1>11 DEF SocketClose, Rested
    <2>2. Len(timers) = 0 /\ Len(attempts) = 0
        BY <1>len, <2>1 DEF Waiting
    <2>3. \A t \in DOMAIN timers' : timers'[t] = "backoff" => base'.circuit # "cooling"
        <3>1. CASE base.state = "connected"
            <4> DEFINE b == [base EXCEPT !.state = "reconnecting"]
            <4>1. b \in [state : States, failures : 0..Threshold, circuit : Circuits]
                BY <1>len DEF States
            <4>2. ScheduleReconnect(b)
                BY <1>11, <3>1 DEF SocketClose
            <4> HIDE DEF b
            <4> QED
                BY <1>len, <2>2, <4>1, <4>2, ScheduledByCircuit
        <3>2. CASE base.state # "connected"
            BY <1>11, <1>len, <2>2, <3>2 DEF SocketClose
        <3> QED
            BY <3>1, <3>2
    <2> QED
        BY <1>11, <2>1, <2>3 DEF SocketClose, Rested, subscriptions
<1> QED
    BY <1>1, <1>2, <1>3, <1>4, <1>5, <1>6, <1>7, <1>8, <1>9, <1>10, <1>11
       DEF Next, Elapse, Settle

\* An attempt is added by start(), which asks the circuit, and by a timer, which was
\* scheduled for the end of the cooldown when the circuit was open.
LEMMA OnlyTimersAndStart ==
    ASSUME RInv, [Next]_vars, Len(attempts') > Len(attempts)
    PROVE  base.circuit # "cooling"
<1>len. /\ Len(timers) \in Nat /\ Len(attempts) \in Nat
        /\ timers \in Seq({"backoff", "cooldown"})
    BY LenProperties DEF RInv, SInv, IInv, Typed
<1>1. CASE Start
    BY <1>1 DEF Start, CheckCircuit
<1>2. ASSUME NEW t \in DOMAIN timers, AttemptReconnect(t) PROVE base.circuit # "cooling"
    <2>1. timers[t] \in {"backoff", "cooldown"}
        BY <1>len
    <2> QED
        BY <1>2, <2>1 DEF AttemptReconnect, RInv, Rested
<1>3. ASSUME NEW i \in DOMAIN attempts,
             Connect(i) \/ FailStart(i) \/ FailReconnect(i) \/ LoseReconnect(i)
      PROVE  FALSE
    <2>1. Len(RemoveAt(attempts, i)) = 0
        BY AttemptIsAlone DEF RInv, SInv
    <2> QED
        BY <1>3, <1>len, <2>1 DEF Connect, FailStart, FailReconnect, LoseReconnect
<1>4. CASE Stop
    <2>1. CASE Contains(attempts, "start")
        <3>1. Len(attempts) >= 1
            BY <1>len, <2>1 DEF Contains
        <3>2. attempts' \in {attempts, <<"aborted">>}
            BY <1>4, <2>1 DEF Stop
        <3>3. Len(<<"aborted">>) = 1
            OBVIOUS
        <3>4. CASE attempts' = attempts
            BY <1>len, <3>4
        <3>5. CASE attempts' = <<"aborted">>
            <4>1. Len(attempts') = 1
                BY <3>3, <3>5
            <4> QED
                BY <1>len, <3>1, <4>1
        <3> QED
            BY <3>2, <3>4, <3>5
    <2>2. CASE ~Contains(attempts, "start")
        <3>1. attempts' \in {attempts, <<>>}
            BY <1>4, <2>2 DEF Stop
        <3> QED
            BY <1>len, <3>1
    <2> QED
        BY <2>1, <2>2
<1>5. CASE UNCHANGED attempts
    BY <1>5, <1>len
<1>6. Subscribe \/ Subscribed \/ GetHealth \/ Cool \/ SocketError \/ SocketClose \/ RateLimit
          \/ Flip \/ (\E S \in SUBSET Symbols : Unsubscribe(S)) \/ UNCHANGED vars
      => UNCHANGED attempts
    BY DEF Subscribe, Subscribed, GetHealth, Cool, SocketError, SocketClose, RateLimit, Flip,
           Unsubscribe, vars
<1> QED
    BY <1>1, <1>2, <1>3, <1>4, <1>5, <1>6 DEF Next, Elapse, Settle

\* While the cooldown of an open circuit lasts the source is left alone, although the timer
\* of scheduleReconnect is set before later failures could open the circuit.
THEOREM CooldownRespected == Spec => NoAttemptWhileCooling
<1>1. Init => RInv
    BY InitIInv, InitFollowed, InitRested DEF SInv, RInv, Init
<1>2. RInv /\ [Next]_vars => RInv'
    BY NextIInv, NextFollowed, NextRested DEF SInv, RInv
<1>3. RInv /\ [Next]_vars => [Len(attempts') > Len(attempts) => base.circuit # "cooling"]_vars
    BY OnlyTimersAndStart
<1> QED
    BY <1>1, <1>2, <1>3, PTL DEF Spec, NoAttemptWhileCooling

-----------------------------------------------------------------------------
(* Messages on their way                                                    *)

\* Once the messages w are handled, a connection that now has the symbols "mine" has s
\* exactly if it is among "want": the last message about s says so, or there is none.
Settles(w, mine, want, s) ==
    \/ /\ \A k \in 1..Len(w) : s \notin w[k].symbols
       /\ s \in mine <=> s \in want
    \/ \E k \in 1..Len(w) :
           /\ s \in w[k].symbols
           /\ w[k].type = "subscribe" <=> s \in want
           /\ \A j \in (k + 1)..Len(w) : s \notin w[j].symbols

\* Who has no message on its way settles what it wants.
LEMMA NothingSent ==
    ASSUME NEW mine, NEW want, NEW s, s \in mine <=> s \in want
    PROVE  Settles(<<>>, mine, want, s)
BY DEF Settles

\* A message about s decides.
LEMMA LastOneCounts ==
    ASSUME NEW w \in Seq(Messages), NEW m \in Messages, NEW mine, NEW want, NEW s,
           s \in m.symbols, m.type = "subscribe" <=> s \in want
    PROVE  Settles(Append(w, m), mine, want, s)
<1>1. /\ Len(Append(w, m)) = Len(w) + 1 /\ Append(w, m)[Len(w) + 1] = m /\ Len(w) \in Nat
    BY AppendProperties, LenProperties
<1>2. PICK v, n : v = Append(w, m) /\ n = Len(w)
    OBVIOUS
<1>3. n + 1 \in 1..Len(v) /\ v[n + 1] = m /\ \A j \in (n + 2)..Len(v) : FALSE
    BY <1>1, <1>2
<1> QED
    BY <1>2, <1>3 DEF Settles

\* A message about other symbols changes nothing for s.
LEMMA OthersDoNotCount ==
    ASSUME NEW w \in Seq(Messages), NEW m \in Messages, NEW mine, NEW want, NEW s,
           s \notin m.symbols, Settles(w, mine, want, s)
    PROVE  Settles(Append(w, m), mine, want, s)
<1>1. PICK v, n : v = Append(w, m) /\ n = Len(w)
    OBVIOUS
<1>2. /\ Len(v) = n + 1 /\ n \in Nat /\ v[n + 1] = m
      /\ \A k \in 1..n : v[k] = w[k]
    BY <1>1, AppendProperties, LenProperties
<1>3. CASE (\A k \in 1..n : s \notin w[k].symbols) /\ (s \in mine <=> s \in want)
    <2>1. ASSUME NEW k \in 1..Len(v) PROVE s \notin v[k].symbols
        <3>1. k \in 1..n \/ k = n + 1
            BY <1>2
        <3> QED
            BY <1>2, <1>3, <3>1
    <2> QED
        BY <1>1, <1>3, <2>1 DEF Settles
<1>4. ASSUME NEW k \in 1..n, s \in w[k].symbols, w[k].type = "subscribe" <=> s \in want,
             \A j \in (k + 1)..n : s \notin w[j].symbols
      PROVE  Settles(Append(w, m), mine, want, s)
    <2>1. ASSUME NEW j \in (k + 1)..Len(v) PROVE s \notin v[j].symbols
        <3>1. j \in (k + 1)..n \/ j = n + 1
            BY <1>2
        <3>2. \A i \in (k + 1)..n : v[i] = w[i]
            BY <1>2
        <3> QED
            BY <1>2, <1>4, <3>1, <3>2
    <2>2. k \in 1..Len(v) /\ v[k] = w[k]
        BY <1>2
    <2> QED
        BY <1>1, <1>4, <2>1, <2>2 DEF Settles
<1> QED
    BY <1>1, <1>3, <1>4 DEF Settles

\* The message that is handled takes effect, and the others still have to.
LEMMA HandlingSettles ==
    ASSUME NEW w \in Seq(Messages), w # <<>>, NEW mine, NEW new, NEW want, NEW s,
           Settles(w, mine, want, s),
           s \in Head(w).symbols => (s \in new <=> Head(w).type = "subscribe"),
           s \notin Head(w).symbols => (s \in new <=> s \in mine)
    PROVE  Settles(Tail(w), new, want, s)
<1>1. PICK v, n : v = Tail(w) /\ n = Len(w)
    OBVIOUS
<1>2. /\ Len(v) = n - 1 /\ n \in Nat /\ n >= 1 /\ Head(w) = w[1]
      /\ \A k \in 1..(n - 1) : v[k] = w[k + 1]
    <2>1. n \in Nat /\ n # 0
        BY <1>1, EmptySeq, LenProperties
    <2> QED
        BY <1>1, <2>1, HeadTailProperties
<1>3. CASE (\A k \in 1..n : s \notin w[k].symbols) /\ (s \in mine <=> s \in want)
    <2>1. \A k \in 1..Len(v) : s \notin v[k].symbols
        BY <1>2, <1>3
    <2>2. s \notin Head(w).symbols
        BY <1>2, <1>3
    <2> QED
        BY <1>1, <1>3, <2>1, <2>2 DEF Settles
<1>4. ASSUME NEW k \in 1..n, s \in w[k].symbols, w[k].type = "subscribe" <=> s \in want,
             \A j \in (k + 1)..n : s \notin w[j].symbols
      PROVE  Settles(Tail(w), new, want, s)
    <2>1. CASE k = 1
        <3>1. \A j \in 1..Len(v) : s \notin v[j].symbols
            BY <1>2, <1>4, <2>1
        <3>2. s \in new <=> s \in want
            BY <1>2, <1>4, <2>1
        <3> QED
            BY <1>1, <3>1, <3>2 DEF Settles
    <2>2. CASE k # 1
        <3>1. k - 1 \in 1..Len(v) /\ v[k - 1] = w[k]
            BY <1>2, <2>2
        <3>2. ASSUME NEW j \in ((k - 1) + 1)..Len(v) PROVE s \notin v[j].symbols
            <4>1. v[j] = w[j + 1] /\ j + 1 \in (k + 1)..n
                BY <1>2, <3>2
            <4> QED
                BY <1>4, <4>1
        <3> QED
            BY <1>1, <1>4, <3>1, <3>2 DEF Settles
    <2> QED
        BY <2>1, <2>2
<1> QED
    BY <1>1, <1>3, <1>4 DEF Settles

-----------------------------------------------------------------------------
(* The inductive invariant                                                  *)

StreamTyped == StreamTypeOK /\ wire \in [Sockets -> Seq(Messages)]

\* The two maps of the server are one relation between clients and symbols.
Mapped == \A s \in Symbols : subscribers[s] = {i \in clients : s \in symbols[i]}

\* Of a connection that is not a client the server knows nothing.
Strangers == \A i \in Sockets \ clients : symbols[i] = {} /\ wire[i] = <<>> /\ i \notin refused

\* A connection is a client from the moment it opens.
Opened == \A i \in clients : state[i] # "connecting"

\* What the server is told on the provider's connection, of the symbols it knows, is what
\* the components follow.
Served(i) == i \in clients /\ state[i] = "open" /\ i \notin refused
               => \A s \in Listed : Settles(wire[i], symbols[i], Active, s)

Heard == ref # 0 => Served(ref)

StreamInv == StreamTyped /\ Mapped /\ Strangers /\ Opened /\ Heard

\* The provider that has just been mounted has told the server nothing and follows nothing.
LEMMA InitStream == StreamInit => StreamInv
<1> SUFFICES ASSUME StreamInit PROVE StreamInv
    OBVIOUS
<1>1. PICK first \in {"none", "closing"} :
          state = [i \in Sockets |-> CASE i = 1 -> "connecting" [] i = 2 -> first [] OTHER -> "none"]
    BY DEF StreamInit
<1>2. state \in [Sockets -> {"none", "connecting", "open", "closing", "closed"}]
    BY <1>1
<1>3. <<>> \in Seq(Messages)
    BY EmptySeq
<1>4. wire \in [Sockets -> Seq(Messages)]
    BY <1>3 DEF StreamInit
<1>5. 0 \in 0..MaxCount /\ ref \in 0..MaxSockets /\ 0 \in 0..RequestLimit
    BY StreamBounds DEF StreamInit
<1>6. StreamTyped
    BY <1>2, <1>4, <1>5 DEF StreamTyped, StreamTypeOK, StreamInit
<1> QED
    BY <1>6 DEF StreamInv, Mapped, Strangers, Opened, Heard, Served, StreamInit

\* What sendMessage does.
LEMMA Sending ==
    ASSUME StreamTyped, NEW type \in {"subscribe", "unsubscribe"}, NEW S \in SUBSET Symbols, NEW current, NEW known,
           Send(type, S, current, known)
    PROVE  /\ wire' \in [Sockets -> Seq(Messages)]
           /\ \A i \in Sockets : i # ref => wire'[i] = wire[i]
           /\ S = {} \/ ~(ref # 0 /\ current[ref] = "open" /\ ref \in known) => wire' = wire
           /\ S # {} /\ ref # 0 /\ current[ref] = "open" /\ ref \in known
                 => wire'[ref] = Append(wire[ref], [type |-> type, symbols |-> S])
<1>1. wire \in [Sockets -> Seq(Messages)] /\ [type |-> type, symbols |-> S] \in Messages
    BY DEF StreamTyped, Messages
<1>2. CASE S # {} /\ ref # 0 /\ current[ref] = "open" /\ ref \in known
    <2>1. ref \in Sockets
        BY <1>2 DEF StreamTyped, StreamTypeOK, Sockets
    <2>2. PICK m \in Messages : m = [type |-> type, symbols |-> S]
        BY <1>1
    <2>3. wire' = [wire EXCEPT ![ref] = Append(wire[ref], m)]
        BY <1>2, <2>2 DEF Send
    <2>4. Append(wire[ref], m) \in Seq(Messages)
        BY <1>1, <2>1, AppendProperties
    <2> QED
        BY <1>1, <1>2, <2>1, <2>2, <2>3, <2>4
<1>3. CASE ~(S # {} /\ ref # 0 /\ current[ref] = "open" /\ ref \in known)
    BY <1>1, <1>3 DEF Send
<1> QED
    BY <1>2, <1>3

\* A message to the provider's connection leaves the strangers strangers.
LEMMA SendKeepsStrangers ==
    ASSUME StreamTyped, Strangers, NEW type \in {"subscribe", "unsubscribe"}, NEW S \in SUBSET Symbols, NEW current,
           Send(type, S, current, clients'), clients \subseteq clients', UNCHANGED <<symbols, refused>>
    PROVE  Strangers'
<1>1. ASSUME NEW i \in Sockets, i \notin clients' PROVE wire'[i] = wire[i]
    BY <1>1, Sending
<1> QED
    BY <1>1 DEF Strangers, Sockets

-----------------------------------------------------------------------------
(* The provider                                                             *)

\* A count that changes makes its own symbol active or not, and no other.
LEMMA CountsChange ==
    ASSUME StreamTyped, NEW s \in Symbols, NEW n \in 0..MaxCount, counts' = [counts EXCEPT ![s] = n]
    PROVE  /\ counts' \in [Symbols -> 0..MaxCount]
           /\ s \in Active' <=> n > 0
           /\ \A r \in Symbols : r # s => (r \in Active' <=> r \in Active)
BY DEF StreamTyped, StreamTypeOK, Active

\* A change of one count, with the message about it when it becomes or was 1.
LEMMA CountInv ==
    ASSUME StreamInv, NEW s \in Symbols, NEW n \in 0..MaxCount, counts' = [counts EXCEPT ![s] = n],
           NEW type \in {"subscribe", "unsubscribe"}, NEW S \in {{}, {s}}, Send(type, S, state, clients),
           S = {s} => (type = "subscribe" <=> n > 0),
           S = {} => (counts[s] > 0 <=> n > 0),
           UNCHANGED <<ref, timer, mounted, state, server>>
    PROVE  StreamInv'
<1>1. StreamTyped /\ Mapped /\ Strangers /\ Opened /\ Heard
    BY DEF StreamInv
<1>2. S \in SUBSET Symbols
    OBVIOUS
<1>3. StreamTyped'
    BY <1>1, <1>2, Sending, CountsChange DEF StreamTyped, StreamTypeOK, server
<1>4. Mapped' /\ Opened'
    BY <1>1 DEF Mapped, Opened, server
<1>5. Strangers'
    BY <1>1, <1>2, SendKeepsStrangers DEF server
<1>6. ASSUME ref # 0, ref \in clients, state[ref] = "open", ref \notin refused, NEW r \in Listed
      PROVE  Settles(wire'[ref], symbols[ref], Active', r)
    <2>1. Settles(wire[ref], symbols[ref], Active, r) /\ wire[ref] \in Seq(Messages)
        BY <1>1, <1>6 DEF Heard, Served, StreamTyped, StreamTypeOK, Sockets
    <2>2. (S = {} => wire'[ref] = wire[ref])
          /\ (S # {} => wire'[ref] = Append(wire[ref], [type |-> type, symbols |-> S]))
        BY <1>1, <1>2, <1>6, Sending
    <2>3. PICK m \in Messages : m = [type |-> type, symbols |-> S]
        BY <1>2 DEF Messages
    <2>4. r # s => (r \in Active' <=> r \in Active)
      <3>1. r \in Symbols
          BY StreamBounds
      <3>2. \A q \in Symbols : q # s => (q \in Active' <=> q \in Active)
          BY <1>1, CountsChange
      <3>3. QED
          BY <3>1, <3>2
    <2>5. s \in Active' <=> n > 0
        BY <1>1, CountsChange
    <2>6. CASE S = {}
        <3>1. r \in Active' <=> r \in Active
            BY <1>1, <2>4, <2>5, <2>6 DEF Active
        <3> QED
            BY <2>1, <2>2, <2>6, <3>1 DEF Settles
    <2>7. CASE S = {s} /\ r = s
        <3>1. wire'[ref] = Append(wire[ref], m) /\ r \in m.symbols
            BY <2>2, <2>3, <2>7
        <3>2. m.type = "subscribe" <=> r \in Active'
            BY <2>3, <2>5, <2>7
        <3> QED
            BY <2>1, <3>1, <3>2, LastOneCounts
    <2>8. CASE S = {s} /\ r # s
        <3>1. Settles(wire[ref], symbols[ref], Active', r)
            BY <2>1, <2>4, <2>8 DEF Settles
        <3>2. wire'[ref] = Append(wire[ref], m) /\ r \notin m.symbols
            BY <2>2, <2>3, <2>8
        <3> QED
            BY <2>1, <3>1, <3>2, OthersDoNotCount
    <2> QED
        BY <2>6, <2>7, <2>8
<1>7. Heard'
    BY <1>6 DEF Heard, Served, server
<1> QED
    BY <1>3, <1>4, <1>5, <1>7 DEF StreamInv

\* The first component that follows a symbol sends a message that settles it.
LEMMA SubscribeInv == ASSUME StreamInv, NEW s \in Symbols, SubscribeSymbol(s) PROVE StreamInv'
<1>1. counts[s] \in Nat /\ counts[s] + 1 \in 0..MaxCount
    BY StreamBounds DEF StreamInv, StreamTyped, StreamTypeOK, SubscribeSymbol
<1>2. PICK S : S = IF counts[s] = 0 THEN {s} ELSE {}
    OBVIOUS
<1>3. Send("subscribe", S, state, clients)
    BY <1>2 DEF SubscribeSymbol
<1>4. counts' = [counts EXCEPT ![s] = counts[s] + 1] /\ UNCHANGED <<ref, timer, mounted, state, server>>
    BY DEF SubscribeSymbol
<1>5. S \in {{}, {s}} /\ (S = {} => (counts[s] > 0 <=> counts[s] + 1 > 0)) /\ counts[s] + 1 > 0
    BY <1>1, <1>2
<1> QED
    BY <1>1, <1>3, <1>4, <1>5, CountInv

\* So does the last one that leaves.
LEMMA UnsubscribeInv == ASSUME StreamInv, NEW s \in Symbols, UnsubscribeSymbol(s) PROVE StreamInv'
<1>1. counts[s] \in Nat /\ counts[s] > 0 /\ counts[s] - 1 \in 0..MaxCount
    BY StreamBounds DEF StreamInv, StreamTyped, StreamTypeOK, UnsubscribeSymbol
<1>2. PICK S : S = IF counts[s] = 1 THEN {s} ELSE {}
    OBVIOUS
<1>3. Send("unsubscribe", S, state, clients)
    BY <1>2 DEF UnsubscribeSymbol
<1>4. counts' = [counts EXCEPT ![s] = counts[s] - 1] /\ UNCHANGED <<ref, timer, mounted, state, server>>
    BY DEF UnsubscribeSymbol
<1>5. /\ S \in {{}, {s}} /\ (S = {} => (counts[s] > 0 <=> counts[s] - 1 > 0))
      /\ S = {s} => ~(counts[s] - 1 > 0)
    BY <1>1, <1>2
<1> QED
    BY <1>1, <1>3, <1>4, <1>5, CountInv

\* A new connection is told all active symbols before anything else.
LEMMA OpenInv == ASSUME StreamInv, NEW i \in Sockets, Open(i) PROVE StreamInv'
<1>1. StreamTyped /\ Mapped /\ Strangers /\ Opened /\ Heard
    BY DEF StreamInv
<1>2. /\ state[i] = "connecting" /\ state' = [state EXCEPT ![i] = "open"]
      /\ clients' = clients \cup {i} /\ alive' = alive \cup {i}
      /\ Send("subscribe", Active, state', clients')
      /\ UNCHANGED <<counts, ref, timer, mounted, symbols, subscribers, requests, refused>>
    BY DEF Open
<1>3. Active \in SUBSET Symbols /\ Active' = Active
    BY <1>2 DEF Active
<1>4. i \notin clients /\ symbols[i] = {} /\ wire[i] = <<>>
    BY <1>1, <1>2 DEF Opened, Strangers
<1>5. StreamTyped'
    <2>1. wire' \in [Sockets -> Seq(Messages)]
        BY <1>1, <1>2, <1>3, Sending
    <2>2. state' \in [Sockets -> {"none", "connecting", "open", "closing", "closed"}]
        BY <1>1, <1>2 DEF StreamTyped, StreamTypeOK
    <2> QED
        BY <1>1, <1>2, <2>1, <2>2 DEF StreamTyped, StreamTypeOK
<1>6. Mapped'
    BY <1>1, <1>2, <1>4 DEF Mapped
<1>7. Opened'
    BY <1>1, <1>2 DEF Opened, StreamTyped, StreamTypeOK
<1>8. Strangers'
    BY <1>1, <1>2, <1>3, SendKeepsStrangers
<1>9. ASSUME ref # 0, ref \in clients', state'[ref] = "open", ref \notin refused, NEW s \in Listed
      PROVE  Settles(wire'[ref], symbols[ref], Active, s)
    <2>1. ref \in Sockets /\ wire[ref] \in Seq(Messages)
        BY <1>1, <1>9 DEF StreamTyped, StreamTypeOK, Sockets
    <2>2. (Active = {} => wire'[ref] = wire[ref])
          /\ (Active # {} => wire'[ref] = Append(wire[ref], [type |-> "subscribe", symbols |-> Active]))
        BY <1>1, <1>2, <1>3, <1>9, Sending
    <2>3. PICK m \in Messages : m = [type |-> "subscribe", symbols |-> Active]
        BY <1>3 DEF Messages
    <2>4. s \notin Active => Settles(wire[ref], symbols[ref], Active, s)
        <3>1. CASE ref = i
            BY <1>4, <3>1, NothingSent
        <3>2. CASE ref # i
            <4>1. ref \in clients /\ state[ref] = "open"
                BY <1>1, <1>2, <1>9, <2>1, <3>2 DEF StreamTyped, StreamTypeOK
            <4> QED
                BY <1>1, <1>9, <4>1 DEF Heard, Served
        <3> QED
            BY <3>1, <3>2
    <2>5. CASE s \in Active
        <3>1. Active # {}
            BY <2>5
        <3>2. wire'[ref] = Append(wire[ref], m)
            BY <2>2, <2>3, <3>1
        <3> QED
            BY <2>1, <2>3, <2>5, <3>2, LastOneCounts
    <2>6. CASE s \notin Active
        <3>1. CASE Active = {}
            BY <2>2, <2>4, <2>6, <3>1
        <3>2. CASE Active # {}
            BY <2>1, <2>2, <2>3, <2>4, <2>6, <3>2, OthersDoNotCount
        <3> QED
            BY <3>1, <3>2
    <2> QED
        BY <2>5, <2>6
<1>10. Heard'
    BY <1>2, <1>3, <1>9 DEF Heard, Served
<1> QED
    BY <1>5, <1>6, <1>7, <1>8, <1>10 DEF StreamInv

\* A step of the provider that neither sends nor counts, and whose connection is none,
\* the old one or one that is not open.
LEMMA QuietProvider ==
    ASSUME StreamInv, UNCHANGED <<counts, mounted, wire, server>> \/ UNCHANGED <<counts, wire, server>>,
           timer' \in {"none", "running", "cleared"}, mounted' \in BOOLEAN, ref' \in 0..MaxSockets,
           state' \in [Sockets -> {"none", "connecting", "open", "closing", "closed"}],
           \A i \in clients : state'[i] # "connecting",
           ref' # 0 /\ ref' \in clients /\ state'[ref'] = "open" => ref' = ref /\ state[ref] = "open"
    PROVE  StreamInv'
<1>1. StreamTyped /\ Mapped /\ Strangers /\ Opened /\ Heard
    BY DEF StreamInv
<1>2. UNCHANGED <<counts, wire, clients, alive, symbols, subscribers, requests, refused>>
    BY DEF server
<1>3. StreamTyped' /\ Mapped' /\ Strangers' /\ Opened'
    BY <1>1, <1>2 DEF StreamTyped, StreamTypeOK, Mapped, Strangers, Opened
<1>4. Active' = Active
    BY <1>2 DEF Active
<1>5. Heard'
    BY <1>1, <1>2, <1>4 DEF Heard, Served
<1> QED
    BY <1>3, <1>5 DEF StreamInv

\* onclose forgets the connection, so that nothing is promised about it.
LEMMA CloseInv == ASSUME StreamInv, NEW i \in Sockets, OnClose(i) PROVE StreamInv'
<1>1. state' = [state EXCEPT ![i] = "closed"] /\ ref' = 0 /\ timer' = (IF timer = "none" THEN "running" ELSE timer)
      /\ UNCHANGED <<counts, mounted, wire, server>>
    BY DEF OnClose
<1>2. state \in [Sockets -> {"none", "connecting", "open", "closing", "closed"}] /\ mounted \in BOOLEAN
      /\ clients \subseteq Sockets /\ \A j \in clients : state[j] # "connecting"
    BY DEF StreamInv, StreamTyped, StreamTypeOK, Opened
<1>3. state' \in [Sockets -> {"none", "connecting", "open", "closing", "closed"}]
      /\ \A j \in clients : state'[j] # "connecting"
    BY <1>1, <1>2
<1>4. ref' \in 0..MaxSockets
    BY <1>1, StreamBounds
<1>5. timer' \in {"none", "running", "cleared"}
    BY <1>1 DEF StreamInv, StreamTyped, StreamTypeOK
<1> QED
    BY <1>1, <1>2, <1>3, <1>4, <1>5, QuietProvider

\* A new connection is not open yet.
LEMMA ReconnectInv == ASSUME StreamInv, Reconnect PROVE StreamInv'
<1>1. state \in [Sockets -> {"none", "connecting", "open", "closing", "closed"}] /\ mounted \in BOOLEAN
      /\ clients \subseteq Sockets /\ (\A j \in clients : state[j] # "connecting") /\ ref \in 0..MaxSockets
    BY DEF StreamInv, StreamTyped, StreamTypeOK, Opened
<1>2. timer' = "none" /\ UNCHANGED <<counts, mounted, wire, server>>
    BY DEF Reconnect
<1>3. CASE UNCHANGED <<ref, state>>
    BY <1>1, <1>2, <1>3, QuietProvider
<1>4. ASSUME NEW i \in Free, ref' = i, state' = [state EXCEPT ![i] = "connecting"] PROVE StreamInv'
    <2>1. i \in Sockets /\ i \notin clients /\ i \in 0..MaxSockets
        BY DEF Free, Sockets
    <2>2. state' \in [Sockets -> {"none", "connecting", "open", "closing", "closed"}]
          /\ (\A j \in clients : state'[j] # "connecting") /\ ref' \notin clients
        BY <1>1, <1>4, <2>1
    <2> QED
        BY <1>1, <1>2, <1>4, <2>1, <2>2, QuietProvider
<1> QED
    BY <1>3, <1>4 DEF Reconnect

\* A closing connection is not open any more.
LEMMA UnmountInv == ASSUME StreamInv, Unmount PROVE StreamInv'
<1>1. state \in [Sockets -> {"none", "connecting", "open", "closing", "closed"}]
      /\ clients \subseteq Sockets /\ (\A j \in clients : state[j] # "connecting") /\ ref \in 0..MaxSockets
    BY DEF StreamInv, StreamTyped, StreamTypeOK, Opened
<1>2. mounted' = FALSE /\ timer' \in {"none", "running", "cleared"} /\ UNCHANGED <<counts, ref, wire, server>>
    BY DEF Unmount, StreamInv, StreamTyped, StreamTypeOK
<1>3. CASE state' = state
    BY <1>1, <1>2, <1>3, QuietProvider
<1>4. CASE ref # 0 /\ state' = [state EXCEPT ![ref] = "closing"]
    <2>1. ref \in Sockets
        BY <1>1, <1>4 DEF Sockets
    <2>2. state' \in [Sockets -> {"none", "connecting", "open", "closing", "closed"}]
          /\ (\A j \in clients : state'[j] # "connecting") /\ state'[ref] # "open"
        BY <1>1, <1>4, <2>1
    <2> QED
        BY <1>1, <1>2, <2>2, QuietProvider
<1> QED
    BY <1>3, <1>4 DEF Unmount

-----------------------------------------------------------------------------
(* The server                                                               *)

\* Whoever is removed, the others keep what they have.
LEMMA RemovalInv ==
    ASSUME StreamInv, NEW gone \in SUBSET clients, RemoveClients(gone), UNCHANGED provider, alive' \subseteq Sockets
    PROVE  StreamInv'
<1>1. StreamTyped /\ Mapped /\ Strangers /\ Opened /\ Heard
    BY DEF StreamInv
<1>2. /\ clients' = clients \ gone
      /\ symbols' = [i \in Sockets |-> IF i \in gone THEN {} ELSE symbols[i]]
      /\ subscribers' = [s \in Symbols |-> subscribers[s] \ {i \in gone : s \in symbols[i]}]
      /\ wire' = [i \in Sockets |-> IF i \in gone THEN <<>> ELSE wire[i]]
      /\ requests' = [i \in Sockets |-> IF i \in gone THEN 0 ELSE requests[i]]
      /\ refused' = refused \ gone
    BY DEF RemoveClients
<1>3. UNCHANGED <<counts, ref, timer, mounted, state>>
    BY DEF provider
<1>4. <<>> \in Seq(Messages) /\ 0 \in 0..RequestLimit
    BY EmptySeq, StreamBounds
<1>5. StreamTyped'
    <2>1. wire' \in [Sockets -> Seq(Messages)] /\ symbols' \in [Sockets -> SUBSET Listed]
          /\ subscribers' \in [Symbols -> SUBSET Sockets] /\ requests' \in [Sockets -> 0..RequestLimit]
        BY <1>1, <1>2, <1>4 DEF StreamTyped, StreamTypeOK
    <2> QED
        BY <1>1, <1>2, <1>3, <2>1 DEF StreamTyped, StreamTypeOK
<1>6. Mapped'
    <2>1. ASSUME NEW s \in Symbols PROVE subscribers'[s] = {i \in clients' : s \in symbols'[i]}
        <3>1. clients \subseteq Sockets
            BY <1>1 DEF StreamTyped, StreamTypeOK
        <3> QED
            BY <1>1, <1>2, <3>1 DEF Mapped
    <2> QED
        BY <2>1 DEF Mapped
<1>7. Strangers'
    BY <1>1, <1>2 DEF Strangers
<1>8. Opened'
    BY <1>1, <1>2, <1>3 DEF Opened
<1>9. Heard'
    <2>1. Active' = Active
        BY <1>3 DEF Active
    <2>2. ASSUME ref # 0, ref \in clients', state[ref] = "open", ref \notin refused', NEW s \in Listed
          PROVE  Settles(wire'[ref], symbols'[ref], Active, s)
        <3>1. ref \in clients /\ ref \notin gone /\ ref \notin refused /\ ref \in Sockets
            BY <1>1, <1>2, <2>2 DEF StreamTyped, StreamTypeOK
        <3>2. wire'[ref] = wire[ref] /\ symbols'[ref] = symbols[ref]
            BY <1>2, <3>1
        <3> QED
            BY <1>1, <2>2, <3>1, <3>2 DEF Heard, Served
    <2> QED
        BY <1>3, <2>1, <2>2 DEF Heard, Served
<1> QED
    BY <1>5, <1>6, <1>7, <1>8, <1>9 DEF StreamInv

\* Whom the server removes it forgets entirely, in both maps.
LEMMA DisconnectInv == ASSUME StreamInv, NEW i \in Sockets, Disconnect(i) PROVE StreamInv'
<1>1. {i} \in SUBSET clients /\ alive' \subseteq Sockets
    BY DEF Disconnect, StreamInv, StreamTyped, StreamTypeOK
<1> QED
    BY <1>1, RemovalInv DEF Disconnect

\* The same, for those that did not answer.
LEMMA HeartbeatInv == ASSUME StreamInv, Heartbeat PROVE StreamInv'
BY RemovalInv DEF Heartbeat

\* A step of the server that touches neither maps nor messages.
LEMMA WindowInv == ASSUME StreamInv, NEW i \in Sockets, WindowEnds(i) PROVE StreamInv'
<1>1. StreamTyped /\ Mapped /\ Strangers /\ Opened /\ Heard
    BY DEF StreamInv
<1>2. requests' = [requests EXCEPT ![i] = 0] /\ 0 \in 0..RequestLimit
      /\ UNCHANGED <<counts, ref, timer, mounted, state, wire, clients, alive, symbols, subscribers, refused>>
    BY StreamBounds DEF WindowEnds, provider
<1>3. requests' \in [Sockets -> 0..RequestLimit]
    BY <1>1, <1>2 DEF StreamTyped, StreamTypeOK
<1>4. StreamTyped' /\ Mapped' /\ Strangers' /\ Opened'
    BY <1>1, <1>2, <1>3 DEF StreamTyped, StreamTypeOK, Mapped, Strangers, Opened
<1>5. Heard'
    BY <1>1, <1>2 DEF Heard, Served, Active
<1> QED
    BY <1>4, <1>5 DEF StreamInv

\* Who answers a ping stays.
LEMMA PongInv == ASSUME StreamInv, NEW i \in Sockets, Pong(i) PROVE StreamInv'
<1>1. StreamTyped /\ Mapped /\ Strangers /\ Opened /\ Heard
    BY DEF StreamInv
<1>2. alive' = alive \cup {i}
      /\ UNCHANGED <<counts, ref, timer, mounted, state, wire, clients, symbols, subscribers, requests, refused>>
    BY DEF Pong, provider
<1>3. StreamTyped' /\ Mapped' /\ Strangers' /\ Opened'
    BY <1>1, <1>2 DEF StreamTyped, StreamTypeOK, Mapped, Strangers, Opened
<1>4. Heard'
    BY <1>1, <1>2 DEF Heard, Served, Active
<1> QED
    BY <1>3, <1>4 DEF StreamInv

\* A handled message takes effect in both maps alike, or is refused.
LEMMA HandleInv == ASSUME StreamInv, NEW i \in Sockets, HandleMessage(i) PROVE StreamInv'
<1>1. StreamTyped /\ Mapped /\ Strangers /\ Opened /\ Heard
    BY DEF StreamInv
<1>2. i \in clients /\ wire[i] # <<>> /\ wire' = [wire EXCEPT ![i] = Tail(wire[i])]
      /\ UNCHANGED <<counts, ref, timer, mounted, state, clients, alive>>
    BY DEF HandleMessage, provider
<1>3. PICK m : m = Head(wire[i])
    OBVIOUS
<1>4. wire[i] \in Seq(Messages) /\ m \in Messages /\ Tail(wire[i]) \in Seq(Messages)
    BY <1>1, <1>2, <1>3, HeadTailProperties DEF StreamTyped
<1>5. m.type \in {"subscribe", "unsubscribe"} /\ m.symbols \subseteq Symbols
    BY <1>4 DEF Messages
<1>6. /\ m.type = "subscribe" => HandleSubscribe(i, m.symbols)
      /\ m.type # "subscribe" => HandleUnsubscribe(i, m.symbols)
    BY <1>3 DEF HandleMessage
<1>7. wire' \in [Sockets -> Seq(Messages)]
    BY <1>1, <1>2, <1>4 DEF StreamTyped
<1>8. symbols \in [Sockets -> SUBSET Listed] /\ subscribers \in [Symbols -> SUBSET Sockets]
      /\ requests \in [Sockets -> 0..RequestLimit] /\ refused \subseteq Sockets /\ clients \subseteq Sockets
    BY <1>1 DEF StreamTyped, StreamTypeOK
<1>9. PICK mine : /\ mine \in SUBSET Listed
                  /\ symbols' = [symbols EXCEPT ![i] = mine]
                  /\ subscribers' = [s \in Symbols |-> IF s \in mine THEN subscribers[s] \cup {i}
                                                       ELSE subscribers[s] \ {i}]
                  /\ requests' \in [Sockets -> 0..RequestLimit]
                  /\ refused \subseteq refused' /\ refused' \subseteq refused \cup {i}
                  /\ i \notin refused' => mine = IF m.type = "subscribe" THEN symbols[i] \cup (m.symbols \cap Listed)
                                                 ELSE symbols[i] \ m.symbols
    <2>1. \A s \in Symbols : i \in subscribers[s] <=> s \in symbols[i]
        BY <1>1, <1>2 DEF Mapped
    <2>2. CASE m.type = "subscribe" /\ requests[i] >= RequestLimit
        <3>1. refused' = refused \cup {i} /\ UNCHANGED <<symbols, subscribers, requests>>
            BY <1>6, <2>2 DEF HandleSubscribe
        <3>2. symbols' = [symbols EXCEPT ![i] = symbols[i]]
            BY <1>8, <3>1
        <3>3. subscribers' = [s \in Symbols |-> IF s \in symbols[i] THEN subscribers[s] \cup {i}
                                                ELSE subscribers[s] \ {i}]
            BY <1>8, <2>1, <3>1
        <3> QED
            BY <1>8, <3>1, <3>2, <3>3
    <2>3. CASE m.type = "subscribe" /\ ~(requests[i] >= RequestLimit)
        <3>1. PICK new : new = symbols[i] \cup (m.symbols \cap Listed)
            OBVIOUS
        <3>2. /\ requests' = [requests EXCEPT ![i] = requests[i] + 1]
              /\ symbols' = [symbols EXCEPT ![i] = new]
              /\ subscribers' = [s \in Symbols |->
                    IF s \in (m.symbols \cap Listed) \ symbols[i] THEN subscribers[s] \cup {i} ELSE subscribers[s]]
              /\ refused' = refused
            BY <1>6, <2>3, <3>1 DEF HandleSubscribe
        <3>3. requests[i] + 1 \in 0..RequestLimit
            BY <1>8, <2>3, StreamBounds
        <3>4. requests' \in [Sockets -> 0..RequestLimit]
            BY <1>8, <3>2, <3>3
        <3>5. subscribers' = [s \in Symbols |-> IF s \in new THEN subscribers[s] \cup {i}
                                                ELSE subscribers[s] \ {i}]
            BY <1>8, <2>1, <3>1, <3>2
        <3> QED
            BY <1>5, <1>8, <2>3, <3>1, <3>2, <3>4, <3>5
    <2>4. CASE m.type # "subscribe"
        <3>1. PICK new : new = symbols[i] \ m.symbols
            OBVIOUS
        <3>2. /\ symbols' = [symbols EXCEPT ![i] = new]
              /\ subscribers' = [s \in Symbols |->
                    IF s \in m.symbols \cap symbols[i] THEN subscribers[s] \ {i} ELSE subscribers[s]]
              /\ UNCHANGED <<requests, refused>>
            BY <1>6, <2>4, <3>1 DEF HandleUnsubscribe
        <3>3. subscribers' = [s \in Symbols |-> IF s \in new THEN subscribers[s] \cup {i}
                                                ELSE subscribers[s] \ {i}]
            BY <1>8, <2>1, <3>1, <3>2
        <3> QED
            BY <1>5, <1>8, <2>4, <3>1, <3>2, <3>3
    <2> QED
        BY <2>2, <2>3, <2>4
<1>10. StreamTyped'
    <2>1. symbols' \in [Sockets -> SUBSET Listed] /\ subscribers' \in [Symbols -> SUBSET Sockets]
          /\ refused' \subseteq Sockets
        BY <1>8, <1>9
    <2> QED
        BY <1>1, <1>2, <1>7, <1>9, <2>1 DEF StreamTyped, StreamTypeOK
<1>11. Mapped'
    BY <1>1, <1>2, <1>8, <1>9 DEF Mapped
<1>12. Strangers'
    BY <1>1, <1>2, <1>7, <1>8, <1>9 DEF Strangers, StreamTyped
<1>13. Opened'
    BY <1>1, <1>2 DEF Opened
<1>14. ASSUME ref # 0, ref \in clients, state[ref] = "open", ref \notin refused', NEW s \in Listed
       PROVE  Settles(wire'[ref], symbols'[ref], Active, s)
    <2>1. Settles(wire[ref], symbols[ref], Active, s)
        BY <1>1, <1>9, <1>14 DEF Heard, Served
    <2>2. CASE ref # i
        <3>1. wire'[ref] = wire[ref] /\ symbols'[ref] = symbols[ref]
            BY <1>1, <1>2, <1>8, <1>9, <1>14, <2>2 DEF StreamTyped
        <3> QED
            BY <2>1, <3>1
    <2>3. CASE ref = i
        <3>1. wire'[ref] = Tail(wire[i]) /\ symbols'[ref] = mine
            BY <1>1, <1>2, <1>8, <1>9, <2>3 DEF StreamTyped
        <3>2. mine = IF m.type = "subscribe" THEN symbols[i] \cup (m.symbols \cap Listed)
                     ELSE symbols[i] \ m.symbols
            BY <1>9, <1>14, <2>3
        <3>3. s \in m.symbols => (s \in mine <=> m.type = "subscribe")
            BY <1>14, <3>2
        <3>4. s \notin m.symbols => (s \in mine <=> s \in symbols[i])
            BY <3>2
        <3>5. Settles(wire[i], symbols[i], Active, s)
            BY <2>1, <2>3
        <3>6. Settles(Tail(wire[i]), mine, Active, s)
            BY <1>2, <1>3, <1>4, <3>3, <3>4, <3>5, HandlingSettles
        <3> QED
            BY <3>1, <3>6
    <2> QED
        BY <2>2, <2>3
<1>15. Heard'
    BY <1>2, <1>14 DEF Heard, Served, Active
<1> QED
    BY <1>10, <1>11, <1>12, <1>13, <1>15 DEF StreamInv

-----------------------------------------------------------------------------
(* The theorems about the stream                                            *)

\* A step of others changes nothing.
LEMMA StutterStream == ASSUME StreamInv, UNCHANGED streamVars PROVE StreamInv'
<1>1. UNCHANGED <<counts, ref, timer, mounted, state, wire, clients, alive, symbols, subscribers, requests, refused>>
    BY DEF streamVars, provider, server
<1> QED
    BY <1>1 DEF StreamInv, StreamTyped, StreamTypeOK, Mapped, Strangers, Opened, Heard, Served, Active

\* Each action of the provider and of the server keeps the invariant.
LEMMA NextStream == StreamInv /\ [StreamNext]_streamVars => StreamInv'
<1> SUFFICES ASSUME StreamInv, [StreamNext]_streamVars PROVE StreamInv'
    OBVIOUS
<1>1. ASSUME NEW s \in Symbols, SubscribeSymbol(s) \/ UnsubscribeSymbol(s) PROVE StreamInv'
    BY <1>1, SubscribeInv, UnsubscribeInv
<1>2. ASSUME NEW i \in Sockets, Open(i) \/ OnClose(i) \/ HandleMessage(i) PROVE StreamInv'
    BY <1>2, OpenInv, CloseInv, HandleInv
<1>3. ASSUME NEW i \in Sockets, WindowEnds(i) \/ Disconnect(i) \/ Pong(i) PROVE StreamInv'
    BY <1>3, WindowInv, DisconnectInv, PongInv
<1>4. CASE Reconnect \/ Unmount \/ Heartbeat
    BY <1>4, ReconnectInv, UnmountInv, HeartbeatInv
<1> QED
    BY <1>1, <1>2, <1>3, <1>4, StutterStream DEF StreamNext

\* Every message the provider sends on its connection settles what it is about: the
\* invariant that the correctness of the broadcasts rests on.
THEOREM StreamInductive == StreamSpec => []StreamInv
BY InitStream, NextStream, PTL DEF StreamSpec

\* Subscription counts, connections, messages and the maps of the server have their types
\* in every reachable state.
THEOREM StreamTypeCorrect == StreamSpec => []StreamTypeOK
<1>1. StreamInv => StreamTypeOK
    BY DEF StreamInv, StreamTyped
<1> QED
    BY <1>1, StreamInductive, PTL

\* For any symbols, connections and rate limit: the broadcasts of the server only go to
\* registered clients, and a provider that was heard gets exactly the listed symbols that
\* some component follows, whatever was lost or reconnected before.
THEOREM BroadcastsCorrect == StreamSpec => []BroadcastsReachFollowers
<1>1. ASSUME StreamInv PROVE BroadcastsReachFollowers
    <2>1. StreamTyped /\ Mapped /\ Heard
        BY <1>1 DEF StreamInv
    <2>2. \A s \in Symbols : subscribers[s] \subseteq clients
        BY <2>1 DEF Mapped
    <2>3. ASSUME ref \in clients, state[ref] = "open", wire[ref] = <<>>, ref \notin refused
          PROVE  {s \in Symbols : ref \in subscribers[s]} = Active \cap Listed
        <3>1. ref # 0
            BY <2>1, <2>3 DEF StreamTyped, StreamTypeOK, Sockets
        <3>2. Len(wire[ref]) = 0
            BY <2>3
        <3>3. ASSUME NEW s \in Listed PROVE s \in symbols[ref] <=> s \in Active
            BY <2>1, <2>3, <3>1, <3>2 DEF Heard, Served, Settles
        <3>4. Listed \in SUBSET Symbols /\ symbols[ref] \in SUBSET Listed
            BY <2>1, <3>1, StreamBounds DEF StreamTyped, StreamTypeOK, Sockets
        <3> QED
            BY <2>1, <2>3, <3>3, <3>4 DEF Mapped
    <2> QED
        BY <2>2, <2>3 DEF BroadcastsReachFollowers
<1> QED
    BY <1>1, StreamInductive, PTL

-----------------------------------------------------------------------------
(* Periods                                                                  *)

\* getCandleStart gives the start of the period that a time lies in.
LEMMA StartBounds ==
    ASSUME NEW t \in Nat, NEW L \in Nat \ {0}
    PROVE  CandleStart(t, L) \in Nat /\ CandleStart(t, L) <= t /\ t < CandleStart(t, L) + L
<1>1. PICK q \in Nat : q = t \div L /\ L * q <= t /\ t < L * q + L
    BY DivBounds
<1>2. CandleStart(t, L) = q * L
    BY <1>1 DEF CandleStart
<1>3. q * L = L * q /\ q * L \in Nat
    BY Z3
<1>4. QED
    BY <1>1, <1>2, <1>3

\* Later times have later starts.
LEMMA StartMonotonic ==
    ASSUME NEW a \in Nat, NEW b \in Nat, a <= b, NEW L \in Nat \ {0}
    PROVE  CandleStart(a, L) <= CandleStart(b, L)
<1>1. PICK p \in Nat : p = a \div L /\ L * p <= a /\ a < L * p + L
    BY DivBounds
<1>2. PICK q \in Nat : q = b \div L /\ L * q <= b /\ b < L * q + L
    BY DivBounds
<1>3. CandleStart(a, L) = p * L /\ CandleStart(b, L) = q * L
    BY <1>1, <1>2 DEF CandleStart
<1>4. L * p < L * q + L
    BY <1>1, <1>2
<1>5. CASE p <= q
  <2>1. PICK d \in Nat : q = p + d
    <3>1. q - p \in Nat /\ q = p + (q - p)
        BY <1>5
    <3>2. QED
        BY <3>1
  <2>2. q * L = p * L + d * L /\ d * L \in Nat
      BY <2>1
  <2>3. p * L \in Nat
      BY Z3
  <2>4. QED
      BY <1>3, <2>2, <2>3
<1>6. CASE q < p
  <2>1. PICK d \in Nat : p = q + 1 + d
    <3>1. p - q - 1 \in Nat /\ p = q + 1 + (p - q - 1)
        BY <1>6
    <3>2. QED
        BY <3>1
  <2>2. L * p = L * q + L + L * d /\ L * d \in Nat
      BY <2>1
  <2>3. QED
      BY <1>4, <2>2
<1>7. QED
    BY <1>5, <1>6

\* The clock and the two timeframes, in minutes and in pairs of minutes.
LEMMA TimesAreNat == Times \subseteq Nat /\ Period \in Nat \ {0} /\ 2 * Period \in Nat \ {0}
BY CandleBounds DEF Times

\* A time lies in the period of the base timeframe that starts at its start.
LEMMA PeriodType == ASSUME NEW t \in Times PROVE PeriodOf(t) \in Times /\ PeriodOf(t) <= t /\ t < PeriodOf(t) + Period
<1>1. CandleStart(t, Period) \in Nat /\ CandleStart(t, Period) <= t /\ t < CandleStart(t, Period) + Period
    BY TimesAreNat, StartBounds
<1>2. QED
    BY <1>1, CandleBounds DEF PeriodOf, Times

\* A period of twice the length is two periods.
LEMMA TwoPeriods ==
    ASSUME NEW t \in Times
    PROVE  PeriodOf(t) = CandleStart(t, 2 * Period) \/ PeriodOf(t) = CandleStart(t, 2 * Period) + Period
<1>1. PICK q \in Nat : /\ q = t \div (2 * Period) /\ (2 * Period) * q <= t
                       /\ t < (2 * Period) * q + (2 * Period)
    BY TimesAreNat, DivBounds
<1>2. CandleStart(t, 2 * Period) = q * (2 * Period)
    BY <1>1 DEF CandleStart
<1>3. (2 * Period) * q = Period * (2 * q) /\ q * (2 * Period) = (2 * q) * Period
    BY TimesAreNat
<1>4. PICK r \in Nat : r = 2 * q
    OBVIOUS
<1>5. Period * r <= t /\ t < Period * r + Period + Period
    BY <1>1, <1>3, <1>4, TimesAreNat
<1>6. Period * r + Period = Period * (r + 1) /\ r * Period + Period = (r + 1) * Period /\ r + 1 \in Nat
    BY TimesAreNat
<1>7. CASE t < Period * r + Period
  <2>1. t \div Period = r
      BY <1>5, <1>7, TimesAreNat, DivUnique
  <2>2. QED
      BY <1>2, <1>3, <1>4, <2>1 DEF PeriodOf, CandleStart
<1>8. CASE ~(t < Period * r + Period)
  <2>1. Period * r \in Nat
      BY TimesAreNat
  <2>2. Period * (r + 1) <= t /\ t < Period * (r + 1) + Period
      BY <1>5, <1>6, <1>8, <2>1, TimesAreNat
  <2>3. t \div Period = r + 1
      BY <1>6, <2>2, TimesAreNat, DivUnique
  <2>4. PeriodOf(t) = (r + 1) * Period
      BY <2>3 DEF PeriodOf, CandleStart
  <2>5. QED
      BY <1>2, <1>3, <1>4, <1>6, <2>4
<1>9. QED
    BY <1>7, <1>8

\* A time and the start of its period start the same longer period.
LEMMA StartOfPeriod ==
    ASSUME NEW t \in Times
    PROVE  CandleStart(PeriodOf(t), 2 * Period) = CandleStart(t, 2 * Period)
<1>1. PICK q \in Nat : /\ q = t \div (2 * Period) /\ (2 * Period) * q <= t
                       /\ t < (2 * Period) * q + (2 * Period)
    BY TimesAreNat, DivBounds
<1>2. CandleStart(t, 2 * Period) = q * (2 * Period) /\ q * (2 * Period) = (2 * Period) * q
    BY <1>1, TimesAreNat DEF CandleStart
<1>3. PICK p : p = PeriodOf(t)
    OBVIOUS
<1>4. p \in Nat /\ p <= t /\ (p = (2 * Period) * q \/ p = (2 * Period) * q + Period)
    BY <1>2, <1>3, PeriodType, TwoPeriods, TimesAreNat
<1>5. (2 * Period) * q \in Nat
    BY TimesAreNat
<1>6. (2 * Period) * q <= p /\ p < (2 * Period) * q + (2 * Period)
    BY <1>1, <1>4, <1>5, TimesAreNat
<1>7. p \div (2 * Period) = q
    BY <1>4, <1>6, TimesAreNat, DivUnique
<1>8. QED
    BY <1>2, <1>3, <1>7 DEF CandleStart

\* A time is in a longer period exactly if it is in one of its two minutes.
LEMMA LongerPeriod ==
    ASSUME NEW t \in Times, NEW start \in Starts(2 * Period)
    PROVE  /\ start \in Nat
           /\ CandleStart(t, 2 * Period) = start <=> PeriodOf(t) = start \/ PeriodOf(t) = start + Period
<1>1. PICK u \in Times : start = CandleStart(u, 2 * Period)
    BY DEF Starts
<1>2. PICK k \in Nat : k = u \div (2 * Period)
    BY TimesAreNat, DivBounds
<1>3. start = k * (2 * Period) /\ k * (2 * Period) = (2 * Period) * k /\ (2 * Period) * k \in Nat
    BY <1>1, <1>2, TimesAreNat DEF CandleStart
<1>4. ASSUME PeriodOf(t) = start \/ PeriodOf(t) = start + Period
      PROVE  CandleStart(t, 2 * Period) = start
  <2>1. PICK p : p = PeriodOf(t)
      OBVIOUS
  <2>2. p \in Nat /\ p <= t /\ t < p + Period /\ (p = (2 * Period) * k \/ p = (2 * Period) * k + Period)
      BY <1>3, <1>4, <2>1, PeriodType, TimesAreNat
  <2>3. PICK m \in Nat : m = (2 * Period) * k
      BY <1>3
  <2>4. m <= t /\ t < m + 2 * Period
      BY <2>2, <2>3, TimesAreNat
  <2>5. t \div (2 * Period) = k
      BY <2>3, <2>4, TimesAreNat, DivUnique
  <2>6. QED
      BY <1>3, <2>5 DEF CandleStart
<1>5. QED
    BY <1>3, <1>4, TwoPeriods

-----------------------------------------------------------------------------
(* Closing candles                                                          *)

Buffers == [buffer : Seq(Candle), saving : Seq(Seq(Candle))]

\* A buffered candle stays a candle.
LEMMA BufferType ==
    ASSUME NEW acc \in Buffers, NEW c \in Candle
    PROVE  BufferCandle(acc, c) \in Buffers
BY DEF BufferCandle, Buffers

\* The candles are buffered one after the other.
LEMMA BufferedSteps ==
    ASSUME CandleTypeOK, NEW closed \in Seq(Candle)
    PROVE  \E step : /\ step[0] = [buffer |-> buffer, saving |-> saving]
                     /\ \A k \in 1..Len(closed) : step[k] = BufferCandle(step[k - 1], closed[k])
                     /\ Buffered(closed) = step[Len(closed)]
<1> DEFINE n == Len(closed)
           zero == [buffer |-> buffer, saving |-> saving]
           h == [k \in 1..n |-> [v \in Buffers |-> BufferCandle(v, closed[k])]]
           Folds(g) == g = [s \in SUBSET DOMAIN closed |->
                              IF s = {} THEN zero ELSE BufferCandle(g[s \ {Max(s)}], closed[Max(s)])]
           G == CHOOSE g : Folds(g)
<1>1. n \in Nat /\ DOMAIN closed = 1..n /\ \A k \in 1..n : closed[k] \in Candle
    OBVIOUS
<1>2. zero \in Buffers
    BY DEF CandleTypeOK, Buffers
<1>3. h \in [1..n -> [Buffers -> Buffers]]
    BY <1>1, BufferType
<1>4. IsFiniteSet(1..n) /\ \A x \in 1..n : x \in Nat
    BY <1>1, FS_Interval
<1>5. \E g : Folds(g)
  <2> HIDE DEF n, zero
  <2>1. PICK g : Runs(h, zero, 1..n, g)
      BY <1>4, RunsExists
  <2>2. g \in [SUBSET (1..n) -> Buffers]
      BY <1>2, <1>3, <1>4, <2>1, RunsTyped
  <2>3. ASSUME NEW s \in SUBSET (1..n), s # {}
        PROVE  h[Max(s)][g[s \ {Max(s)}]] = BufferCandle(g[s \ {Max(s)}], closed[Max(s)])
    <3>1. IsFiniteSet(s)
        BY <1>4, FS_Subset
    <3>2. \A x \in s : x \in Int
        BY <1>1
    <3>3. Max(s) \in s
        BY <2>3, <3>1, <3>2, MaxExists
    <3>4. g[s \ {Max(s)}] \in Buffers /\ Max(s) \in 1..n
        BY <2>2, <3>3
    <3>5. QED
        BY <3>4
  <2>4. Folds(g)
      BY <1>1, <2>1, <2>3 DEF Runs
  <2>5. QED
      BY <2>4
<1>6. Folds(G)
    BY <1>5
<1>7. Buffered(closed) = G[DOMAIN closed]
    BY DEF Buffered, FoldLeft, MapThenFoldSet
<1> HIDE DEF G
<1> DEFINE step == [k \in 0..n |-> G[1..k]]
<1>8. step[0] = zero
  <2>1. 1..0 = {}
      OBVIOUS
  <2>2. QED
      BY <1>1, <1>6, <2>1
<1>9. ASSUME NEW k \in 1..n PROVE step[k] = BufferCandle(step[k - 1], closed[k])
  <2>1. /\ 1..k \in SUBSET (1..n) /\ 1..k # {}
        /\ Max(1..k) = k /\ (1..k) \ {k} = 1..(k - 1)
      BY <1>1, PrefixFacts
  <2>2. G[1..k] = BufferCandle(G[1..(k - 1)], closed[k])
      BY <1>1, <1>6, <2>1
  <2>3. k \in 0..n /\ k - 1 \in 0..n
      BY <1>1
  <2>4. QED
      BY <2>2, <2>3
<1>10. step[n] = G[DOMAIN closed]
    BY <1>1
<1>11. QED
    BY <1>7, <1>8, <1>9, <1>10

-----------------------------------------------------------------------------
(* Aggregating candles                                                      *)

\* A sequence that is not empty, as its last element and what comes before.
LEMMA FrontAndLast ==
    ASSUME NEW D, NEW q \in Seq(D), q # <<>>
    PROVE  /\ Last(q) \in D /\ Last(q) = q[Len(q)] /\ Front(q) \in Seq(D)
           /\ Len(q) \in Nat \ {0} /\ Len(Front(q)) = Len(q) - 1
           /\ \A i \in 1..(Len(q) - 1) : Front(q)[i] = q[i]
<1>1. Len(q) \in Nat \ {0} /\ \A i \in 1..Len(q) : q[i] \in D
    OBVIOUS
<1>2. PICK n : n = Len(q) - 1
    OBVIOUS
<1>3. n \in Nat /\ Front(q) = [i \in 1..n |-> q[i]]
    BY <1>1, <1>2 DEF Front
<1>4. \A i \in 1..n : q[i] \in D
    BY <1>1, <1>2
<1>5. Front(q) \in Seq(D) /\ Len(Front(q)) = n
    BY <1>3, <1>4, IsASeq
<1>6. Last(q) = q[Len(q)] /\ Len(q) \in 1..Len(q)
    BY <1>1 DEF Last
<1>7. QED
    BY <1>1, <1>2, <1>3, <1>5, <1>6

\* Two candles merge into a candle.
LEMMA MergedType ==
    ASSUME NEW a \in Candle, NEW c \in Candle
    PROVE  Merged(a, c) \in Candle
<1>1. Larger(a.high, c.high) \in Prices /\ Smaller(a.low, c.low) \in Prices
    BY DEF Larger, Smaller, Candle
<1>2. a.tickCount + c.tickCount \in Nat \ {0}
    BY DEF Candle
<1>3. QED
    BY <1>1, <1>2 DEF Merged, Candle

\* The first candle of a longer period is one with another time.
LEMMA StartedType ==
    ASSUME NEW c \in Candle, NEW L \in Nat \ {0}
    PROVE  CandleStart(c.timestamp, L) \in Times /\ [c EXCEPT !.timestamp = CandleStart(c.timestamp, L)] \in Candle
<1>1. c.timestamp \in Nat /\ c.timestamp <= MaxTime + MaxFuture
    BY CandleBounds DEF Candle, Times
<1>2. CandleStart(c.timestamp, L) \in Nat /\ CandleStart(c.timestamp, L) <= c.timestamp
    BY <1>1, StartBounds
<1>3. CandleStart(c.timestamp, L) \in Times
    BY <1>1, <1>2, CandleBounds DEF Times
<1>4. QED
    BY <1>3 DEF Candle

\* A step of aggregateCandles keeps a sequence of candles.
LEMMA AddCandleType ==
    ASSUME NEW acc \in Seq(Candle), NEW c \in Candle, NEW L \in Nat \ {0}
    PROVE  AddCandle(acc, c, CandleStart(c.timestamp, L)) \in Seq(Candle)
<1>1. PICK d : d = [c EXCEPT !.timestamp = CandleStart(c.timestamp, L)]
    OBVIOUS
<1>2. d \in Candle /\ Append(acc, d) \in Seq(Candle)
    BY <1>1, StartedType
<1>3. CASE acc # <<>> /\ Last(acc).timestamp = CandleStart(c.timestamp, L)
  <2>1. Last(acc) \in Candle /\ Front(acc) \in Seq(Candle)
      BY <1>3, FrontAndLast
  <2>2. PICK e : e = Merged(Last(acc), c)
      OBVIOUS
  <2>3. e \in Candle
      BY <2>1, <2>2, MergedType
  <2>4. Append(Front(acc), e) \in Seq(Candle)
      BY <2>1, <2>3
  <2>5. QED
      BY <1>3, <2>2, <2>4 DEF AddCandle
<1>4. CASE ~(acc # <<>> /\ Last(acc).timestamp = CandleStart(c.timestamp, L))
    BY <1>1, <1>2, <1>4 DEF AddCandle
<1>5. QED
    BY <1>3, <1>4

\* The candles are added one after the other.
LEMMA AggregateSteps ==
    ASSUME NEW candles \in Seq(Candle), NEW L \in Nat \ {0}
    PROVE  \E step : /\ step[0] = <<>>
                     /\ \A k \in 1..Len(candles) :
                          step[k] = AddCandle(step[k - 1], candles[k], CandleStart(candles[k].timestamp, L))
                     /\ \A k \in 0..Len(candles) : step[k] \in Seq(Candle)
                     /\ Aggregate(candles, L) = step[Len(candles)]
<1> DEFINE n == Len(candles)
           Add(v, c) == AddCandle(v, c, CandleStart(c.timestamp, L))
           h == [k \in 1..n |-> [v \in Seq(Candle) |-> Add(v, candles[k])]]
           Folds(g) == g = [s \in SUBSET DOMAIN candles |->
                              IF s = {} THEN <<>> ELSE Add(g[s \ {Max(s)}], candles[Max(s)])]
           G == CHOOSE g : Folds(g)
<1>1. n \in Nat /\ DOMAIN candles = 1..n /\ \A k \in 1..n : candles[k] \in Candle
    OBVIOUS
<1>2. <<>> \in Seq(Candle)
    OBVIOUS
<1>3. \A k \in 1..n : \A v \in Seq(Candle) : Add(v, candles[k]) \in Seq(Candle)
    BY <1>1, AddCandleType
<1>4. Aggregate(candles, L) = G[DOMAIN candles]
    BY DEF Aggregate, FoldLeft, MapThenFoldSet
<1> HIDE DEF Add, n
<1>5. h \in [1..n -> [Seq(Candle) -> Seq(Candle)]]
    BY <1>3
<1>6. IsFiniteSet(1..n) /\ \A x \in 1..n : x \in Nat
    BY <1>1, FS_Interval
<1>7. \E g : Folds(g)
  <2>1. PICK g : Runs(h, <<>>, 1..n, g)
      BY <1>6, RunsExists
  <2>2. g \in [SUBSET (1..n) -> Seq(Candle)]
      BY <1>2, <1>5, <1>6, <2>1, RunsTyped
  <2>3. ASSUME NEW s \in SUBSET (1..n), s # {}
        PROVE  h[Max(s)][g[s \ {Max(s)}]] = Add(g[s \ {Max(s)}], candles[Max(s)])
    <3>1. IsFiniteSet(s)
        BY <1>6, FS_Subset
    <3>2. \A x \in s : x \in Int
        BY <1>1
    <3>3. Max(s) \in s
        BY <2>3, <3>1, <3>2, MaxExists
    <3>4. g[s \ {Max(s)}] \in Seq(Candle) /\ Max(s) \in 1..n
        BY <2>2, <3>3
    <3>5. QED
        BY <3>4
  <2>4. Folds(g)
      BY <1>1, <2>1, <2>3 DEF Runs
  <2>5. QED
      BY <2>4
<1>8. Folds(G)
    BY <1>7
<1> HIDE DEF G
<1> DEFINE step == [k \in 0..n |-> G[1..k]]
<1>9. step[0] = <<>>
  <2>1. 1..0 = {}
      OBVIOUS
  <2>2. QED
      BY <1>1, <1>8, <2>1
<1>10. ASSUME NEW k \in 1..n PROVE step[k] = Add(step[k - 1], candles[k])
  <2>1. /\ 1..k \in SUBSET (1..n) /\ 1..k # {}
        /\ Max(1..k) = k /\ (1..k) \ {k} = 1..(k - 1)
      BY <1>1, PrefixFacts
  <2>2. G[1..k] = Add(G[1..(k - 1)], candles[k])
      BY <1>1, <1>8, <2>1
  <2>3. k \in 0..n /\ k - 1 \in 0..n
      BY <1>1
  <2>4. QED
      BY <2>2, <2>3
<1>11. step[n] = G[DOMAIN candles]
    BY <1>1
<1> HIDE DEF step
<1>12. \A k \in 0..n : step[k] \in Seq(Candle)
  <2> DEFINE P == {k \in 0..n : step[k] \in Seq(Candle)}
  <2>1. 0 \in P
    <3>1. 0 \in 0..n /\ step[0] \in Seq(Candle)
        BY <1>1, <1>2, <1>9
    <3>2. QED
        BY <3>1
  <2>2. ASSUME NEW k \in 1..n, k - 1 \in P PROVE k \in P
    <3>1. Add(step[k - 1], candles[k]) \in Seq(Candle)
        BY <1>3, <2>2
    <3>2. k \in 0..n
        BY <1>1
    <3>3. QED
        BY <1>10, <3>1, <3>2
  <2> HIDE DEF P
  <2>3. \A k \in 0..n : k \in P
      BY <1>1, <2>1, <2>2, NumbersInduct
  <2>4. QED
      BY <2>3 DEF P
<1>13. QED
    BY <1>4, <1>9, <1>10, <1>11, <1>12 DEF Add, n

\* A sequence of the elements of a set holds each of them once.
LEMMA OrderedSet ==
    ASSUME NEW S, IsFiniteSet(S), NEW order \in SetToSeqs(S)
    PROVE  /\ order \in Seq(S) /\ DOMAIN order = 1..Len(order) /\ Len(order) \in Nat
           /\ {order[i] : i \in DOMAIN order} = S
           /\ \A i, j \in DOMAIN order : order[i] = order[j] => i = j
<1>1. PICK n \in Nat : n = Cardinality(S)
    BY FS_CardinalityType
<1>2. order \in [1..n -> S] /\ \A i, j \in 1..n : i # j => order[i] # order[j]
    BY <1>1 DEF SetToSeqs
<1>3. order \in Seq(S) /\ Len(order) = n /\ DOMAIN order = 1..n
    BY <1>2
<1>4. order \in Injection(1..n, S)
    BY <1>2 DEF Injection, IsInjective
<1>5. Cardinality(1..n) = n
    BY FS_Interval
<1>6. order \in Surjection(1..n, S)
    BY <1>1, <1>4, <1>5, FS_Injection
<1>7. \A x \in S : \E i \in 1..n : order[i] = x
    BY <1>6 DEF Surjection
<1>8. {order[i] : i \in DOMAIN order} = S
    BY <1>2, <1>3, <1>7
<1>9. QED
    BY <1>2, <1>3, <1>8

\* What the candles weigh that are no longer being built.
Shelf(w) == [q \in Seq(Candle) |-> Weight(w, q)]

Outside(w) ==
    Weight(w, saved) + Weight(w, dropped) + Weight(w, buffer) + Weight(Shelf(w), saving)

\* What sequences of candles weigh are numbers.
LEMMA ShelfType ==
    ASSUME NEW w \in [Candle -> Nat]
    PROVE  \A q \in Seq(Candle) : Shelf(w)[q] \in Nat /\ Shelf(w)[q] = Weight(w, q)
<1>1. \A x \in Candle : w[x] \in Nat
    OBVIOUS
<1>2. \A q \in Seq(Candle) : Weight(w, q) \in Nat
    BY <1>1, WeightNat
<1>3. QED
    BY <1>2 DEF Shelf

\* So is all that is outside the builders.
LEMMA OutsideNat ==
    ASSUME CandleTypeOK, NEW w \in [Candle -> Nat]
    PROVE  /\ Weight(w, saved) \in Nat /\ Weight(w, dropped) \in Nat /\ Weight(w, buffer) \in Nat
           /\ Weight(Shelf(w), saving) \in Nat /\ Outside(w) \in Nat
           /\ \A s \in Symbols : Weight(w, builders[s]) \in Nat
<1>1. \A x \in Candle : w[x] \in Nat
    OBVIOUS
<1>2. /\ saved \in Seq(Candle) /\ dropped \in Seq(Candle) /\ buffer \in Seq(Candle)
      /\ saving \in Seq(Seq(Candle)) /\ \A s \in Symbols : builders[s] \in Seq(Candle)
    BY DEF CandleTypeOK
<1>3. Weight(w, saved) \in Nat /\ Weight(w, dropped) \in Nat /\ Weight(w, buffer) \in Nat
    BY <1>1, <1>2, WeightNat
<1>4. \A s \in Symbols : Weight(w, builders[s]) \in Nat
    BY <1>1, <1>2, WeightNat
<1>5. \A q \in Seq(Candle) : Shelf(w)[q] \in Nat
    BY ShelfType
<1>6. Weight(Shelf(w), saving) \in Nat
    BY <1>2, <1>5, WeightNat
<1>7. QED
    BY <1>3, <1>4, <1>6 DEF Outside

\* What a pair of a buffer and batches weighs.
Load(w, acc) == Weight(w, acc.buffer) + Weight(Shelf(w), acc.saving)

\* A candle that is buffered adds its weight, whether it fills the buffer or not.
LEMMA LoadGrows ==
    ASSUME NEW w \in [Candle -> Nat], NEW acc \in Buffers, NEW c \in Candle
    PROVE  Load(w, acc) \in Nat /\ Load(w, BufferCandle(acc, c)) = Load(w, acc) + w[c]
<1>1. acc.buffer \in Seq(Candle) /\ acc.saving \in Seq(Seq(Candle)) /\ \A x \in Candle : w[x] \in Nat
    BY DEF Buffers
<1>2. \A q \in Seq(Candle) : Shelf(w)[q] \in Nat /\ Shelf(w)[q] = Weight(w, q)
    BY ShelfType
<1>3. PICK b : b = Append(acc.buffer, c)
    OBVIOUS
<1>4. b \in Seq(Candle)
    BY <1>1, <1>3
<1>5. Weight(w, b) = Weight(w, acc.buffer) + w[c]
    BY <1>1, <1>3, WeightAppend
<1>6. Weight(Shelf(w), Append(acc.saving, b)) = Weight(Shelf(w), acc.saving) + Shelf(w)[b]
  <2>1. PICK g : g = Shelf(w)
      OBVIOUS
  <2>2. PICK q : q = acc.saving
      OBVIOUS
  <2>3. PICK D : D = Seq(Candle)
      OBVIOUS
  <2>4. q \in Seq(D) /\ b \in D /\ \A y \in D : g[y] \in Nat
      BY <1>1, <1>2, <1>4, <2>1, <2>2, <2>3
  <2>5. Weight(g, Append(q, b)) = Weight(g, q) + g[b]
      BY <2>4, WeightAppend
  <2>6. QED
      BY <2>1, <2>2, <2>5
<1>7. Weight(w, acc.buffer) \in Nat
    BY <1>1, WeightNat
<1>8. Weight(Shelf(w), acc.saving) \in Nat
    BY <1>1, <1>2, WeightNat
<1>9. CASE Len(acc.buffer) + 1 >= BufferSize
  <2>1. BufferCandle(acc, c) = [buffer |-> <<>>, saving |-> Append(acc.saving, b)]
      BY <1>3, <1>9 DEF BufferCandle
  <2>2. Weight(w, <<>>) = 0
      BY WeightEmpty
  <2>3. Load(w, BufferCandle(acc, c)) = 0 + Weight(Shelf(w), Append(acc.saving, b))
      BY <2>1, <2>2 DEF Load
  <2>4. Shelf(w)[b] = Weight(w, acc.buffer) + w[c]
      BY <1>2, <1>4, <1>5
  <2>5. QED
      BY <1>1, <1>6, <1>7, <1>8, <2>3, <2>4 DEF Load
<1>10. CASE ~(Len(acc.buffer) + 1 >= BufferSize)
  <2>1. BufferCandle(acc, c).buffer = b /\ BufferCandle(acc, c).saving = acc.saving
      BY <1>3, <1>10 DEF BufferCandle, Buffers
  <2>2. QED
      BY <1>1, <1>5, <1>7, <1>8, <2>1 DEF Load
<1>11. QED
    BY <1>9, <1>10

\* Closed candles are buffered or in a batch.
LEMMA CloseWeighs ==
    ASSUME CandleTypeOK, NEW closed \in Seq(Candle), Close(closed), saved' = saved, dropped' = dropped
    PROVE  /\ buffer' \in Seq(Candle) /\ saving' \in Seq(Seq(Candle))
           /\ \A w \in [Candle -> Nat] : Outside(w)' = Outside(w) + Weight(w, closed)
<1> DEFINE n == Len(closed)
<1>1. n \in Nat /\ \A k \in 1..n : closed[k] \in Candle
    OBVIOUS
<1>2. PICK step : /\ step[0] = [buffer |-> buffer, saving |-> saving]
                  /\ \A k \in 1..n : step[k] = BufferCandle(step[k - 1], closed[k])
                  /\ Buffered(closed) = step[n]
    BY BufferedSteps
<1> DEFINE First(k) == SubSeq(closed, 1, k)
<1>3. First(0) = <<>> /\ First(n) = closed
    OBVIOUS
<1>4. ASSUME NEW k \in 1..n
      PROVE  First(k - 1) \in Seq(Candle) /\ First(k) = Append(First(k - 1), closed[k])
  <2>1. First(k - 1) \in Seq(Candle)
      BY <1>1
  <2>2. First(k) = Append(First(k - 1), closed[k])
      BY <1>1
  <2>3. QED
      BY <2>1, <2>2
<1> HIDE DEF First
<1>5. step[0] \in Buffers
    BY <1>2 DEF CandleTypeOK, Buffers
<1>6. ASSUME NEW w \in [Candle -> Nat]
      PROVE  step[n] \in Buffers /\ Load(w, step[n]) = Load(w, step[0]) + Weight(w, closed)
  <2> DEFINE P == {k \in 0..n : /\ step[k] \in Buffers
                                /\ Load(w, step[k]) = Load(w, step[0]) + Weight(w, First(k))}
  <2>1. \A x \in Candle : w[x] \in Nat
      OBVIOUS
  <2>2. Load(w, step[0]) \in Nat
    <3>1. step[0].buffer \in Seq(Candle) /\ step[0].saving \in Seq(Seq(Candle))
        BY <1>5 DEF Buffers
    <3>2. Weight(w, step[0].buffer) \in Nat
        BY <2>1, <3>1, WeightNat
    <3>3. Weight(Shelf(w), step[0].saving) \in Nat
        BY <3>1, ShelfType, WeightNat
    <3>4. QED
        BY <3>2, <3>3 DEF Load
  <2>3. 0 \in P
    <3>1. Weight(w, First(0)) = 0
        BY <1>3, WeightEmpty
    <3>2. 0 \in 0..n
        BY <1>1
    <3>3. QED
        BY <1>5, <2>2, <3>1, <3>2
  <2>4. ASSUME NEW k \in 1..n, k - 1 \in P PROVE k \in P
    <3>1. step[k - 1] \in Buffers /\ Load(w, step[k - 1]) = Load(w, step[0]) + Weight(w, First(k - 1))
        BY <2>4
    <3>2. step[k] = BufferCandle(step[k - 1], closed[k]) /\ closed[k] \in Candle
        BY <1>1, <1>2
    <3>3. step[k] \in Buffers
        BY <3>1, <3>2, BufferType
    <3>4. Load(w, step[k]) = Load(w, step[k - 1]) + w[closed[k]]
        BY <3>1, <3>2, LoadGrows
    <3>5. PICK q : q = First(k - 1)
        OBVIOUS
    <3>6. q \in Seq(Candle) /\ First(k) = Append(q, closed[k])
        BY <1>4, <3>5
    <3>7. Weight(w, Append(q, closed[k])) = Weight(w, q) + w[closed[k]]
        BY <2>1, <3>2, <3>6, WeightAppend
    <3>8. Weight(w, q) \in Nat /\ w[closed[k]] \in Nat
        BY <2>1, <3>2, <3>6, WeightNat
    <3>9. PICK x, y, z : x = Weight(w, q) /\ y = w[closed[k]] /\ z = Load(w, step[0])
        OBVIOUS
    <3>10. Load(w, step[k]) = z + x + y /\ Weight(w, First(k)) = x + y /\ x \in Nat /\ y \in Nat /\ z \in Nat
        BY <2>2, <3>1, <3>4, <3>5, <3>6, <3>7, <3>8, <3>9
    <3>11. Load(w, step[k]) = Load(w, step[0]) + Weight(w, First(k))
        BY <3>9, <3>10
    <3>12. k \in 0..n
        BY <1>1
    <3>13. QED
        BY <3>3, <3>11, <3>12
  <2> HIDE DEF P
  <2>5. n \in P
    <3>1. \A k \in 0..n : k \in P
        BY <1>1, <2>3, <2>4, NumbersInduct
    <3>2. QED
        BY <1>1, <3>1
  <2>6. QED
      BY <1>3, <2>5 DEF P
<1>7. buffer' = step[n].buffer /\ saving' = step[n].saving
    BY <1>2 DEF Close
<1>8. step[n] \in Buffers
  <2>1. [c \in Candle |-> 0] \in [Candle -> Nat]
      OBVIOUS
  <2>2. QED
      BY <1>6, <2>1
<1>9. buffer' \in Seq(Candle) /\ saving' \in Seq(Seq(Candle))
    BY <1>7, <1>8 DEF Buffers
<1>10. ASSUME NEW w \in [Candle -> Nat] PROVE Outside(w)' = Outside(w) + Weight(w, closed)
  <2>1. Load(w, step[0]) = Weight(w, buffer) + Weight(Shelf(w), saving)
      BY <1>2 DEF Load
  <2>2. Outside(w)' = Weight(w, saved) + Weight(w, dropped) + Weight(w, buffer') + Weight(Shelf(w), saving')
      BY DEF Outside
  <2>3. Load(w, step[n]) = Weight(w, buffer') + Weight(Shelf(w), saving')
      BY <1>7 DEF Load
  <2>4. \A x \in Candle : w[x] \in Nat
      OBVIOUS
  <2>5. Weight(w, buffer') \in Nat /\ Weight(w, closed) \in Nat
      BY <1>9, <2>4, WeightNat
  <2>6. Weight(Shelf(w), saving') \in Nat
      BY <1>9, ShelfType, WeightNat
  <2>7. /\ Weight(w, saved) \in Nat /\ Weight(w, dropped) \in Nat /\ Weight(w, buffer) \in Nat
        /\ Weight(Shelf(w), saving) \in Nat
      BY OutsideNat
  <2>8. Load(w, step[n]) = Load(w, step[0]) + Weight(w, closed)
      BY <1>6
  <2>9. Outside(w) = Weight(w, saved) + Weight(w, dropped) + Weight(w, buffer) + Weight(Shelf(w), saving)
      BY DEF Outside
  <2>10. PICK a, b, c, d : /\ a = Weight(w, saved) /\ b = Weight(w, dropped)
                           /\ c = Weight(w, buffer) /\ d = Weight(Shelf(w), saving)
      OBVIOUS
  <2>11. PICK e, g, x : e = Weight(w, buffer') /\ g = Weight(Shelf(w), saving') /\ x = Weight(w, closed)
      OBVIOUS
  <2>12. e + g = c + d + x
      BY <2>1, <2>3, <2>8, <2>10, <2>11
  <2>13. /\ a \in Nat /\ b \in Nat /\ c \in Nat /\ d \in Nat /\ e \in Nat /\ g \in Nat /\ x \in Nat
      BY <2>5, <2>6, <2>7, <2>10, <2>11
  <2>14. a + b + e + g = a + b + c + d + x
      BY <2>12, <2>13
  <2>15. QED
      BY <2>2, <2>9, <2>10, <2>11, <2>14
<1>11. QED
    BY <1>9, <1>10

\* A buffer that becomes a batch, and a batch that is stored or lost, weigh the same.
LEMMA StartBatchWeighs ==
    ASSUME CandleTypeOK, StartBatch, saved' = saved, dropped' = dropped
    PROVE  /\ buffer' \in Seq(Candle) /\ saving' \in Seq(Seq(Candle))
           /\ \A w \in [Candle -> Nat] : Outside(w)' = Outside(w)
<1>1. buffer \in Seq(Candle) /\ saving \in Seq(Seq(Candle))
    BY DEF CandleTypeOK
<1>2. buffer' = <<>> /\ saving' = IF buffer = <<>> THEN saving ELSE Append(saving, buffer)
    BY DEF StartBatch
<1>3. buffer' \in Seq(Candle) /\ saving' \in Seq(Seq(Candle))
    BY <1>1, <1>2
<1>4. ASSUME NEW w \in [Candle -> Nat] PROVE Outside(w)' = Outside(w)
  <2>1. Outside(w)' = Weight(w, saved) + Weight(w, dropped) + Weight(w, buffer') + Weight(Shelf(w), saving')
      BY DEF Outside
  <2>2. Weight(w, buffer') = 0
      BY <1>2, WeightEmpty
  <2>3. CASE buffer = <<>>
    <3>1. buffer' = buffer /\ saving' = saving
        BY <1>2, <2>3
    <3>2. QED
        BY <2>1, <3>1 DEF Outside
  <2>4. CASE buffer # <<>>
    <3>1. PICK g, D : g = Shelf(w) /\ D = Seq(Candle)
        OBVIOUS
    <3>2. \A q \in D : g[q] \in Nat /\ g[q] = Weight(w, q)
        BY <3>1, ShelfType
    <3>3. saving \in Seq(D) /\ buffer \in D
        BY <1>1, <3>1
    <3>4. Weight(g, Append(saving, buffer)) = Weight(g, saving) + g[buffer]
        BY <3>2, <3>3, WeightAppend
    <3>5. Weight(Shelf(w), saving') = Weight(Shelf(w), saving) + Weight(w, buffer)
        BY <1>2, <2>4, <3>1, <3>2, <3>3, <3>4
    <3>6. /\ Weight(w, saved) \in Nat /\ Weight(w, dropped) \in Nat /\ Weight(w, buffer) \in Nat
          /\ Weight(Shelf(w), saving) \in Nat
        BY OutsideNat
    <3>7. Outside(w) = Weight(w, saved) + Weight(w, dropped) + Weight(w, buffer) + Weight(Shelf(w), saving)
        BY DEF Outside
    <3>8. QED
        BY <2>1, <2>2, <3>5, <3>6, <3>7
  <2>5. QED
      BY <2>3, <2>4
<1>5. QED
    BY <1>3, <1>4

\* The end of a batch, stored or dropped, moves candles and loses none.
LEMMA EndBatchWeighs ==
    ASSUME CandleTypeOK, NEW i \in DOMAIN saving, saving' = RemoveAt(saving, i), buffer' = buffer,
           \/ saved' = saved \o saving[i] /\ dropped' = dropped
           \/ dropped' = dropped \o saving[i] /\ saved' = saved
    PROVE  /\ saved' \in Seq(Candle) /\ dropped' \in Seq(Candle) /\ saving' \in Seq(Seq(Candle))
           /\ \A w \in [Candle -> Nat] : Outside(w)' = Outside(w)
<1>1. /\ buffer \in Seq(Candle) /\ saving \in Seq(Seq(Candle)) /\ saved \in Seq(Candle)
      /\ dropped \in Seq(Candle)
    BY DEF CandleTypeOK
<1>2. PICK b : b = saving[i]
    OBVIOUS
<1>3. b \in Seq(Candle)
    BY <1>1, <1>2
<1>4. saved' \in Seq(Candle) /\ dropped' \in Seq(Candle)
  <2>1. saved \o b \in Seq(Candle) /\ dropped \o b \in Seq(Candle)
      BY <1>1, <1>3
  <2>2. QED
      BY <1>1, <1>2, <2>1
<1>5. saving' \in Seq(Seq(Candle))
  <2>1. \A y \in Seq(Candle) : [x \in Seq(Candle) |-> 0][y] \in Nat
      OBVIOUS
  <2>2. RemoveAt(saving, i) \in Seq(Seq(Candle))
      BY <1>1, <2>1, WeightRemoved
  <2>3. QED
      BY <2>2
<1>6. ASSUME NEW w \in [Candle -> Nat] PROVE Outside(w)' = Outside(w)
  <2>1. Outside(w)' = Weight(w, saved') + Weight(w, dropped') + Weight(w, buffer) + Weight(Shelf(w), saving')
      BY DEF Outside
  <2>2. Outside(w) = Weight(w, saved) + Weight(w, dropped) + Weight(w, buffer) + Weight(Shelf(w), saving)
      BY DEF Outside
  <2>3. PICK g, D : g = Shelf(w) /\ D = Seq(Candle)
      OBVIOUS
  <2>4. \A q \in D : g[q] \in Nat /\ g[q] = Weight(w, q)
      BY <2>3, ShelfType
  <2>5. saving \in Seq(D) /\ \A y \in D : g[y] \in Nat
      BY <1>1, <2>3, <2>4
  <2>6. Weight(g, saving) = Weight(g, RemoveAt(saving, i)) + g[saving[i]]
      BY <2>5, WeightRemoved
  <2>7. g[saving[i]] = Weight(w, b)
      BY <1>2, <1>3, <2>3, <2>4
  <2>8. RemoveAt(saving, i) \in Seq(D)
      BY <2>5, WeightRemoved
  <2>9. Weight(g, RemoveAt(saving, i)) \in Nat
      BY <2>5, <2>8, WeightNat
  <2>10. \A x \in Candle : w[x] \in Nat
      OBVIOUS
  <2>11. /\ Weight(w, saved \o b) = Weight(w, saved) + Weight(w, b)
         /\ Weight(w, dropped \o b) = Weight(w, dropped) + Weight(w, b)
      BY <1>1, <1>3, <2>10, WeightConcat
  <2>12. /\ Weight(w, saved) \in Nat /\ Weight(w, dropped) \in Nat /\ Weight(w, buffer) \in Nat
         /\ Weight(w, b) \in Nat
      BY <1>1, <1>3, <2>10, WeightNat
  <2>13. PICK a, c, d, e, x : /\ a = Weight(w, saved) /\ c = Weight(w, dropped) /\ d = Weight(w, buffer)
                              /\ e = Weight(g, saving') /\ x = Weight(w, b)
      OBVIOUS
  <2>14. a \in Nat /\ c \in Nat /\ d \in Nat /\ e \in Nat /\ x \in Nat
      BY <2>9, <2>12, <2>13
  <2>15. Weight(Shelf(w), saving) = e + x /\ Weight(Shelf(w), saving') = e
      BY <2>3, <2>6, <2>7, <2>13
  <2>16. Outside(w) = a + c + d + (e + x)
      BY <2>2, <2>13, <2>15
  <2>17. CASE saved' = saved \o saving[i] /\ dropped' = dropped
    <3>1. Outside(w)' = (a + x) + c + d + e
        BY <1>2, <2>1, <2>11, <2>13, <2>15, <2>17
    <3>2. QED
        BY <2>14, <2>16, <3>1
  <2>18. CASE dropped' = dropped \o saving[i] /\ saved' = saved
    <3>1. Outside(w)' = a + (c + x) + d + e
        BY <1>2, <2>1, <2>11, <2>13, <2>15, <2>18
    <3>2. QED
        BY <2>14, <2>16, <3>1
  <2>19. QED
      BY <2>17, <2>18
<1>7. QED
    BY <1>4, <1>5, <1>6

\* The candles of several builders, closed in any order.
LEMMA CloseAllWeighs ==
    ASSUME CandleTypeOK, NEW S, S \subseteq Building, CloseAll(S), saved' = saved, dropped' = dropped
    PROVE  /\ buffer' \in Seq(Candle) /\ saving' \in Seq(Seq(Candle))
           /\ \A w \in [Candle -> Nat], s \in Symbols :
                (\A x \in S \ {s} : w[builders[x][1]] = 0)
                => Outside(w)' = Outside(w) + IF s \in S THEN w[builders[s][1]] ELSE 0
<1>1. PICK order \in SetToSeqs(S) : Close([i \in DOMAIN order |-> builders[order[i]][1]])
    BY DEF CloseAll
<1>2. IsFiniteSet(S)
  <2>1. S \in SUBSET Symbols
      BY DEF Building
  <2>2. QED
      BY <2>1, CandleBounds, FS_Subset
<1>3. /\ order \in Seq(S) /\ DOMAIN order = 1..Len(order) /\ Len(order) \in Nat
      /\ {order[i] : i \in DOMAIN order} = S
      /\ \A i, j \in DOMAIN order : order[i] = order[j] => i = j
    BY <1>2, OrderedSet
<1>4. PICK n \in Nat : n = Len(order)
    BY <1>3
<1>5. PICK closed : closed = [i \in DOMAIN order |-> builders[order[i]][1]]
    OBVIOUS
<1>6. \A x \in S : builders[x] \in Seq(Candle) /\ builders[x] # <<>>
    BY DEF Building, CandleTypeOK
<1>7. \A x \in S : builders[x][1] \in Candle
    BY <1>6
<1>8. \A i \in 1..n : order[i] \in S
    BY <1>3, <1>4
<1>9. closed = [i \in 1..n |-> builders[order[i]][1]] /\ \A i \in 1..n : builders[order[i]][1] \in Candle
    BY <1>3, <1>4, <1>5, <1>7, <1>8
<1>10. closed \in Seq(Candle) /\ DOMAIN closed = 1..n
    BY <1>9, IsASeq
<1>11. /\ buffer' \in Seq(Candle) /\ saving' \in Seq(Seq(Candle))
       /\ \A w \in [Candle -> Nat] : Outside(w)' = Outside(w) + Weight(w, closed)
    BY <1>1, <1>5, <1>10, CloseWeighs
<1>12. ASSUME NEW w \in [Candle -> Nat], NEW s \in Symbols, \A x \in S \ {s} : w[builders[x][1]] = 0
       PROVE  Weight(w, closed) = IF s \in S THEN w[builders[s][1]] ELSE 0
  <2> DEFINE v == [x \in S |-> w[builders[x][1]]]
             f == [i \in DOMAIN closed |-> w[closed[i]]]
  <2>1. \A x \in S : v[x] \in Nat
      BY <1>7
  <2>2. IsFiniteSet(1..n)
      BY FS_Interval
  <2>3. \A i \in 1..n : f[i] = v[order[i]] /\ f[i] \in Nat
      BY <1>8, <1>9, <1>10, <2>1
  <2>4. \A x \in S \ {s} : v[x] = 0
      BY <1>12
  <2>5. s \in S => v[s] = w[builders[s][1]]
      OBVIOUS
  <2>6. Weight(w, closed) = SumFunctionOnSet(f, 1..n)
      BY <1>10 DEF Weight
  <2> HIDE DEF v, f
  <2>7. \A i \in 1..n : f[i] \in Int /\ f[i] = v[order[i]]
      BY <2>3
  <2>8. \A i, j \in 1..n : order[i] = order[j] => i = j
      BY <1>3, <1>4
  <2>9. SumFunctionOnSet(f, 1..n) = SumFunctionOnSet(v, {order[i] : i \in 1..n})
    <3>1. PICK N : N = 1..n
        OBVIOUS
    <3>2. /\ IsFiniteSet(N) /\ \A i \in N : f[i] \in Int /\ f[i] = v[order[i]]
          /\ \A i, j \in N : order[i] = order[j] => i = j
        BY <2>2, <2>7, <2>8, <3>1
    <3>3. SumFunctionOnSet(f, N) = SumFunctionOnSet(v, {order[i] : i \in N})
        BY <3>2, SumRenamed
    <3>4. QED
        BY <3>1, <3>3
  <2>10. {order[i] : i \in 1..n} = S
      BY <1>3, <1>4
  <2>11. Weight(w, closed) = SumFunctionOnSet(v, S)
      BY <2>6, <2>9, <2>10
  <2>12. CASE s \in S
    <3>1. PICK R : R = S \ {s}
        OBVIOUS
    <3>2. IsFiniteSet(R) /\ \A x \in R : v[x] = 0
        BY <1>2, <2>4, <3>1, FS_RemoveElement
    <3>3. SumFunctionOnSet(v, R) = 0
        BY <3>2, SumZero
    <3>4. \A x \in S : v[x] \in Int
        BY <2>1
    <3>5. SumFunctionOnSet(v, S) = v[s] + SumFunctionOnSet(v, S \ {s})
        BY <1>2, <2>12, <3>4, SumTakesOut
    <3>6. v[s] \in Nat
        BY <2>1, <2>12
    <3>7. QED
        BY <2>5, <2>11, <2>12, <3>1, <3>3, <3>5, <3>6
  <2>13. CASE s \notin S
    <3>1. \A x \in S : v[x] = 0
        BY <2>4, <2>13
    <3>2. SumFunctionOnSet(v, S) = 0
        BY <1>2, <3>1, SumZero
    <3>3. QED
        BY <2>11, <2>13, <3>2
  <2>14. QED
      BY <2>12, <2>13
<1>13. QED
    BY <1>11, <1>12

-----------------------------------------------------------------------------
(* The candle of a set of ticks                                             *)

\* CandleOf, for any sequence of ticks.
PricesOf(q, ticks) == {q[i].last : i \in ticks}

Made(q, s, start, ticks) ==
    [symbol |-> s, timestamp |-> start,
     open |-> q[Min(ticks)].last, close |-> q[Max(ticks)].last,
     high |-> Max(PricesOf(q, ticks)), low |-> Min(PricesOf(q, ticks)), tickCount |-> Cardinality(ticks)]

\* The candle of a period is that of the ticks so far.
LEMMA CandleOfIsMade ==
    ASSUME NEW s, NEW start, NEW ticks
    PROVE  /\ CandleOf(s, start, ticks) = Made(accepted, s, start, ticks)
           /\ CandleOf(s, start, ticks)' = Made(accepted', s, start, ticks)
BY DEF CandleOf, Made, PricesOf

\* A set of ticks has a finite set of prices.
LEMMA PricesFacts ==
    ASSUME NEW q \in Seq(Tick), NEW ticks \in SUBSET DOMAIN q, ticks # {}
    PROVE  /\ IsFiniteSet(ticks) /\ \A i \in ticks : i \in Int /\ i \in DOMAIN q
           /\ IsFiniteSet(PricesOf(q, ticks)) /\ PricesOf(q, ticks) # {}
           /\ \A x \in PricesOf(q, ticks) : x \in Int /\ x \in Prices
<1>1. IsFiniteSet(DOMAIN q) /\ \A i \in DOMAIN q : i \in Int /\ q[i] \in Tick
    BY FiniteDomain
<1>2. IsFiniteSet(ticks)
    BY <1>1, FS_Subset
<1>3. \A i \in ticks : q[i].last \in Prices /\ q[i].last \in Int
    BY <1>1, CandleBounds DEF Tick
<1>4. [i \in ticks |-> q[i].last] \in Surjection(ticks, PricesOf(q, ticks))
    BY DEF Surjection, PricesOf
<1>5. IsFiniteSet(PricesOf(q, ticks))
    BY <1>2, <1>4, FS_Surjection
<1>6. QED
    BY <1>1, <1>2, <1>3, <1>5 DEF PricesOf

\* Ticks make a candle.
LEMMA MadeType ==
    ASSUME NEW q \in Seq(Tick), NEW ticks \in SUBSET DOMAIN q, ticks # {}, NEW s \in Symbols, NEW start \in Times
    PROVE  Made(q, s, start, ticks) \in Candle
<1>1. PICK P : P = PricesOf(q, ticks)
    OBVIOUS
<1>2. /\ IsFiniteSet(ticks) /\ \A i \in ticks : i \in Int
      /\ \A i \in ticks : i \in DOMAIN q
      /\ IsFiniteSet(P) /\ P # {} /\ \A x \in P : x \in Int
      /\ \A x \in P : x \in Prices
    BY <1>1, PricesFacts
<1>3. Max(P) \in P /\ Min(P) \in P
    BY <1>2, MaxExists, MinExists
<1>4. Max(ticks) \in ticks /\ Min(ticks) \in ticks
    BY <1>2, MaxExists, MinExists
<1>5. q[Max(ticks)] \in Tick /\ q[Min(ticks)] \in Tick
    BY <1>2, <1>4
<1>6. Cardinality(ticks) \in Nat \ {0}
  <2>1. Cardinality(ticks) \in Nat
      BY <1>2, FS_CardinalityType
  <2>2. Cardinality(ticks) # 0
      BY <1>2, FS_EmptySet
  <2>3. QED
      BY <2>1, <2>2
<1>7. Max(P) \in Prices /\ Min(P) \in Prices /\ q[Max(ticks)].last \in Prices /\ q[Min(ticks)].last \in Prices
    BY <1>2, <1>3, <1>5 DEF Tick
<1>8. QED
    BY <1>1, <1>6, <1>7 DEF Made, Candle

\* What updating four fields of a candle gives.
LEMMA FourFields ==
    ASSUME NEW s, NEW x, NEW o, NEW c, NEW h, NEW l, NEW n, NEW c2, NEW h2, NEW l2, NEW n2,
           NEW r, r = [symbol |-> s, timestamp |-> x, open |-> o, close |-> c,
                       high |-> h, low |-> l, tickCount |-> n]
    PROVE  [r EXCEPT !.high = h2, !.low = l2, !.close = c2, !.tickCount = n2]
             = [symbol |-> s, timestamp |-> x, open |-> o, close |-> c2,
                high |-> h2, low |-> l2, tickCount |-> n2]
<1>1. PICK a : a = [r EXCEPT !.high = h2]
    OBVIOUS
<1>2. PICK b : b = [a EXCEPT !.low = l2]
    OBVIOUS
<1>3. PICK d : d = [b EXCEPT !.close = c2]
    OBVIOUS
<1>4. PICK e : e = [d EXCEPT !.tickCount = n2]
    OBVIOUS
<1>5. e = [r EXCEPT !.high = h2, !.low = l2, !.close = c2, !.tickCount = n2]
    BY <1>1, <1>2, <1>3, <1>4
<1>6. a = [symbol |-> s, timestamp |-> x, open |-> o, close |-> c, high |-> h2, low |-> l, tickCount |-> n]
    BY <1>1
<1>7. b = [symbol |-> s, timestamp |-> x, open |-> o, close |-> c, high |-> h2, low |-> l2, tickCount |-> n]
    BY <1>2, <1>6
<1>8. d = [symbol |-> s, timestamp |-> x, open |-> o, close |-> c2, high |-> h2, low |-> l2, tickCount |-> n]
    BY <1>3, <1>7
<1>9. e = [symbol |-> s, timestamp |-> x, open |-> o, close |-> c2, high |-> h2, low |-> l2, tickCount |-> n2]
    BY <1>4, <1>8
<1>10. QED
    BY <1>5, <1>9

\* Merging two candles, field by field.
LEMMA MergedIs ==
    ASSUME NEW s, NEW x, NEW o, NEW c, NEW h, NEW l, NEW n, NEW b,
           NEW r, r = [symbol |-> s, timestamp |-> x, open |-> o, close |-> c,
                       high |-> h, low |-> l, tickCount |-> n]
    PROVE  Merged(r, b)
             = [symbol |-> s, timestamp |-> x, open |-> o, close |-> b.close,
                high |-> Larger(h, b.high), low |-> Smaller(l, b.low), tickCount |-> n + b.tickCount]
<1>1. Merged(r, b) = [r EXCEPT !.high = Larger(h, b.high), !.low = Smaller(l, b.low),
                               !.close = b.close, !.tickCount = n + b.tickCount]
    BY DEF Merged
<1>2. QED
    BY <1>1, FourFields

\* Adding a tick, field by field.
LEMMA UpdatedIs ==
    ASSUME NEW s, NEW x, NEW o, NEW c, NEW h, NEW l, NEW n, NEW t,
           NEW r, r = [symbol |-> s, timestamp |-> x, open |-> o, close |-> c,
                       high |-> h, low |-> l, tickCount |-> n]
    PROVE  Updated(r, t)
             = [symbol |-> s, timestamp |-> x, open |-> o, close |-> t.last,
                high |-> Larger(h, t.last), low |-> Smaller(l, t.last), tickCount |-> n + 1]
<1>1. Updated(r, t) = [r EXCEPT !.high = Larger(h, t.last), !.low = Smaller(l, t.last),
                                !.close = t.last, !.tickCount = n + 1]
    BY DEF Updated
<1>2. QED
    BY <1>1, FourFields

\* The ticks of one set after those of another make the merger of their candles.
LEMMA MadeUnion ==
    ASSUME NEW q \in Seq(Tick), NEW A \in SUBSET DOMAIN q, NEW B \in SUBSET DOMAIN q, A # {}, B # {},
           \A a \in A, b \in B : a < b, NEW s, NEW x, NEW z
    PROVE  Made(q, s, x, A \cup B) = Merged(Made(q, s, x, A), Made(q, s, z, B))
<1>1. PICK P, R, U : P = PricesOf(q, A) /\ R = PricesOf(q, B) /\ U = A \cup B
    OBVIOUS
<1>2. /\ IsFiniteSet(A) /\ \A i \in A : i \in Int
      /\ IsFiniteSet(P) /\ P # {} /\ \A y \in P : y \in Int
    BY <1>1, PricesFacts
<1>3. /\ IsFiniteSet(B) /\ \A i \in B : i \in Int
      /\ IsFiniteSet(R) /\ R # {} /\ \A y \in R : y \in Int
    BY <1>1, PricesFacts
<1>4. U # {} /\ (\A i \in U : i \in Int) /\ A \cap B = {}
    BY <1>1, <1>2, <1>3
<1>5. Cardinality(U) = Cardinality(A) + Cardinality(B)
  <2>1. Cardinality(U) = Cardinality(A) + Cardinality(B) - Cardinality({})
      BY <1>1, <1>2, <1>3, <1>4, FS_Union
  <2>2. Cardinality({}) = 0 /\ Cardinality(A) \in Nat /\ Cardinality(B) \in Nat
      BY <1>2, <1>3, FS_EmptySet, FS_CardinalityType
  <2>3. QED
      BY <2>1, <2>2
<1>6. Min(U) = Min(A)
  <2>1. PICK m : m = Min(A)
      OBVIOUS
  <2>2. m \in A /\ \A i \in A : m <= i
      BY <1>2, <2>1, MinExists
  <2>3. m \in U /\ \A i \in U : m <= i
      BY <1>1, <1>2, <1>3, <2>2
  <2>4. QED
      BY <1>4, <2>1, <2>3, MinIs
<1>7. Max(U) = Max(B)
  <2>1. PICK m : m = Max(B)
      OBVIOUS
  <2>2. m \in B /\ \A i \in B : m >= i
      BY <1>3, <2>1, MaxExists
  <2>3. m \in U /\ \A i \in U : m >= i
      BY <1>1, <1>2, <1>3, <2>2
  <2>4. QED
      BY <1>4, <2>1, <2>3, MaxIs
<1>8. PricesOf(q, U) = P \cup R
    BY <1>1 DEF PricesOf
<1>9. PICK W : W = P \cup R
    OBVIOUS
<1>10. \A y \in W : y \in Int
    BY <1>2, <1>3, <1>9
<1>11. Max(W) = Larger(Max(P), Max(R))
  <2>1. PICK m, n : m = Max(P) /\ n = Max(R)
      OBVIOUS
  <2>2. m \in P /\ \A y \in P : m >= y
      BY <1>2, <2>1, MaxExists
  <2>3. n \in R /\ \A y \in R : n >= y
      BY <1>3, <2>1, MaxExists
  <2>4. PICK k : k = Larger(m, n)
      OBVIOUS
  <2>5. k \in W /\ k \in Int /\ k >= m /\ k >= n /\ m \in Int /\ n \in Int
      BY <1>2, <1>3, <1>9, <2>2, <2>3, <2>4 DEF Larger
  <2>6. \A y \in W : k >= y
      BY <1>2, <1>3, <1>9, <2>2, <2>3, <2>5
  <2>7. QED
      BY <1>10, <2>1, <2>4, <2>5, <2>6, MaxIs
<1>12. Min(W) = Smaller(Min(P), Min(R))
  <2>1. PICK m, n : m = Min(P) /\ n = Min(R)
      OBVIOUS
  <2>2. m \in P /\ \A y \in P : m <= y
      BY <1>2, <2>1, MinExists
  <2>3. n \in R /\ \A y \in R : n <= y
      BY <1>3, <2>1, MinExists
  <2>4. PICK k : k = Smaller(m, n)
      OBVIOUS
  <2>5. k \in W /\ k \in Int /\ k <= m /\ k <= n /\ m \in Int /\ n \in Int
      BY <1>2, <1>3, <1>9, <2>2, <2>3, <2>4 DEF Smaller
  <2>6. \A y \in W : k <= y
      BY <1>2, <1>3, <1>9, <2>2, <2>3, <2>5
  <2>7. QED
      BY <1>10, <2>1, <2>4, <2>5, <2>6, MinIs
<1>13. Made(q, s, x, U) =
         [symbol |-> s, timestamp |-> x, open |-> q[Min(A)].last, close |-> q[Max(B)].last,
          high |-> Larger(Max(P), Max(R)), low |-> Smaller(Min(P), Min(R)),
          tickCount |-> Cardinality(A) + Cardinality(B)]
    BY <1>5, <1>6, <1>7, <1>8, <1>9, <1>11, <1>12 DEF Made
<1>14. PricesOf(q, A) = P /\ PricesOf(q, B) = R
    BY <1>1
<1>15. Made(q, s, x, A) =
         [symbol |-> s, timestamp |-> x, open |-> q[Min(A)].last, close |-> q[Max(A)].last,
          high |-> Max(P), low |-> Min(P), tickCount |-> Cardinality(A)]
    BY <1>14 DEF Made
<1>16. /\ Made(q, s, z, B).close = q[Max(B)].last /\ Made(q, s, z, B).tickCount = Cardinality(B)
       /\ Made(q, s, z, B).high = Max(R) /\ Made(q, s, z, B).low = Min(R)
    BY <1>14 DEF Made
<1>17. PICK a, b : a = Made(q, s, x, A) /\ b = Made(q, s, z, B)
    OBVIOUS
<1>18. Merged(a, b) =
         [symbol |-> s, timestamp |-> x, open |-> q[Min(A)].last, close |-> q[Max(B)].last,
          high |-> Larger(Max(P), Max(R)), low |-> Smaller(Min(P), Min(R)),
          tickCount |-> Cardinality(A) + Cardinality(B)]
    BY <1>15, <1>16, <1>17, MergedIs
<1>19. QED
    BY <1>1, <1>13, <1>17, <1>18

\* One tick makes a candle of its price.
LEMMA MadeOne ==
    ASSUME NEW q \in Seq(Tick), NEW n \in DOMAIN q, NEW s, NEW x
    PROVE  Made(q, s, x, {n}) = [symbol |-> s, timestamp |-> x, open |-> q[n].last, close |-> q[n].last,
                                 high |-> q[n].last, low |-> q[n].last, tickCount |-> 1]
<1>1. n \in Int /\ q[n].last \in Int
  <2>1. q[n] \in Tick /\ n \in Int
      BY FiniteDomain
  <2>2. q[n].last \in Prices
      BY <2>1 DEF Tick
  <2>3. QED
      BY <2>1, <2>2, CandleBounds
<1>2. PICK p : p = q[n].last
    OBVIOUS
<1>3. p \in Int /\ PricesOf(q, {n}) = {p}
    BY <1>1, <1>2 DEF PricesOf
<1>4. ASSUME NEW y \in Int PROVE Max({y}) = y /\ Min({y}) = y
  <2>1. PICK S : S = {y}
      OBVIOUS
  <2>2. y \in S /\ \A v \in S : v \in Int
      BY <2>1
  <2>3. \A v \in S : y >= v
      BY <2>1
  <2>4. \A v \in S : y <= v
      BY <2>1
  <2>5. Max(S) = y
      BY <2>2, <2>3, MaxIs
  <2>6. Min(S) = y
      BY <2>2, <2>4, MinIs
  <2>7. QED
      BY <2>1, <2>5, <2>6
<1>5. Max({p}) = p /\ Min({p}) = p
    BY <1>3, <1>4
<1>6. Max({n}) = n /\ Min({n}) = n
    BY <1>1, <1>4
<1>8. Cardinality({n}) = 1
    BY FS_Singleton
<1>9. QED
    BY <1>2, <1>3, <1>5, <1>6, <1>8 DEF Made

\* More ticks do not change the candle of a set of ticks.
LEMMA MadeSame ==
    ASSUME NEW q \in Seq(Tick), NEW t \in Tick, NEW ticks \in SUBSET DOMAIN q, ticks # {}, NEW s, NEW x
    PROVE  Made(Append(q, t), s, x, ticks) = Made(q, s, x, ticks)
<1>1. PICK r : r = Append(q, t)
    OBVIOUS
<1>2. \A i \in DOMAIN q : r[i] = q[i]
    BY <1>1
<1>3. \A i \in ticks : r[i] = q[i]
    BY <1>2
<1>4. IsFiniteSet(ticks) /\ \A i \in ticks : i \in Int
    BY PricesFacts
<1>5. Max(ticks) \in ticks /\ Min(ticks) \in ticks
    BY <1>4, MaxExists, MinExists
<1>6. PricesOf(r, ticks) = PricesOf(q, ticks)
    BY <1>3 DEF PricesOf
<1>7. r[Max(ticks)] = q[Max(ticks)] /\ r[Min(ticks)] = q[Min(ticks)]
    BY <1>3, <1>5
<1>8. QED
    BY <1>1, <1>6, <1>7 DEF Made

\* One more tick updates the candle of those before it.
LEMMA MadeUpdated ==
    ASSUME NEW q \in Seq(Tick), NEW A \in SUBSET DOMAIN q, A # {}, NEW n \in DOMAIN q,
           \A a \in A : a < n, NEW s, NEW x
    PROVE  Made(q, s, x, A \cup {n}) = Updated(Made(q, s, x, A), q[n])
<1>1. PICK B, b : B = {n} /\ b = Made(q, s, x, {n})
    OBVIOUS
<1>2. B \in SUBSET DOMAIN q /\ B # {} /\ \A a \in A, y \in B : a < y
    BY <1>1
<1>3. Made(q, s, x, A \cup B) = Merged(Made(q, s, x, A), Made(q, s, x, B))
    BY <1>2, MadeUnion
<1>4. b.close = q[n].last /\ b.high = q[n].last /\ b.low = q[n].last /\ b.tickCount = 1
  <2>1. Made(q, s, x, {n}) = [symbol |-> s, timestamp |-> x, open |-> q[n].last, close |-> q[n].last,
                              high |-> q[n].last, low |-> q[n].last, tickCount |-> 1]
      BY MadeOne
  <2>2. QED
      BY <1>1, <2>1
<1>5. PICK r : r = Made(q, s, x, A)
    OBVIOUS
<1>6. PICK o, c, h, l, k : r = [symbol |-> s, timestamp |-> x, open |-> o, close |-> c,
                                high |-> h, low |-> l, tickCount |-> k]
    BY <1>5 DEF Made
<1>7. Merged(r, b) = [symbol |-> s, timestamp |-> x, open |-> o, close |-> b.close,
                      high |-> Larger(h, b.high), low |-> Smaller(l, b.low), tickCount |-> k + b.tickCount]
    BY <1>6, MergedIs
<1>8. Updated(r, q[n]) = [symbol |-> s, timestamp |-> x, open |-> o, close |-> q[n].last,
                          high |-> Larger(h, q[n].last), low |-> Smaller(l, q[n].last), tickCount |-> k + 1]
    BY <1>6, UpdatedIs
<1>9. QED
    BY <1>1, <1>3, <1>4, <1>5, <1>7, <1>8

-----------------------------------------------------------------------------
(* The inductive invariant                                                  *)

\* In one weighing each candle of a period weighs its ticks; in another one candle weighs 1.
Counts(s, start) == [c \in Candle |-> IF c.symbol = s /\ c.timestamp = start THEN c.tickCount ELSE 0]
Is(d) == [c \in Candle |-> IF c = d THEN 1 ELSE 0]

\* A builder is filed under its symbol.
Labelled == \A s \in Symbols : builders[s] # <<>> => builders[s][1].symbol = s

\* A tick that comes after one of a newer period is a late one of its period.
Ordered ==
    \A i, j \in DOMAIN accepted :
        /\ i < j /\ accepted[i].symbol = accepted[j].symbol
        /\ PeriodOf(accepted[i].timestamp) > PeriodOf(accepted[j].timestamp)
        => <<accepted[j].symbol, PeriodOf(accepted[j].timestamp)>> \in late

\* No tick is lost or counted twice.
Counted ==
    \A s \in Symbols, start \in Times :
        Outside(Counts(s, start)) + Weight(Counts(s, start), builders[s])
            = Cardinality(TicksOf(s, start, Period))

\* The clock, a newer tick or the stop of the aggregator has left a period behind.
Newer(s, start) ==
    \E i \in DOMAIN accepted : accepted[i].symbol = s /\ PeriodOf(accepted[i].timestamp) > start

Left(s, start) == start < PeriodOf(now) \/ phase \in {"closing", "closed"} \/ Newer(s, start)

\* The candle of a period that no late tick disturbed is being built, or was closed when
\* its period was left.
Kept ==
    \A s \in Symbols, start \in Times, C \in Candle :
        /\ TicksOf(s, start, Period) # {} /\ <<s, start>> \notin late
        /\ C = CandleOf(s, start, TicksOf(s, start, Period))
        => builders[s] = <<C>> \/ (Left(s, start) /\ Outside(Is(C)) >= 1)

CandleInv == CandleTypeOK /\ Labelled /\ Ordered /\ Counted /\ Kept

\* Both weigh candles in numbers.
LEMMA WeighingTypes ==
    /\ \A s, start : Counts(s, start) \in [Candle -> Nat]
    /\ \A d : Is(d) \in [Candle -> Nat]
<1>1. \A c \in Candle : c.tickCount \in Nat
    BY DEF Candle
<1>2. QED
    BY <1>1 DEF Counts, Is

\* A sequence of at most one element.
LEMMA ShortSequence ==
    ASSUME NEW D, NEW q \in Seq(D), q # <<>>, Len(q) <= 1
    PROVE  q[1] \in D /\ Len(q) = 1 /\ q = <<q[1]>>
<1>1. Len(q) \in Nat /\ Len(q) # 0
    BY EmptySeq
<1>2. Len(q) = 1
    BY <1>1
<1>3. q[1] \in D
    BY <1>2
<1>4. <<q[1]>> \in Seq(D) /\ Len(<<q[1]>>) = 1 /\ \A i \in 1..1 : <<q[1]>>[i] = q[i]
    BY <1>3
<1>5. QED
    BY <1>2, <1>3, <1>4, SeqEqual

\* The ticks of a period are finitely many positions.
LEMMA TicksFacts ==
    ASSUME CandleTypeOK, NEW s, NEW start, NEW L
    PROVE  /\ TicksOf(s, start, L) \in SUBSET DOMAIN accepted /\ IsFiniteSet(TicksOf(s, start, L))
           /\ DOMAIN accepted = 1..Len(accepted) /\ Len(accepted) \in Nat
           /\ Cardinality(TicksOf(s, start, L)) \in Nat
<1>1. accepted \in Seq(Tick)
    BY DEF CandleTypeOK
<1>2. DOMAIN accepted = 1..Len(accepted) /\ Len(accepted) \in Nat /\ IsFiniteSet(DOMAIN accepted)
    BY <1>1, FiniteDomain
<1>3. TicksOf(s, start, L) \in SUBSET DOMAIN accepted
    BY DEF TicksOf
<1>4. IsFiniteSet(TicksOf(s, start, L))
    BY <1>2, <1>3, FS_Subset
<1>5. QED
    BY <1>2, <1>3, <1>4, FS_CardinalityType

\* A new tick is one more tick of its period.
LEMMA TicksGrow ==
    ASSUME CandleTypeOK, NEW t \in Tick, accepted' = Append(accepted, t), NEW s, NEW start, NEW n, n = Len(accepted) + 1
    PROVE  /\ t.symbol = s /\ PeriodOf(t.timestamp) = start
              => /\ TicksOf(s, start, Period)' = TicksOf(s, start, Period) \cup {n}
                 /\ Cardinality(TicksOf(s, start, Period)') = Cardinality(TicksOf(s, start, Period)) + 1
           /\ ~(t.symbol = s /\ PeriodOf(t.timestamp) = start)
              => TicksOf(s, start, Period)' = TicksOf(s, start, Period)
<1>1. PICK T : T = TicksOf(s, start, Period)
    OBVIOUS
<1>2. /\ T \in SUBSET DOMAIN accepted /\ IsFiniteSet(T) /\ DOMAIN accepted = 1..Len(accepted)
      /\ Len(accepted) \in Nat /\ Cardinality(T) \in Nat
    BY <1>1, TicksFacts
<1>3. accepted \in Seq(Tick)
    BY DEF CandleTypeOK
<1>4. /\ DOMAIN accepted' = DOMAIN accepted \cup {n} /\ accepted'[n] = t
      /\ \A i \in DOMAIN accepted : accepted'[i] = accepted[i]
    BY <1>2, <1>3
<1>5. n \notin T
    BY <1>2
<1>6. TicksOf(s, start, Period)' = {i \in DOMAIN accepted' : accepted'[i].symbol = s /\ PeriodOf(accepted'[i].timestamp) = start}
    BY DEF TicksOf, PeriodOf
<1>7. T = {i \in DOMAIN accepted : accepted[i].symbol = s /\ PeriodOf(accepted[i].timestamp) = start}
    BY <1>1 DEF TicksOf, PeriodOf
<1>8. ASSUME t.symbol = s /\ PeriodOf(t.timestamp) = start
      PROVE  TicksOf(s, start, Period)' = T \cup {n}
    BY <1>4, <1>6, <1>7, <1>8
<1>9. ASSUME ~(t.symbol = s /\ PeriodOf(t.timestamp) = start)
      PROVE  TicksOf(s, start, Period)' = T
    BY <1>4, <1>6, <1>7, <1>9
<1>10. Cardinality(T \cup {n}) = Cardinality(T) + 1
    BY <1>2, <1>5, FS_AddElement
<1>11. QED
    BY <1>1, <1>8, <1>9, <1>10

\* Without a new tick, no period changes its ticks or its candle.
LEMMA SameTicks ==
    ASSUME accepted' = accepted
    PROVE  /\ \A s, start, L : TicksOf(s, start, L)' = TicksOf(s, start, L)
           /\ \A s, start, ticks : CandleOf(s, start, ticks)' = CandleOf(s, start, ticks)
           /\ \A s, start : Newer(s, start)' <=> Newer(s, start)
BY DEF TicksOf, CandleOf, Newer, PeriodOf

\* A step that moves no candle out of a builder.
LEMMA NothingClosed ==
    ASSUME CandleInv, accepted' = accepted, late' = late, builders' = builders,
           \A w \in [Candle -> Nat] : Outside(w)' = Outside(w),
           \A s : \A start \in Times : Left(s, start) => Left(s, start)'
    PROVE  Labelled' /\ Ordered' /\ Counted' /\ Kept'
<1>1. Labelled'
    BY DEF CandleInv, Labelled
<1>2. Ordered'
    BY DEF CandleInv, Ordered, PeriodOf
<1>3. Counted'
  <2>1. SUFFICES ASSUME NEW s \in Symbols, NEW start \in Times
                 PROVE  Outside(Counts(s, start))' + Weight(Counts(s, start), builders'[s])
                          = Cardinality(TicksOf(s, start, Period)')
      BY DEF Counted, Counts
  <2>2. Outside(Counts(s, start))' = Outside(Counts(s, start))
      BY WeighingTypes DEF Counts
  <2>3. TicksOf(s, start, Period)' = TicksOf(s, start, Period)
      BY SameTicks
  <2>4. QED
      BY <2>2, <2>3 DEF CandleInv, Counted
<1>4. Kept'
  <2>1. SUFFICES ASSUME NEW s \in Symbols, NEW start \in Times, NEW C \in Candle,
                        TicksOf(s, start, Period)' # {}, <<s, start>> \notin late',
                        C = CandleOf(s, start, TicksOf(s, start, Period))'
                 PROVE  builders'[s] = <<C>> \/ (Left(s, start)' /\ Outside(Is(C))' >= 1)
      BY DEF Kept, Is
  <2>2. PICK T : T = TicksOf(s, start, Period)
      OBVIOUS
  <2>3. TicksOf(s, start, Period)' = T
      BY <2>2, SameTicks
  <2>4. CandleOf(s, start, TicksOf(s, start, Period))' = Made(accepted, s, start, T)
      BY <2>3 DEF CandleOf, Made, PricesOf
  <2>5. C = CandleOf(s, start, TicksOf(s, start, Period))
      BY <2>1, <2>2, <2>4, CandleOfIsMade
  <2>6. builders[s] = <<C>> \/ (Left(s, start) /\ Outside(Is(C)) >= 1)
      BY <2>1, <2>2, <2>3, <2>5 DEF CandleInv, Kept
  <2>7. Outside(Is(C))' = Outside(Is(C))
      BY WeighingTypes DEF Is
  <2>8. QED
      BY <2>6, <2>7
<1>5. QED
    BY <1>1, <1>2, <1>3, <1>4

\* A step that closes candles of periods that were left.
LEMMA SomeClosed ==
    ASSUME CandleInv, accepted' = accepted, late' = late, saved' = saved, dropped' = dropped,
           NEW S, S \subseteq Building, CloseAll(S),
           \A s : \A start \in Times : Left(s, start) => Left(s, start)',
           \A s \in S, start \in Times : start = builders[s][1].timestamp => Left(s, start)'
    PROVE  /\ buffer' \in Seq(Candle) /\ saving' \in Seq(Seq(Candle))
           /\ builders' \in [Symbols -> Seq(Candle)] /\ \A s \in Symbols : Len(builders'[s]) <= 1
           /\ Labelled' /\ Ordered' /\ Counted' /\ Kept'
<1>1. /\ buffer' \in Seq(Candle) /\ saving' \in Seq(Seq(Candle))
      /\ \A w \in [Candle -> Nat], s \in Symbols :
           (\A x \in S \ {s} : w[builders[x][1]] = 0)
           => Outside(w)' = Outside(w) + IF s \in S THEN w[builders[s][1]] ELSE 0
    BY CloseAllWeighs DEF CandleInv
<1>2. builders' = [s \in Symbols |-> IF s \in S THEN <<>> ELSE builders[s]]
    BY DEF CloseAll
<1>3. \A s \in Symbols : builders[s] \in Seq(Candle) /\ Len(builders[s]) <= 1
    BY DEF CandleInv, CandleTypeOK
<1>4. ASSUME NEW s \in S
      PROVE  /\ s \in Symbols /\ builders[s][1] \in Candle /\ builders[s] = <<builders[s][1]>>
             /\ builders[s][1].symbol = s
  <2>1. s \in Symbols /\ builders[s] # <<>>
      BY DEF Building
  <2>2. PICK q : q = builders[s]
      OBVIOUS
  <2>3. q \in Seq(Candle) /\ Len(q) <= 1 /\ q # <<>>
      BY <1>3, <2>1, <2>2
  <2>4. q = <<q[1]>> /\ q[1] \in Candle
      BY <2>3, ShortSequence
  <2>5. QED
      BY <2>1, <2>2, <2>4 DEF CandleInv, Labelled
<1>5. \A s \in Symbols : builders'[s] = IF s \in S THEN <<>> ELSE builders[s]
    BY <1>2
<1>6. builders' \in [Symbols -> Seq(Candle)] /\ \A s \in Symbols : Len(builders'[s]) <= 1
  <2>1. <<>> \in Seq(Candle) /\ Len(<<>>) = 0
      OBVIOUS
  <2>2. \A s \in Symbols : (IF s \in S THEN <<>> ELSE builders[s]) \in Seq(Candle)
      BY <1>3, <2>1
  <2>3. builders' \in [Symbols -> Seq(Candle)]
      BY <1>2, <2>2
  <2>4. \A s \in Symbols : Len(builders'[s]) <= 1
      BY <1>3, <1>5, <2>1
  <2>5. QED
      BY <2>3, <2>4
<1>7. Labelled'
    BY <1>5 DEF CandleInv, Labelled
<1>8. Ordered'
    BY DEF CandleInv, Ordered, PeriodOf
<1>9. Counted'
  <2>1. SUFFICES ASSUME NEW s \in Symbols, NEW start \in Times
                 PROVE  Outside(Counts(s, start))' + Weight(Counts(s, start), builders'[s])
                          = Cardinality(TicksOf(s, start, Period)')
      BY DEF Counted, Counts
  <2>2. PICK w : w = Counts(s, start)
      OBVIOUS
  <2>3. w \in [Candle -> Nat] /\ \A c \in Candle : c.symbol # s => w[c] = 0
      BY <2>2, WeighingTypes DEF Counts
  <2>4. \A x \in S \ {s} : w[builders[x][1]] = 0
      BY <1>4, <2>3
  <2>5. Outside(w)' = Outside(w) + IF s \in S THEN w[builders[s][1]] ELSE 0
      BY <1>1, <2>3, <2>4
  <2>6. Outside(w) \in Nat
      BY <2>3, OutsideNat DEF CandleInv
  <2>7. Outside(w)' + Weight(w, builders'[s]) = Outside(w) + Weight(w, builders[s])
    <3>1. CASE s \in S
      <4>1. PICK c : c = builders[s][1]
          OBVIOUS
      <4>2. c \in Candle /\ builders[s] = <<c>> /\ w[c] \in Nat
          BY <1>4, <2>3, <3>1, <4>1
      <4>3. Weight(w, builders[s]) = w[c]
          BY <4>2, WeightOne
      <4>4. builders'[s] = <<>>
          BY <1>5, <3>1
      <4>5. Weight(w, builders'[s]) = 0
          BY <4>4, WeightEmpty
      <4>6. Outside(w)' = Outside(w) + w[c]
          BY <2>5, <3>1, <4>1
      <4>7. QED
          BY <2>6, <4>2, <4>3, <4>5, <4>6
    <3>2. CASE s \notin S
        BY <1>5, <2>5, <2>6, <3>2
    <3>3. QED
        BY <3>1, <3>2
  <2>8. TicksOf(s, start, Period)' = TicksOf(s, start, Period)
      BY SameTicks
  <2>9. Outside(w) + Weight(w, builders[s]) = Cardinality(TicksOf(s, start, Period))
      BY <2>2 DEF CandleInv, Counted
  <2>10. Outside(w)' = Outside(Counts(s, start))'
      BY <2>2 DEF Counts
  <2>11. QED
      BY <2>2, <2>7, <2>8, <2>9, <2>10
<1>10. Kept'
  <2>1. SUFFICES ASSUME NEW s \in Symbols, NEW start \in Times, NEW C \in Candle,
                        TicksOf(s, start, Period)' # {}, <<s, start>> \notin late',
                        C = CandleOf(s, start, TicksOf(s, start, Period))'
                 PROVE  builders'[s] = <<C>> \/ (Left(s, start)' /\ Outside(Is(C))' >= 1)
      BY DEF Kept, Is
  <2>2. PICK T : T = TicksOf(s, start, Period)
      OBVIOUS
  <2>3. TicksOf(s, start, Period)' = T
      BY <2>2, SameTicks
  <2>4. CandleOf(s, start, TicksOf(s, start, Period))' = Made(accepted, s, start, T)
      BY <2>3 DEF CandleOf, Made, PricesOf
  <2>5. C = CandleOf(s, start, TicksOf(s, start, Period))
      BY <2>1, <2>2, <2>4, CandleOfIsMade
  <2>6. builders[s] = <<C>> \/ (Left(s, start) /\ Outside(Is(C)) >= 1)
      BY <2>1, <2>2, <2>3, <2>5 DEF CandleInv, Kept
  <2>7. C.symbol = s /\ C.timestamp = start
      BY <2>5 DEF CandleOf
  <2>8. PICK w : w = Is(C)
      OBVIOUS
  <2>9. w \in [Candle -> Nat] /\ w[C] = 1 /\ \A c \in Candle : c.symbol # s => w[c] = 0
      BY <2>7, <2>8, WeighingTypes DEF Is
  <2>10. \A x \in S \ {s} : w[builders[x][1]] = 0
      BY <1>4, <2>9
  <2>11. Outside(w)' = Outside(w) + IF s \in S THEN w[builders[s][1]] ELSE 0
      BY <1>1, <2>9, <2>10
  <2>12. Outside(w) \in Nat
      BY <2>9, OutsideNat DEF CandleInv
  <2>13. Outside(w)' = Outside(Is(C))'
      BY <2>8 DEF Is
  <2>14. CASE Left(s, start) /\ Outside(Is(C)) >= 1
    <3>1. s \in S => w[builders[s][1]] \in Nat
        BY <1>4, <2>9
    <3>2. Outside(w)' >= 1
        BY <2>8, <2>11, <2>12, <2>14, <3>1
    <3>3. QED
        BY <2>13, <2>14, <3>2
  <2>15. CASE builders[s] = <<C>>
    <3>1. CASE s \in S
      <4>1. builders[s][1] = C
          BY <2>15
      <4>2. Outside(w)' = Outside(w) + 1
          BY <2>9, <2>11, <3>1, <4>1
      <4>3. Left(s, start)'
          BY <2>7, <3>1, <4>1
      <4>4. QED
          BY <2>12, <2>13, <4>2, <4>3
    <3>2. CASE s \notin S
        BY <1>5, <2>15, <3>2
    <3>3. QED
        BY <3>1, <3>2
  <2>16. QED
      BY <2>6, <2>14, <2>15
<1>11. QED
    BY <1>1, <1>6, <1>7, <1>8, <1>9, <1>10

\* A tick of a period that a newer one has left disturbs its period and the newest.
LEMMA DisturbedFacts ==
    ASSUME CandleTypeOK, NEW t \in Tick, NEW s, s = t.symbol, NEW st, st = PeriodOf(t.timestamp)
    PROVE  /\ Disturbed(t) \subseteq Symbols \X Times
           /\ Newer(s, st) => <<s, st>> \in Disturbed(t)
           /\ st < PeriodOf(now) \/ phase = "closing" => <<s, st>> \in Disturbed(t)
           /\ \A start \in Times :
                start > st /\ TicksOf(s, start, Period) # {} /\ ~Newer(s, start)
                => <<s, start>> \in Disturbed(t)
<1> DEFINE newer == {PeriodOf(accepted[i].timestamp) :
                       i \in {j \in DOMAIN accepted : /\ accepted[j].symbol = s
                                                     /\ PeriodOf(accepted[j].timestamp) > st}}
<1>1. Disturbed(t) = IF newer # {} THEN {s} \X {st, Max(newer)}
                     ELSE IF st < PeriodOf(now) \/ phase = "closing" THEN {<<s, st>>} ELSE {}
    BY DEF Disturbed
<1>2. s \in Symbols /\ t.timestamp \in Times
    BY DEF Tick
<1>3. st \in Times
    BY <1>2, PeriodType
<1>4. \A i \in DOMAIN accepted : accepted[i] \in Tick /\ accepted[i].timestamp \in Times
  <2>1. accepted \in Seq(Tick)
      BY DEF CandleTypeOK
  <2>2. \A i \in DOMAIN accepted : accepted[i] \in Tick
      BY <2>1, FiniteDomain
  <2>3. \A x \in Tick : x.timestamp \in Times
      BY DEF Tick
  <2>4. QED
      BY <2>2, <2>3
<1>5. \A x \in newer : x \in Times
    BY <1>4, PeriodType
<1>16. \A x \in Times : x \in Int
    BY CandleBounds DEF Times
<1>6. \A x \in newer : x \in Int
  <2> HIDE DEF newer
  <2>1. QED
      BY <1>5, <1>16
<1>7. newer # {} <=> Newer(s, st)
    BY DEF Newer
<1>8. IsFiniteSet(newer)
  <2>1. newer \in SUBSET Times
      BY <1>5
  <2>2. IsFiniteSet(Times)
      BY CandleBounds, FS_Interval DEF Times
  <2>3. QED
      BY <2>1, <2>2, FS_Subset
<1>9. ASSUME NEW start \in Times, start > st, TicksOf(s, start, Period) # {}, ~Newer(s, start)
      PROVE  newer # {} /\ Max(newer) = start
  <2>1. PICK i \in TicksOf(s, start, Period) : TRUE
      BY <1>9
  <2>2. i \in DOMAIN accepted /\ accepted[i].symbol = s /\ PeriodOf(accepted[i].timestamp) = start
      BY <2>1 DEF TicksOf, PeriodOf
  <2>3. start \in newer
      BY <1>9, <2>2
  <2>4. \A x \in newer : start >= x
    <3>1. SUFFICES ASSUME NEW j \in DOMAIN accepted, accepted[j].symbol = s
                   PROVE  start >= PeriodOf(accepted[j].timestamp)
        OBVIOUS
    <3>2. ~(PeriodOf(accepted[j].timestamp) > start)
        BY <1>9, <3>1 DEF Newer
    <3>3. PeriodOf(accepted[j].timestamp) \in Int /\ start \in Int
        BY <1>4, <1>16, PeriodType
    <3>4. QED
        BY <3>2, <3>3
  <2> HIDE DEF newer
  <2>5. Max(newer) = start
      BY <1>6, <2>3, <2>4, MaxIs
  <2>6. QED
      BY <2>3, <2>5
<1> HIDE DEF newer
<1>10. newer # {} => Max(newer) \in Times
    BY <1>5, <1>6, <1>8, MaxExists
<1>11. Disturbed(t) \subseteq Symbols \X Times
    BY <1>1, <1>2, <1>3, <1>10
<1>12. Newer(s, st) => <<s, st>> \in Disturbed(t)
    BY <1>1, <1>7
<1>13. st < PeriodOf(now) \/ phase = "closing" => <<s, st>> \in Disturbed(t)
    BY <1>1
<1>14. ASSUME NEW start \in Times, start > st, TicksOf(s, start, Period) # {}, ~Newer(s, start)
       PROVE  <<s, start>> \in Disturbed(t)
    BY <1>1, <1>9, <1>14
<1>15. QED
    BY <1>11, <1>12, <1>13, <1>14

\* A candle of that period is being built.
InProgress(s, start) == builders[s] # <<>> /\ builders[s][1].timestamp = start

\* What a tick does to the builder of its symbol.
LEMMA Received ==
    ASSUME CandleInv, NEW t \in Tick, Receive(t), NEW s, s = t.symbol, NEW st, st = PeriodOf(t.timestamp),
           NEW nb, nb = IF InProgress(s, st) THEN Updated(builders[s][1], t) ELSE NewBuilder(t),
           NEW closed, closed = IF InProgress(s, st) THEN <<>> ELSE builders[s]
    PROVE  /\ nb \in Candle /\ closed \in Seq(Candle)
           /\ builders' = [builders EXCEPT ![s] = <<nb>>]
           /\ nb.symbol = s /\ nb.timestamp = st
           /\ InProgress(s, st) => nb.tickCount = builders[s][1].tickCount + 1
           /\ ~InProgress(s, st) => nb.tickCount = 1
           /\ buffer' \in Seq(Candle) /\ saving' \in Seq(Seq(Candle))
           /\ \A w \in [Candle -> Nat] : Outside(w)' = Outside(w) + Weight(w, closed)
<1>1. s \in Symbols /\ t.timestamp \in Times /\ t.last \in Prices
    BY DEF Tick
<1>2. st \in Times
    BY <1>1, PeriodType
<1>3. builders[s] \in Seq(Candle) /\ Len(builders[s]) <= 1
    BY <1>1 DEF CandleInv, CandleTypeOK
<1>4. PICK same \in BOOLEAN : same = InProgress(s, st)
    BY DEF InProgress
<1>5. nb = IF same THEN Updated(builders[s][1], t) ELSE NewBuilder(t)
    BY <1>4
<1>6. closed = IF same THEN <<>> ELSE builders[s]
    BY <1>4
<1>7. closed \in Seq(Candle)
    BY <1>3, <1>6
<1>8. same \in BOOLEAN
    OBVIOUS
<1>9. /\ builders' = [builders EXCEPT ![s] = IF same THEN <<Updated(builders[s][1], t)>> ELSE <<NewBuilder(t)>>]
      /\ Close(IF same THEN <<>> ELSE builders[s])
      /\ saved' = saved /\ dropped' = dropped
    BY <1>4 DEF Receive, InProgress
<1>10. builders' = [builders EXCEPT ![s] = <<nb>>]
    BY <1>5, <1>8, <1>9
<1>11. /\ buffer' \in Seq(Candle) /\ saving' \in Seq(Seq(Candle))
       /\ \A w \in [Candle -> Nat] : Outside(w)' = Outside(w) + Weight(w, closed)
    BY <1>6, <1>7, <1>9, CloseWeighs DEF CandleInv
<1>12. CASE same
  <2>1. PICK b : b = builders[s][1]
      OBVIOUS
  <2>2. b \in Candle /\ b.symbol = s /\ b.timestamp = st
      BY <1>1, <1>3, <1>4, <1>12, <2>1, ShortSequence DEF CandleInv, Labelled, InProgress
  <2>3. nb = Updated(b, t)
      BY <1>5, <1>12, <2>1
  <2>4. PICK o, c, h, l, k : b = [symbol |-> s, timestamp |-> st, open |-> o, close |-> c,
                                  high |-> h, low |-> l, tickCount |-> k]
    <3>1. \E o, c, h, l, k : b = [symbol |-> b.symbol, timestamp |-> b.timestamp, open |-> o, close |-> c,
                                  high |-> h, low |-> l, tickCount |-> k]
      <4>1. b = [symbol |-> b.symbol, timestamp |-> b.timestamp, open |-> b.open, close |-> b.close,
                 high |-> b.high, low |-> b.low, tickCount |-> b.tickCount]
          BY <2>2 DEF Candle
      <4>2. QED
          BY <4>1
    <3>2. QED
        BY <2>2, <3>1
  <2>5. nb = [symbol |-> s, timestamp |-> st, open |-> o, close |-> t.last,
              high |-> Larger(h, t.last), low |-> Smaller(l, t.last), tickCount |-> k + 1]
      BY <2>3, <2>4, UpdatedIs
  <2>6. o \in Prices /\ h \in Prices /\ l \in Prices /\ k \in Nat \ {0}
      BY <2>2, <2>4 DEF Candle
  <2>7. Larger(h, t.last) \in Prices /\ Smaller(l, t.last) \in Prices /\ k + 1 \in Nat \ {0}
      BY <1>1, <2>6 DEF Larger, Smaller
  <2>8. nb \in Candle
      BY <1>1, <1>2, <2>5, <2>6, <2>7 DEF Candle
  <2>9. nb.symbol = s /\ nb.timestamp = st /\ nb.tickCount = b.tickCount + 1
      BY <2>4, <2>5
  <2>10. QED
      BY <1>4, <1>5, <1>6, <1>7, <1>8, <1>10, <1>11, <1>12, <2>1, <2>8, <2>9
<1>13. CASE ~same
  <2>1. nb = NewBuilder(t)
      BY <1>5, <1>13
  <2>2. nb \in Candle /\ nb.symbol = s /\ nb.timestamp = st /\ nb.tickCount = 1
      BY <1>1, <1>2, <2>1 DEF NewBuilder, Candle
  <2>3. QED
      BY <1>4, <1>5, <1>6, <1>7, <1>8, <1>10, <1>11, <1>13, <2>2
<1>14. QED
    BY <1>8, <1>12, <1>13

\* A tick: it updates the builder of its period, or closes the candle that is built and
\* starts the next. A late one disturbs what it breaks.
LEMMA ReceiveKeeps ==
    ASSUME CandleInv, NEW t \in Tick, Receive(t)
    PROVE  CandleInv'
<1>1. PICK s : s = t.symbol
    OBVIOUS
<1>2. PICK st : st = PeriodOf(t.timestamp)
    OBVIOUS
<1>3. PICK n : n = Len(accepted) + 1
    OBVIOUS
<1>4. PICK b : b = builders[s]
    OBVIOUS
<1>22. PICK same \in BOOLEAN : same = InProgress(s, st)
    BY DEF InProgress
<1>23. PICK nb : nb = IF InProgress(s, st) THEN Updated(builders[s][1], t) ELSE NewBuilder(t)
    OBVIOUS
<1>24. PICK closed : closed = IF InProgress(s, st) THEN <<>> ELSE builders[s]
    OBVIOUS
<1>25. /\ nb \in Candle /\ closed \in Seq(Candle)
       /\ builders' = [builders EXCEPT ![s] = <<nb>>]
       /\ nb.symbol = s /\ nb.timestamp = st
       /\ InProgress(s, st) => nb.tickCount = builders[s][1].tickCount + 1
       /\ ~InProgress(s, st) => nb.tickCount = 1
       /\ buffer' \in Seq(Candle) /\ saving' \in Seq(Seq(Candle))
       /\ \A w \in [Candle -> Nat] : Outside(w)' = Outside(w) + Weight(w, closed)
    BY <1>1, <1>2, <1>23, <1>24, Received
<1>5. /\ same \in BOOLEAN /\ nb \in Candle /\ closed \in Seq(Candle)
      /\ same = (b # <<>> /\ b[1].timestamp = st)
      /\ nb = IF same THEN Updated(b[1], t) ELSE NewBuilder(t)
      /\ closed = IF same THEN <<>> ELSE b
      /\ builders' = [builders EXCEPT ![s] = <<nb>>]
      /\ nb.symbol = s /\ nb.timestamp = st
      /\ same => nb.tickCount = b[1].tickCount + 1
      /\ ~same => nb.tickCount = 1
      /\ buffer' \in Seq(Candle) /\ saving' \in Seq(Seq(Candle))
      /\ \A w \in [Candle -> Nat] : Outside(w)' = Outside(w) + Weight(w, closed)
    BY <1>4, <1>22, <1>23, <1>24, <1>25 DEF InProgress
<1>6. s \in Symbols /\ t.timestamp \in Times /\ t.last \in Prices
    BY <1>1 DEF Tick
<1>7. st \in Times
    BY <1>2, <1>6, PeriodType
<1>8. /\ accepted' = Append(accepted, t) /\ late' = late \cup Disturbed(t)
      /\ lastTick' = [lastTick EXCEPT ![s] = <<t>>]
      /\ UNCHANGED <<now, saved, dropped, phase, flushed>> /\ phase # "closed"
    BY <1>1 DEF Receive
<1>9. b \in Seq(Candle) /\ Len(b) <= 1
    BY <1>4, <1>6 DEF CandleInv, CandleTypeOK
<1>10. b # <<>> => b = <<b[1]>> /\ b[1] \in Candle /\ b[1].symbol = s
    BY <1>4, <1>6, <1>9, ShortSequence DEF CandleInv, Labelled
<1>11. /\ accepted \in Seq(Tick) /\ DOMAIN accepted = 1..Len(accepted) /\ Len(accepted) \in Nat
       /\ \A i \in DOMAIN accepted : accepted[i] \in Tick
    BY FiniteDomain DEF CandleInv, CandleTypeOK
<1>12. /\ accepted' \in Seq(Tick) /\ DOMAIN accepted' = DOMAIN accepted \cup {n} /\ n \notin DOMAIN accepted
       /\ accepted'[n] = t /\ \A i \in DOMAIN accepted : accepted'[i] = accepted[i] /\ i < n
  <2>1. accepted' \in Seq(Tick) /\ DOMAIN accepted' = 1..(Len(accepted) + 1)
      BY <1>8, <1>11
  <2>2. accepted'[n] = t /\ \A i \in DOMAIN accepted : accepted'[i] = accepted[i]
      BY <1>3, <1>8, <1>11
  <2>3. QED
      BY <1>3, <1>11, <2>1, <2>2
<1>13. /\ Disturbed(t) \subseteq Symbols \X Times
       /\ Newer(s, st) => <<s, st>> \in Disturbed(t)
       /\ st < PeriodOf(now) \/ phase = "closing" => <<s, st>> \in Disturbed(t)
       /\ \A start \in Times :
            start > st /\ TicksOf(s, start, Period) # {} /\ ~Newer(s, start)
            => <<s, start>> \in Disturbed(t)
    BY <1>1, <1>2, DisturbedFacts DEF CandleInv
<1>14. \A x \in Symbols : builders'[x] = IF x = s THEN <<nb>> ELSE builders[x]
    BY <1>5 DEF CandleInv, CandleTypeOK
<1>15. CandleTypeOK'
  <2>1. <<nb>> \in Seq(Candle) /\ Len(<<nb>>) = 1 /\ <<t>> \in Seq(Tick) /\ Len(<<t>>) = 1
      BY <1>5
  <2>2. builders' \in [Symbols -> Seq(Candle)] /\ \A x \in Symbols : Len(builders'[x]) <= 1
    <3>1. builders \in [Symbols -> Seq(Candle)] /\ \A x \in Symbols : Len(builders[x]) <= 1
        BY DEF CandleInv, CandleTypeOK
    <3>2. builders' \in [Symbols -> Seq(Candle)]
        BY <1>5, <1>6, <2>1, <3>1
    <3>3. \A x \in Symbols : Len(builders'[x]) <= 1
      <4>1. SUFFICES ASSUME NEW x \in Symbols PROVE Len(builders'[x]) <= 1
          OBVIOUS
      <4>2. CASE x = s
        <5>1. builders'[x] = <<nb>>
            BY <1>14, <4>2
        <5>2. Len(builders'[x]) = 1
            BY <2>1, <5>1
        <5>3. QED
            BY <5>2
      <4>3. CASE x # s
          BY <1>14, <3>1, <4>3
      <4>4. QED
          BY <4>2, <4>3
    <3>4. QED
        BY <3>2, <3>3
  <2>3. lastTick' \in [Symbols -> Seq(Tick)] /\ \A x \in Symbols : Len(lastTick'[x]) <= 1
    <3>1. lastTick \in [Symbols -> Seq(Tick)] /\ \A x \in Symbols : Len(lastTick[x]) <= 1
        BY DEF CandleInv, CandleTypeOK
    <3>2. lastTick' \in [Symbols -> Seq(Tick)]
        BY <1>6, <1>8, <2>1, <3>1
    <3>3. \A x \in Symbols : lastTick'[x] = IF x = s THEN <<t>> ELSE lastTick[x]
        BY <1>6, <1>8, <3>1
    <3>4. \A x \in Symbols : Len(lastTick'[x]) <= 1
      <4>1. SUFFICES ASSUME NEW x \in Symbols PROVE Len(lastTick'[x]) <= 1
          OBVIOUS
      <4>2. CASE x = s
        <5>1. lastTick'[x] = <<t>>
            BY <3>3, <4>2
        <5>2. Len(lastTick'[x]) = 1
            BY <2>1, <5>1
        <5>3. QED
            BY <5>2
      <4>3. CASE x # s
          BY <3>1, <3>3, <4>3
      <4>4. QED
          BY <4>2, <4>3
    <3>5. QED
        BY <3>2, <3>4
  <2>4. late' \subseteq Symbols \X Times
      BY <1>8, <1>13 DEF CandleInv, CandleTypeOK
  <2>5. /\ now' \in 0..MaxTime /\ saved' \in Seq(Candle) /\ dropped' \in Seq(Candle)
        /\ phase' \in {"running", "stopping", "closing", "closed"} /\ flushed' \in Nat
      BY <1>8 DEF CandleInv, CandleTypeOK
  <2>6. QED
      BY <1>5, <1>12, <2>2, <2>3, <2>4, <2>5 DEF CandleTypeOK
<1>16. Labelled'
  <2>1. SUFFICES ASSUME NEW x \in Symbols, builders'[x] # <<>>
                 PROVE  builders'[x][1].symbol = x
      BY DEF Labelled
  <2>2. CASE x = s
      BY <1>5, <1>14, <2>2
  <2>3. CASE x # s
      BY <1>14, <2>1, <2>3 DEF CandleInv, Labelled
  <2>4. QED
      BY <2>2, <2>3
<1>17. Ordered'
  <2>1. SUFFICES ASSUME NEW i \in DOMAIN accepted', NEW j \in DOMAIN accepted', i < j,
                        accepted'[i].symbol = accepted'[j].symbol,
                        PeriodOf(accepted'[i].timestamp) > PeriodOf(accepted'[j].timestamp)
                 PROVE  <<accepted'[j].symbol, PeriodOf(accepted'[j].timestamp)>> \in late'
      BY DEF Ordered, PeriodOf
  <2>2. CASE j # n
    <3>1. j \in DOMAIN accepted
        BY <1>12, <2>2
    <3>2. i # n
      <4>1. j < n /\ j \in Int /\ n \in Int
          BY <1>3, <1>11, <1>12, <3>1
      <4>2. QED
          BY <2>1, <4>1
    <3>3. i \in DOMAIN accepted /\ accepted'[i] = accepted[i] /\ accepted'[j] = accepted[j]
        BY <1>12, <3>1, <3>2
    <3>4. <<accepted[j].symbol, PeriodOf(accepted[j].timestamp)>> \in late
        BY <2>1, <3>1, <3>3 DEF CandleInv, Ordered
    <3>5. QED
        BY <1>8, <3>3, <3>4
  <2>3. CASE j = n
    <3>1. accepted'[j] = t
        BY <1>12, <2>3
    <3>2. i \in DOMAIN accepted /\ accepted'[i] = accepted[i]
      <4>1. i # n
        <5>1. n \in Int
            BY <1>3, <1>11
        <5>2. QED
            BY <2>1, <2>3, <5>1
      <4>2. QED
          BY <1>12, <4>1
    <3>3. accepted[i].symbol = s /\ PeriodOf(accepted[i].timestamp) > st
        BY <1>1, <1>2, <2>1, <3>1, <3>2
    <3>4. Newer(s, st)
        BY <3>2, <3>3 DEF Newer
    <3>5. QED
        BY <1>1, <1>2, <1>8, <1>13, <3>1, <3>4
  <2>4. QED
      BY <2>2, <2>3
<1>18. Counted'
  <2>1. SUFFICES ASSUME NEW x \in Symbols, NEW start \in Times
                 PROVE  Outside(Counts(x, start))' + Weight(Counts(x, start), builders'[x])
                          = Cardinality(TicksOf(x, start, Period)')
      BY DEF Counted, Counts
  <2>2. PICK w : w = Counts(x, start)
      OBVIOUS
  <2>3. /\ w \in [Candle -> Nat]
        /\ \A c \in Candle : w[c] = IF c.symbol = x /\ c.timestamp = start THEN c.tickCount ELSE 0
      BY <2>2, WeighingTypes DEF Counts
  <2>4. Outside(w)' = Outside(w) + Weight(w, closed) /\ Outside(w) \in Nat
      BY <1>5, <2>3, OutsideNat DEF CandleInv
  <2>5. Outside(w)' = Outside(Counts(x, start))'
      BY <2>2 DEF Counts
  <2>6. PICK hit : hit = (t.symbol = x /\ PeriodOf(t.timestamp) = start)
      OBVIOUS
  <2>7. PICK k, l : k = Cardinality(TicksOf(x, start, Period)) /\ l = Cardinality(TicksOf(x, start, Period)')
      OBVIOUS
  <2>8. k \in Nat /\ l = IF hit THEN k + 1 ELSE k
    <3>1. k \in Nat
        BY <2>7, TicksFacts DEF CandleInv
    <3>2. CandleTypeOK
        BY DEF CandleInv
    <3>3. CASE hit
        BY <1>3, <1>8, <2>6, <2>7, <3>1, <3>2, <3>3, TicksGrow
    <3>4. CASE ~hit
        BY <1>3, <1>8, <2>6, <2>7, <3>1, <3>2, <3>4, TicksGrow
    <3>5. QED
        BY <2>6, <3>1, <3>3, <3>4
  <2>9. Outside(w) + Weight(w, builders[x]) = k
      BY <2>2, <2>7 DEF CandleInv, Counted
  <2>10. PICK o, v, u, y : o = Outside(w) /\ v = Weight(w, closed) /\ u = Weight(w, builders[x]) /\ y = Weight(w, builders'[x])
      OBVIOUS
  <2>11. v + y = u + (IF hit THEN 1 ELSE 0) /\ v \in Nat /\ y \in Nat /\ u \in Nat
    <3>1. \A c \in Candle : w[c] \in Nat
        BY <2>3
    <3>2. CASE x # s
      <4>1. y = u
          BY <1>14, <2>10, <3>2
      <4>2. ~hit
          BY <1>1, <2>6, <3>2
      <4>3. \A i \in DOMAIN closed : w[closed[i]] = 0
        <5>1. CASE b = <<>> \/ same
          <6>1. closed = <<>>
              BY <1>5, <5>1
          <6>2. QED
              BY <6>1
        <5>2. CASE b # <<>> /\ ~same
          <6>1. closed = <<b[1]>> /\ w[b[1]] = 0
              BY <1>5, <1>10, <2>3, <3>2, <5>2
          <6>2. QED
              BY <6>1
        <5>3. QED
            BY <1>5, <5>1, <5>2
      <4>4. v = 0
          BY <1>5, <2>10, <4>3, WeightZero
      <4>5. u \in Nat
        <5>1. builders[x] \in Seq(Candle)
            BY DEF CandleInv, CandleTypeOK
        <5>2. QED
            BY <2>10, <3>1, <5>1, WeightNat
      <4>6. QED
          BY <4>1, <4>2, <4>4, <4>5
    <3>3. CASE x = s
      <4>1. builders'[x] = <<nb>> /\ builders[x] = b
          BY <1>4, <1>14, <3>3
      <4>2. y = w[nb] /\ w[nb] \in Nat
        <5>1. w[nb] \in Nat
            BY <1>5, <3>1
        <5>2. Weight(w, <<nb>>) = w[nb]
            BY <5>1, WeightOne
        <5>3. QED
            BY <2>10, <4>1, <5>1, <5>2
      <4>3. hit <=> start = st
          BY <1>1, <1>2, <2>6, <3>3
      <4>4. w[nb] = IF start = st THEN nb.tickCount ELSE 0
          BY <1>5, <2>3, <3>3
      <4>5. CASE same
        <5>1. b = <<b[1]>> /\ b[1] \in Candle /\ b[1].symbol = s /\ b[1].timestamp = st
            BY <1>5, <1>10, <4>5
        <5>2. PICK c : c = b[1]
            OBVIOUS
        <5>3. u = w[c] /\ c.tickCount \in Nat /\ w[c] = IF start = st THEN c.tickCount ELSE 0
          <6>1. c \in Candle /\ w[c] \in Nat /\ builders[x] = <<c>>
              BY <3>1, <4>1, <5>1, <5>2
          <6>2. u = w[c]
              BY <2>10, <6>1, WeightOne
          <6>3. c.tickCount \in Nat
              BY <6>1 DEF Candle
          <6>4. QED
              BY <2>3, <3>3, <5>1, <5>2, <6>1, <6>2, <6>3
        <5>4. v = 0
            BY <1>5, <2>10, <4>5, WeightEmpty
        <5>5. nb.tickCount = c.tickCount + 1
            BY <1>5, <4>5, <5>2
        <5>6. QED
            BY <2>6, <4>2, <4>3, <4>4, <5>3, <5>4, <5>5
      <4>6. CASE ~same
        <5>1. v = u
            BY <1>5, <2>10, <4>1, <4>6
        <5>2. u \in Nat
            BY <1>9, <2>10, <3>1, <4>1, WeightNat
        <5>3. w[nb] = IF start = st THEN 1 ELSE 0
            BY <1>5, <4>4, <4>6
        <5>4. QED
            BY <2>6, <4>2, <4>3, <5>1, <5>2, <5>3
      <4>7. QED
          BY <1>5, <4>5, <4>6
    <3>4. QED
        BY <3>2, <3>3
  <2>12. Outside(w)' + y = l
    <3>1. Outside(w)' = o + v /\ o \in Nat /\ o + u = k
        BY <2>4, <2>9, <2>10
    <3>2. QED
        BY <2>8, <2>11, <3>1
  <2>13. QED
      BY <2>2, <2>5, <2>7, <2>10, <2>12
<1>19. \A x, start : Left(x, start) => Left(x, start)'
  <2>1. SUFFICES ASSUME NEW x, NEW start, Left(x, start) PROVE Left(x, start)'
      OBVIOUS
  <2>2. start < PeriodOf(now) => start < PeriodOf(now)'
      BY <1>8 DEF PeriodOf
  <2>3. Newer(x, start) => Newer(x, start)'
    <3>1. ASSUME Newer(x, start) PROVE Newer(x, start)'
      <4>1. PICK i \in DOMAIN accepted : accepted[i].symbol = x /\ PeriodOf(accepted[i].timestamp) > start
          BY <3>1 DEF Newer
      <4>2. i \in DOMAIN accepted' /\ accepted'[i] = accepted[i]
          BY <1>12
      <4>3. QED
          BY <4>1, <4>2 DEF Newer, PeriodOf
    <3>2. QED
        BY <3>1
  <2>4. QED
      BY <1>8, <2>1, <2>2, <2>3 DEF Left
<1>20. Kept'
  <2>1. SUFFICES ASSUME NEW x \in Symbols, NEW start \in Times, NEW C \in Candle,
                        TicksOf(x, start, Period)' # {}, <<x, start>> \notin late',
                        C = CandleOf(x, start, TicksOf(x, start, Period))'
                 PROVE  builders'[x] = <<C>> \/ (Left(x, start)' /\ Outside(Is(C))' >= 1)
      BY DEF Kept, Is
  <2>2. PICK T : T = TicksOf(x, start, Period)
      OBVIOUS
  <2>3. PICK T2 : T2 = TicksOf(x, start, Period)'
      OBVIOUS
  <2>4. C = Made(Append(accepted, t), x, start, T2)
      BY <1>8, <2>1, <2>3 DEF CandleOf, Made, PricesOf
  <2>5. <<x, start>> \notin late /\ <<x, start>> \notin Disturbed(t)
      BY <1>8, <2>1
  <2>6. PICK w : w = Is(C)
      OBVIOUS
  <2>7. w \in [Candle -> Nat] /\ w[C] = 1
      BY <2>6, WeighingTypes DEF Is
  <2>8. PICK o, v : o = Outside(w) /\ v = Weight(w, closed)
      OBVIOUS
  <2>9. Outside(w)' = o + v /\ o \in Nat /\ v \in Nat
    <3>1. v \in Nat
      <4>1. \A c \in Candle : w[c] \in Nat
          BY <2>7
      <4>2. QED
          BY <1>5, <2>8, <4>1, WeightNat
    <3>2. QED
        BY <1>5, <2>7, <2>8, <3>1, OutsideNat DEF CandleInv
  <2>10. Outside(w)' = Outside(Is(C))'
      BY <2>6 DEF Is
  <2>11. T \in SUBSET DOMAIN accepted
      BY <2>2, TicksFacts DEF CandleInv
  <2>12. C.symbol = x /\ C.timestamp = start
      BY <2>4 DEF Made
  <2>13. CandleTypeOK
      BY DEF CandleInv
  <2>14. CASE ~(x = s /\ start = st)
    <3>1. T2 = T
        BY <1>1, <1>2, <1>3, <1>8, <2>2, <2>3, <2>13, <2>14, TicksGrow
    <3>2. T # {}
        BY <2>1, <2>3, <3>1
    <3>3. C = Made(accepted, x, start, T)
        BY <1>11, <2>4, <2>11, <3>1, <3>2, MadeSame
    <3>4. C = CandleOf(x, start, TicksOf(x, start, Period))
        BY <2>2, <3>3, CandleOfIsMade
    <3>5. builders[x] = <<C>> \/ (Left(x, start) /\ Outside(Is(C)) >= 1)
        BY <2>2, <2>5, <3>2, <3>4 DEF CandleInv, Kept
    <3>6. CASE Left(x, start) /\ Outside(Is(C)) >= 1
        BY <1>19, <2>6, <2>8, <2>9, <2>10, <3>6
    <3>7. CASE builders[x] = <<C>>
      <4>1. CASE x # s
          BY <1>14, <3>7, <4>1
      <4>2. CASE x = s
        <5>1. start # st /\ b = <<C>>
            BY <1>4, <2>14, <3>7, <4>2
        <5>2. ~same
            BY <1>5, <2>12, <5>1
        <5>3. closed = <<C>>
            BY <1>5, <5>1, <5>2
        <5>4. v = 1
            BY <2>7, <2>8, <5>3, WeightOne
        <5>5. Outside(Is(C))' >= 1
            BY <2>9, <2>10, <5>4
        <5>6. Left(x, start)'
          <6>1. start \in Int /\ st \in Int
              BY <1>7, CandleBounds DEF Times
          <6>2. CASE st > start
            <7>1. n \in DOMAIN accepted' /\ accepted'[n].symbol = x /\ PeriodOf(accepted'[n].timestamp) > start
                BY <1>1, <1>2, <1>12, <4>2, <6>2
            <7>2. QED
                BY <7>1 DEF Left, Newer, PeriodOf
          <6>3. CASE start > st
            <7>1. Newer(x, start)
                BY <1>13, <2>2, <2>5, <3>2, <4>2, <6>3
            <7>2. Left(x, start)
                BY <7>1 DEF Left
            <7>3. QED
                BY <1>19, <7>2
          <6>4. QED
              BY <5>1, <6>1, <6>2, <6>3
        <5>7. QED
            BY <5>5, <5>6
      <4>3. QED
          BY <4>1, <4>2
    <3>8. QED
        BY <3>5, <3>6, <3>7
  <2>15. CASE x = s /\ start = st
    <3>1. T2 = T \cup {n}
        BY <1>1, <1>2, <1>3, <1>8, <2>2, <2>3, <2>13, <2>15, TicksGrow
    <3>2. ~Left(s, st)
        BY <1>8, <1>13, <2>5, <2>15 DEF Left
    <3>3. builders'[x] = <<nb>>
        BY <1>14, <2>15
    <3>4. CASE T = {}
      <4>1. PICK f : f = Counts(s, st)
          OBVIOUS
      <4>2. /\ f \in [Candle -> Nat]
            /\ \A c \in Candle : f[c] = IF c.symbol = s /\ c.timestamp = st THEN c.tickCount ELSE 0
          BY <4>1, WeighingTypes DEF Counts
      <4>3. Outside(f) + Weight(f, b) = 0
        <5>1. Outside(f) + Weight(f, b) = Cardinality(T)
            BY <1>4, <1>6, <1>7, <2>2, <2>15, <4>1 DEF CandleInv, Counted
        <5>2. QED
            BY <3>4, <5>1, FS_EmptySet
      <4>4. Outside(f) \in Nat
          BY <4>2, OutsideNat DEF CandleInv
      <4>5. ~same
        <5>1. SUFFICES ASSUME same PROVE FALSE
            OBVIOUS
        <5>2. PICK c : c = b[1]
            OBVIOUS
        <5>3. b = <<c>> /\ c \in Candle /\ c.symbol = s /\ c.timestamp = st
            BY <1>5, <1>10, <5>1, <5>2
        <5>4. f[c] = c.tickCount /\ c.tickCount \in Nat \ {0}
            BY <4>2, <5>3 DEF Candle
        <5>5. Weight(f, b) = f[c]
            BY <5>3, <5>4, WeightOne
        <5>6. QED
            BY <4>3, <4>4, <5>4, <5>5
      <4>6. nb = [symbol |-> s, timestamp |-> st, open |-> t.last, close |-> t.last,
                  high |-> t.last, low |-> t.last, tickCount |-> 1]
          BY <1>1, <1>2, <1>5, <4>5 DEF NewBuilder
      <4>7. C = Made(accepted', s, st, {n})
          BY <1>8, <2>4, <2>15, <3>1, <3>4
      <4>8. C = [symbol |-> s, timestamp |-> st, open |-> t.last, close |-> t.last,
                 high |-> t.last, low |-> t.last, tickCount |-> 1]
        <5>1. PICK q : q = accepted'
            OBVIOUS
        <5>2. q \in Seq(Tick) /\ n \in DOMAIN q /\ q[n] = t
            BY <1>12, <5>1
        <5>3. C = [symbol |-> s, timestamp |-> st, open |-> q[n].last, close |-> q[n].last,
                   high |-> q[n].last, low |-> q[n].last, tickCount |-> 1]
            BY <4>7, <5>1, <5>2, MadeOne
        <5>4. QED
            BY <5>2, <5>3
      <4>9. QED
          BY <3>3, <4>6, <4>8
    <3>5. CASE T # {}
      <4>1. PICK C0 : C0 = Made(accepted, s, st, T)
          OBVIOUS
      <4>2. C0 \in Candle
          BY <1>6, <1>7, <1>11, <2>11, <3>5, <4>1, MadeType
      <4>3. C0 = CandleOf(s, st, TicksOf(s, st, Period))
          BY <2>2, <2>15, <4>1, CandleOfIsMade
      <4>4. b = <<C0>>
        <5>1. TicksOf(s, st, Period) # {} /\ <<s, st>> \notin late
            BY <2>2, <2>5, <2>15, <3>5
        <5>2. QED
            BY <1>4, <1>6, <1>7, <3>2, <4>2, <4>3, <5>1 DEF CandleInv, Kept
      <4>5. C0.timestamp = st
          BY <4>1 DEF Made
      <4>6. same
          BY <1>5, <4>4, <4>5
      <4>7. nb = Updated(C0, t)
          BY <1>5, <4>4, <4>6
      <4>8. C = Updated(C0, t)
        <5>1. PICK q : q = Append(accepted, t)
            OBVIOUS
        <5>2. /\ q \in Seq(Tick) /\ n \in DOMAIN q /\ q[n] = t /\ T \in SUBSET DOMAIN q
              /\ \A a \in T : a < n
            BY <1>8, <1>12, <2>11, <5>1
        <5>3. Made(q, s, st, T \cup {n}) = Updated(Made(q, s, st, T), q[n])
            BY <3>5, <5>2, MadeUpdated
        <5>4. Made(q, s, st, T) = C0
            BY <1>11, <2>11, <3>5, <4>1, <5>1, MadeSame
        <5>5. C = Made(q, s, st, T \cup {n})
            BY <2>4, <2>15, <3>1, <5>1
        <5>6. QED
            BY <5>2, <5>3, <5>4, <5>5
      <4>9. QED
          BY <3>3, <4>7, <4>8
    <3>6. QED
        BY <3>4, <3>5
  <2>16. QED
      BY <2>14, <2>15
<1>21. QED
    BY <1>15, <1>16, <1>17, <1>18, <1>20 DEF CandleInv

\* Before the first tick there is nothing.
LEMMA CandlesStart == CandleInit => CandleInv
<1>1. SUFFICES ASSUME CandleInit PROVE CandleInv
    OBVIOUS
<1>2. /\ buffer = <<>> /\ saving = <<>> /\ saved = <<>> /\ dropped = <<>> /\ accepted = <<>>
      /\ builders = [s \in Symbols |-> <<>>] /\ \A s \in Symbols : builders[s] = <<>>
    BY <1>1 DEF CandleInit
<1>3. CandleTypeOK
  <2>1. /\ <<>> \in Seq(Candle) /\ <<>> \in Seq(Tick) /\ <<>> \in Seq(Seq(Candle)) /\ Len(<<>>) = 0
        /\ 0 \in 0..MaxTime
      BY CandleBounds
  <2>2. \A s \in Symbols : Len(lastTick[s]) <= 1 /\ Len(builders[s]) <= 1
    <3>1. \A s \in Symbols : lastTick[s] = <<>> /\ builders[s] = <<>>
        BY <1>1 DEF CandleInit
    <3>2. 0 <= 1
        OBVIOUS
    <3>3. QED
        BY <2>1, <3>1, <3>2
  <2>3. lastTick \in [Symbols -> Seq(Tick)] /\ builders \in [Symbols -> Seq(Candle)]
      BY <1>1, <2>1 DEF CandleInit
  <2>4. /\ now \in 0..MaxTime /\ phase = "running" /\ flushed \in Nat /\ late = {}
      BY <1>1, <2>1 DEF CandleInit
  <2>5. QED
      BY <1>2, <2>1, <2>2, <2>3, <2>4 DEF CandleTypeOK
<1>4. Labelled
    BY <1>2 DEF Labelled
<1>5. Ordered
    BY <1>2 DEF Ordered
<1>6. \A s, start : TicksOf(s, start, Period) = {}
    BY <1>2 DEF TicksOf
<1>7. Counted
  <2>1. SUFFICES ASSUME NEW s \in Symbols, NEW start \in Times
                 PROVE  Outside(Counts(s, start)) + Weight(Counts(s, start), builders[s])
                          = Cardinality(TicksOf(s, start, Period))
      BY DEF Counted
  <2>2. PICK w : w = Counts(s, start)
      OBVIOUS
  <2>3. Weight(w, <<>>) = 0 /\ Weight(Shelf(w), <<>>) = 0
      BY WeightEmpty
  <2>4. Outside(w) = 0 /\ Weight(w, builders[s]) = 0
      BY <1>2, <2>3 DEF Outside
  <2>5. Cardinality(TicksOf(s, start, Period)) = 0
      BY <1>6, FS_EmptySet
  <2>6. QED
      BY <2>2, <2>4, <2>5
<1>8. Kept
    BY <1>6 DEF Kept
<1>9. QED
    BY <1>3, <1>4, <1>5, <1>7, <1>8 DEF CandleInv

\* Nothing outside the builders weighs anything else.
LEMMA NothingMoves ==
    ASSUME saved' = saved, dropped' = dropped, buffer' = buffer, saving' = saving
    PROVE  \A w : Outside(w)' = Outside(w)
BY DEF Outside, Shelf

\* A period that is left stays left.
LEMMA SameLeft ==
    ASSUME accepted' = accepted, now' = now, phase' = phase \/ phase' \in {"closing", "closed"}
    PROVE  \A s, start : Left(s, start) => Left(s, start)'
<1>1. PeriodOf(now)' = PeriodOf(now)
    BY DEF PeriodOf
<1>2. \A s, start : Newer(s, start)' <=> Newer(s, start)
    BY SameTicks
<1>3. QED
    BY <1>1, <1>2 DEF Left

\* Every step keeps the invariant, one action after the other.
LEMMA CandlesStep == CandleInv /\ [CandleNext]_candleVars => CandleInv'
<1>1. SUFFICES ASSUME CandleInv, [CandleNext]_candleVars PROVE CandleInv'
    OBVIOUS
<1>2. CandleTypeOK
    BY <1>1 DEF CandleInv
<1>3. CASE \E t \in Tick : Len(accepted) < MaxTicks /\ Receive(t)
    BY <1>1, <1>3, ReceiveKeeps
<1>4. CASE FlushCompletedCandles
  <2>1. Completed \subseteq Building /\ CloseAll(Completed)
      BY <1>4 DEF FlushCompletedCandles, Completed
  <2>2. UNCHANGED <<now, lastTick, saved, dropped, phase, flushed, accepted, late>>
      BY <1>4 DEF FlushCompletedCandles
  <2>3. \A s, start : Left(s, start) => Left(s, start)'
      BY <2>2, SameLeft
  <2>4. \A s \in Completed, start \in Times : start = builders[s][1].timestamp => Left(s, start)'
    <3>1. SUFFICES ASSUME NEW s \in Completed PROVE Left(s, builders[s][1].timestamp)
        BY <2>3
    <3>2. QED
        BY DEF Completed, Left
  <2>5. /\ buffer' \in Seq(Candle) /\ saving' \in Seq(Seq(Candle))
        /\ builders' \in [Symbols -> Seq(Candle)] /\ \A s \in Symbols : Len(builders'[s]) <= 1
        /\ Labelled' /\ Ordered' /\ Counted' /\ Kept'
      BY <1>1, <2>1, <2>2, <2>3, <2>4, SomeClosed
  <2>6. CandleTypeOK'
      BY <1>2, <2>2, <2>5 DEF CandleTypeOK
  <2>7. QED
      BY <2>5, <2>6 DEF CandleInv
<1>5. CASE FlushBuffer
  <2>1. StartBatch
      BY <1>5 DEF FlushBuffer
  <2>2. UNCHANGED <<now, lastTick, builders, saved, dropped, phase, flushed, accepted, late>>
      BY <1>5 DEF FlushBuffer
  <2>3. \A s, start : Left(s, start) => Left(s, start)'
      BY <2>2, SameLeft
  <2>4. /\ buffer' \in Seq(Candle) /\ saving' \in Seq(Seq(Candle))
        /\ \A w \in [Candle -> Nat] : Outside(w)' = Outside(w)
      BY <1>2, <2>1, <2>2, StartBatchWeighs
  <2>5. Labelled' /\ Ordered' /\ Counted' /\ Kept'
      BY <1>1, <2>2, <2>3, <2>4, NothingClosed
  <2>6. CandleTypeOK'
      BY <1>2, <2>2, <2>4 DEF CandleTypeOK
  <2>7. QED
      BY <2>5, <2>6 DEF CandleInv
<1>6. ASSUME NEW i \in DOMAIN saving, Commit(i) \/ Fail(i) PROVE CandleInv'
  <2>1. /\ saving' = RemoveAt(saving, i) /\ Awaited(i)
        /\ UNCHANGED <<now, lastTick, builders, buffer, phase, accepted, late>>
        /\ \/ saved' = saved \o saving[i] /\ dropped' = dropped
           \/ dropped' = dropped \o saving[i] /\ saved' = saved
      BY <1>6 DEF Commit, Fail
  <2>2. \A s, start : Left(s, start) => Left(s, start)'
      BY <2>1, SameLeft
  <2>3. /\ saved' \in Seq(Candle) /\ dropped' \in Seq(Candle) /\ saving' \in Seq(Seq(Candle))
        /\ \A w \in [Candle -> Nat] : Outside(w)' = Outside(w)
      BY <1>2, <2>1, EndBatchWeighs
  <2>4. Labelled' /\ Ordered' /\ Counted' /\ Kept'
      BY <1>1, <2>1, <2>2, <2>3, NothingClosed
  <2>5. flushed' \in Nat
    <3>1. flushed \in Nat
        BY <1>2 DEF CandleTypeOK
    <3>2. i \in Nat
      <4>1. saving \in Seq(Seq(Candle))
          BY <1>2 DEF CandleTypeOK
      <4>2. DOMAIN saving = 1..Len(saving)
          BY <4>1
      <4>3. QED
          BY <4>1, <4>2
    <3>3. flushed > i => flushed - 1 \in Nat
        BY <3>1, <3>2
    <3>4. QED
        BY <2>1, <3>1, <3>3 DEF Awaited
  <2>6. CandleTypeOK'
      BY <1>2, <2>1, <2>3, <2>5 DEF CandleTypeOK
  <2>7. QED
      BY <2>4, <2>6 DEF CandleInv
<1>7. CASE StopService
  <2>1. StartBatch /\ phase = "running" /\ phase' = "stopping"
      BY <1>7 DEF StopService
  <2>2. UNCHANGED <<now, lastTick, builders, saved, dropped, accepted, late>>
      BY <1>7 DEF StopService
  <2>3. \A s, start : Left(s, start) => Left(s, start)'
    <3>1. PeriodOf(now)' = PeriodOf(now)
        BY <2>2 DEF PeriodOf
    <3>2. \A s, start : Newer(s, start)' <=> Newer(s, start)
        BY <2>2, SameTicks
    <3>3. QED
        BY <2>1, <3>1, <3>2 DEF Left
  <2>4. /\ buffer' \in Seq(Candle) /\ saving' \in Seq(Seq(Candle))
        /\ \A w \in [Candle -> Nat] : Outside(w)' = Outside(w)
      BY <1>2, <2>1, <2>2, StartBatchWeighs
  <2>5. Labelled' /\ Ordered' /\ Counted' /\ Kept'
      BY <1>1, <2>2, <2>3, <2>4, NothingClosed
  <2>6. flushed' \in Nat
    <3>1. Len(saving) \in Nat
        BY <1>2 DEF CandleTypeOK
    <3>2. QED
        BY <1>7, <3>1 DEF StopService
  <2>7. CandleTypeOK'
      BY <1>2, <2>1, <2>2, <2>4, <2>6 DEF CandleTypeOK
  <2>8. QED
      BY <2>5, <2>7 DEF CandleInv
<1>8. CASE StopAggregator
  <2>1. CloseAll(Building) /\ phase' = "closing"
      BY <1>8 DEF StopAggregator
  <2>2. UNCHANGED <<now, lastTick, saved, dropped, flushed, accepted, late>>
      BY <1>8 DEF StopAggregator
  <2>3. \A s, start : Left(s, start) => Left(s, start)'
      BY <2>1, <2>2, SameLeft
  <2>4. \A s \in Building, start \in Times : start = builders[s][1].timestamp => Left(s, start)'
      BY <2>1 DEF Left
  <2>5. /\ buffer' \in Seq(Candle) /\ saving' \in Seq(Seq(Candle))
        /\ builders' \in [Symbols -> Seq(Candle)] /\ \A s \in Symbols : Len(builders'[s]) <= 1
        /\ Labelled' /\ Ordered' /\ Counted' /\ Kept'
    <3>1. Building \subseteq Building
        OBVIOUS
    <3>2. QED
        BY <1>1, <2>1, <2>2, <2>3, <2>4, <3>1, SomeClosed
  <2>6. CandleTypeOK'
      BY <1>2, <2>1, <2>2, <2>5 DEF CandleTypeOK
  <2>7. QED
      BY <2>5, <2>6 DEF CandleInv
<1>9. CASE CloseDatabase
  <2>1. phase' = "closed"
      BY <1>9 DEF CloseDatabase
  <2>2. UNCHANGED <<now, lastTick, builders, buffer, saving, saved, dropped, flushed, accepted, late>>
      BY <1>9 DEF CloseDatabase
  <2>3. \A s, start : Left(s, start) => Left(s, start)'
      BY <2>1, <2>2, SameLeft
  <2>4. \A w : Outside(w)' = Outside(w)
      BY <2>2, NothingMoves
  <2>5. Labelled' /\ Ordered' /\ Counted' /\ Kept'
      BY <1>1, <2>2, <2>3, <2>4, NothingClosed
  <2>6. CandleTypeOK'
      BY <1>2, <2>1, <2>2 DEF CandleTypeOK
  <2>7. QED
      BY <2>5, <2>6 DEF CandleInv
<1>10. CASE Advance
  <2>1. now < MaxTime /\ now' = now + 1
      BY <1>10 DEF Advance
  <2>2. UNCHANGED <<lastTick, builders, buffer, saving, saved, dropped, phase, flushed, accepted, late>>
      BY <1>10 DEF Advance
  <2>3. now \in Nat /\ now' \in 0..MaxTime
      BY <1>2, <2>1, CandleBounds DEF CandleTypeOK
  <2>4. \A s : \A start \in Times : Left(s, start) => Left(s, start)'
    <3>1. SUFFICES ASSUME NEW s, NEW start \in Times, Left(s, start) PROVE Left(s, start)'
        OBVIOUS
    <3>2. \A x, y : Newer(x, y)' <=> Newer(x, y)
        BY <2>2, SameTicks
    <3>3. PICK a, b : a = now /\ b = now'
        OBVIOUS
    <3>4. CandleStart(a, Period) <= CandleStart(b, Period) /\ CandleStart(a, Period) \in Nat /\ CandleStart(b, Period) \in Nat
      <4>1. a \in Nat /\ b \in Nat /\ a <= b /\ Period \in Nat \ {0}
          BY <2>1, <2>3, <3>3, CandleBounds
      <4>2. QED
          BY <4>1, StartMonotonic, StartBounds
    <3>5. start \in Int
        BY CandleBounds DEF Times
    <3>6. start < PeriodOf(now) => start < PeriodOf(now)'
        BY <3>3, <3>4, <3>5 DEF PeriodOf
    <3>7. QED
        BY <2>2, <3>1, <3>2, <3>6 DEF Left
  <2>5. \A w : Outside(w)' = Outside(w)
      BY <2>2, NothingMoves
  <2>6. Labelled' /\ Ordered' /\ Counted' /\ Kept'
      BY <1>1, <2>2, <2>4, <2>5, NothingClosed
  <2>7. CandleTypeOK'
      BY <1>2, <2>2, <2>3 DEF CandleTypeOK
  <2>8. QED
      BY <2>6, <2>7 DEF CandleInv
<1>11. CASE UNCHANGED candleVars
  <2>1. /\ UNCHANGED <<now, lastTick, builders, buffer, saving, saved, dropped>>
        /\ UNCHANGED <<phase, flushed, accepted, late>>
      BY <1>11 DEF candleVars
  <2>2. \A s, start : Left(s, start) => Left(s, start)'
      BY <2>1, SameLeft
  <2>3. \A w : Outside(w)' = Outside(w)
      BY <2>1, NothingMoves
  <2>4. Labelled' /\ Ordered' /\ Counted' /\ Kept'
      BY <1>1, <2>1, <2>2, <2>3, NothingClosed
  <2>5. CandleTypeOK'
      BY <1>2, <2>1 DEF CandleTypeOK
  <2>6. QED
      BY <2>4, <2>5 DEF CandleInv
<1>12. QED
    BY <1>1, <1>3, <1>4, <1>5, <1>6, <1>7, <1>8, <1>9, <1>10, <1>11 DEF CandleNext

\* The inductive invariant of the candles.
THEOREM CandlesInductive == CandleSpec => []CandleInv
<1>1. QED
    BY CandlesStart, CandlesStep, PTL DEF CandleSpec

\* Clock, candles, batches and ticks have their types in every reachable state.
THEOREM CandleTypeCorrect == CandleSpec => []CandleTypeOK
<1>1. CandleInv => CandleTypeOK
    BY DEF CandleInv
<1>2. QED
    BY <1>1, CandlesInductive, PTL

-----------------------------------------------------------------------------
(* The places of candles                                                    *)

\* The places in the first k of some sequences.
PlacesIn(Q, k) == UNION {{h} \X DOMAIN Q[h] : h \in 1..k}

\* What one of the sequences weighs, place by place.
LEMMA WeightOfRow ==
    ASSUME NEW q, IsFiniteSet(DOMAIN q), NEW k, NEW w, NEW H,
           \A i \in DOMAIN q : H[<<k, i>>] = w[q[i]] /\ w[q[i]] \in Int
    PROVE  IsFiniteSet({k} \X DOMAIN q) /\ SumFunctionOnSet(H, {k} \X DOMAIN q) = Weight(w, q)
<1>1. PICK S : S = DOMAIN q
    OBVIOUS
<1>2. PICK m : m = [i \in S |-> <<k, i>>]
    OBVIOUS
<1>3. PICK N : N = [i \in S |-> w[q[i]]]
    OBVIOUS
<1>4. IsFiniteSet(S)
    BY <1>1
<1>5. \A i \in S : N[i] \in Int /\ N[i] = H[m[i]]
    BY <1>1, <1>2, <1>3
<1>6. \A i, j \in S : m[i] = m[j] => i = j
    BY <1>2
<1>7. SumFunctionOnSet(N, S) = SumFunctionOnSet(H, {m[i] : i \in S})
    BY <1>4, <1>5, <1>6, SumRenamed
<1>8. PICK B : B = {m[i] : i \in S}
    OBVIOUS
<1>9. B = {k} \X DOMAIN q
    BY <1>1, <1>2, <1>8
<1>10. IsFiniteSet(B)
  <2>1. m \in Surjection(S, B)
      BY <1>2, <1>8 DEF Surjection
  <2>2. QED
      BY <1>4, <2>1, FS_Surjection
<1>11. SumFunctionOnSet(N, S) = Weight(w, q)
    BY <1>1, <1>3 DEF Weight
<1>12. QED
    BY <1>7, <1>8, <1>9, <1>10, <1>11

\* What the elements of sequences weigh, place by place or sequence by sequence.
ByPlace(Q, f) == [p \in PlacesIn(Q, Len(Q)) |-> f[Q[p[1]][p[2]]]]
ByShelf(D, f) == [q \in Seq(D) |-> Weight(f, q)]

\* Sequences of sequences weigh the same row by row and place by place.
LEMMA WeightByPlace ==
    ASSUME NEW D, NEW Q \in Seq(Seq(D)), NEW f \in [D -> Nat],
           NEW g, g = ByShelf(D, f), NEW F, F = ByPlace(Q, f)
    PROVE  /\ IsFiniteSet(PlacesIn(Q, Len(Q)))
           /\ \A p \in PlacesIn(Q, Len(Q)) : F[p] \in Nat
           /\ SumFunctionOnSet(F, PlacesIn(Q, Len(Q))) = Weight(g, Q)
<1>1. PICK n : n = Len(Q)
    OBVIOUS
<1>2. DOMAIN Q = 1..n /\ n \in Nat /\ \A h \in 1..n : Q[h] \in Seq(D)
    BY <1>1
<1>3. PICK G : G = [h \in DOMAIN Q |-> g[Q[h]]]
    OBVIOUS
<1>13. (\A x \in D : f[x] \in Nat) /\ \A q \in Seq(D) : g[q] = Weight(f, q)
    BY DEF ByShelf
<1>14. \A h \in DOMAIN Q : \A i \in DOMAIN Q[h] : F[<<h, i>>] = f[Q[h][i]]
  <2>1. SUFFICES ASSUME NEW h \in DOMAIN Q, NEW i \in DOMAIN Q[h] PROVE F[<<h, i>>] = f[Q[h][i]]
      OBVIOUS
  <2>2. <<h, i>> \in PlacesIn(Q, Len(Q))
      BY <1>1, <1>2 DEF PlacesIn
  <2>3. QED
      BY <2>2 DEF ByPlace
<1>4. Weight(g, Q) = SumFunctionOnSet(G, 1..n)
    BY <1>2, <1>3 DEF Weight
<1>5. \A h \in 1..n : G[h] = Weight(f, Q[h]) /\ G[h] \in Nat
    BY <1>2, <1>3, <1>13, WeightNat
<1>6. \A p \in PlacesIn(Q, n) : F[p] \in Nat
  <2>1. SUFFICES ASSUME NEW p \in PlacesIn(Q, n) PROVE F[p] \in Nat
      OBVIOUS
  <2>6. PICK h \in 1..n : p \in {h} \X DOMAIN Q[h]
      BY DEF PlacesIn
  <2>7. PICK i \in DOMAIN Q[h] : p = <<h, i>>
      BY <2>6
  <2>2. Q[h] \in Seq(D)
      BY <1>2
  <2>3. Q[h][i] \in D
      BY <2>2
  <2>4. F[<<h, i>>] = f[Q[h][i]]
      BY <1>2, <1>14
  <2>5. QED
      BY <1>13, <2>3, <2>4, <2>7
<1>7. PICK P : P = {k \in 0..n : /\ IsFiniteSet(PlacesIn(Q, k))
                                 /\ SumFunctionOnSet(F, PlacesIn(Q, k)) = SumFunctionOnSet(G, 1..k)}
    OBVIOUS
<1>8. 0 \in P
  <2>1. PlacesIn(Q, 0) = {} /\ 1..0 = {}
      BY DEF PlacesIn
  <2>2. SumFunctionOnSet(F, {}) = 0 /\ SumFunctionOnSet(G, {}) = 0 /\ IsFiniteSet({})
      BY SumEmpty, FS_EmptySet
  <2>3. IsFiniteSet(PlacesIn(Q, 0)) /\ SumFunctionOnSet(F, PlacesIn(Q, 0)) = SumFunctionOnSet(G, 1..0)
      BY <2>1, <2>2
  <2>4. 0 \in 0..n
      BY <1>2
  <2>5. QED
      BY <1>7, <2>3, <2>4
<1>9. ASSUME NEW k \in 1..n, k - 1 \in P PROVE k \in P
  <2>1. PICK A : A = PlacesIn(Q, k - 1)
      OBVIOUS
  <2>2. PICK q : q = Q[k]
      OBVIOUS
  <2>3. q \in Seq(D) /\ IsFiniteSet(DOMAIN q) /\ \A i \in DOMAIN q : q[i] \in D
    <3>1. q \in Seq(D)
        BY <1>2, <2>2
    <3>2. QED
        BY <3>1, FiniteDomain
  <2>5. PICK B : B = {k} \X DOMAIN q
      OBVIOUS
  <2>6. k \in Int /\ 1..k = 1..(k - 1) \cup {k} /\ k \notin 1..(k - 1) /\ \A h \in 1..(k - 1) : h \in 1..n /\ h # k
      BY <1>2
  <2>8. PlacesIn(Q, k) = A \cup B
      BY <2>1, <2>2, <2>6, <2>5 DEF PlacesIn
  <2>9. A \cap B = {}
      BY <2>1, <2>6, <2>5 DEF PlacesIn
  <2>10. IsFiniteSet(A) /\ SumFunctionOnSet(F, A) = SumFunctionOnSet(G, 1..(k - 1))
      BY <1>7, <1>9, <2>1
  <2>12. IsFiniteSet(B) /\ SumFunctionOnSet(F, B) = Weight(f, q)
    <3>1. \A i \in DOMAIN q : F[<<k, i>>] = f[q[i]] /\ f[q[i]] \in Int
      <4>1. SUFFICES ASSUME NEW i \in DOMAIN q PROVE F[<<k, i>>] = f[q[i]] /\ f[q[i]] \in Int
          OBVIOUS
      <4>2. f[q[i]] \in Nat
          BY <1>13, <2>3
      <4>3. F[<<k, i>>] = f[q[i]]
          BY <1>2, <1>14, <2>2
      <4>4. QED
          BY <4>2, <4>3
    <3>2. QED
        BY <2>3, <2>5, <3>1, WeightOfRow
  <2>14. \A p \in A \cup B : F[p] \in Int
    <3>1. A \cup B \subseteq PlacesIn(Q, n)
      <4>1. \A h \in 1..k : h \in 1..n
          BY <1>2
      <4>2. QED
          BY <2>8, <4>1 DEF PlacesIn
    <3>2. QED
        BY <1>6, <3>1
  <2>15. SumFunctionOnSet(F, A \cup B) = SumFunctionOnSet(F, A) + SumFunctionOnSet(F, B)
      BY <2>9, <2>10, <2>12, <2>14, SumSplits
  <2>16. SumFunctionOnSet(G, 1..k) = G[k] + SumFunctionOnSet(G, 1..(k - 1))
    <3>1. PICK I : I = 1..(k - 1)
        OBVIOUS
    <3>2. IsFiniteSet(I)
      <4>1. k - 1 \in Int /\ 1 \in Int
          BY <2>6
      <4>2. QED
          BY <3>1, <4>1, FS_Interval
    <3>3. \A h \in I : G[h] \in Int
        BY <1>5, <2>6, <3>1
    <3>4. k \notin I /\ G[k] \in Int
        BY <1>5, <2>6, <3>1
    <3>5. SumFunctionOnSet(G, I \cup {k}) = G[k] + SumFunctionOnSet(G, I)
        BY <3>2, <3>3, <3>4, SumAddsElement
    <3>6. QED
        BY <2>6, <3>1, <3>5
  <2>17. G[k] = Weight(f, q)
      BY <1>5, <2>2
  <2>18. IsFiniteSet(A \cup B)
      BY <2>10, <2>12, FS_Union
  <2>19. SumFunctionOnSet(F, A) \in Int /\ SumFunctionOnSet(F, B) \in Int
      BY <2>10, <2>12, <2>14, SumInt
  <2>20. SumFunctionOnSet(F, A \cup B) = SumFunctionOnSet(G, 1..k)
      BY <2>10, <2>12, <2>15, <2>16, <2>17, <2>19
  <2>21. IsFiniteSet(PlacesIn(Q, k)) /\ SumFunctionOnSet(F, PlacesIn(Q, k)) = SumFunctionOnSet(G, 1..k)
      BY <2>8, <2>18, <2>20
  <2>22. k \in 0..n
      BY <1>2
  <2>23. QED
      BY <1>7, <2>21, <2>22
<1>10. \A k \in 0..n : k \in P
    BY <1>2, <1>8, <1>9, NumbersInduct
<1>11. n \in P
    BY <1>2, <1>10
<1>12. QED
    BY <1>1, <1>4, <1>6, <1>7, <1>11

\* All places of candles that a symbol's may be at.
AllPlaces(s) == PlacesIn(Shelves(s), Len(Shelves(s)))

\* The shelves hold candles, and together they weigh what is outside and being built.
LEMMA ShelvesType ==
    ASSUME CandleTypeOK, NEW s \in Symbols
    PROVE  /\ Shelves(s) \in Seq(Seq(Candle)) /\ Shelves(s)[1] = saved /\ 1 \in DOMAIN Shelves(s)
           /\ \A w \in [Candle -> Nat] : Weight(Shelf(w), Shelves(s)) = Outside(w) + Weight(w, builders[s])
           /\ \A p \in AllPlaces(s) : /\ p[1] \in DOMAIN Shelves(s) /\ p[2] \in DOMAIN Shelves(s)[p[1]]
                                     /\ p = <<p[1], p[2]>> /\ CandleAt(s, p) \in Candle
           /\ \A start : Places(s, start) = {p \in AllPlaces(s) : CandleAt(s, p).symbol = s /\ CandleAt(s, p).timestamp = start}
<1>1. PICK b : b = builders[s]
    OBVIOUS
<1>2. saved \in Seq(Candle) /\ dropped \in Seq(Candle) /\ buffer \in Seq(Candle) /\ b \in Seq(Candle) /\ saving \in Seq(Seq(Candle))
    BY <1>1 DEF CandleTypeOK
<1>3. PICK SC : SC = Seq(Candle)
    OBVIOUS
<1>4. PICK h : h = <<saved, dropped, buffer, b>>
    OBVIOUS
<1>5. saved \in SC /\ dropped \in SC /\ buffer \in SC /\ b \in SC /\ saving \in Seq(SC)
    BY <1>2, <1>3
<1>6. h \in Seq(SC) /\ Len(h) = 4 /\ h[1] = saved
    BY <1>4, <1>5
<1>7. Shelves(s) = h \o saving
    BY <1>1, <1>4 DEF Shelves
<1>8. Shelves(s) \in Seq(SC) /\ Shelves(s)[1] = saved /\ 1 \in DOMAIN Shelves(s)
  <2>1. PICK k : k = Len(saving)
      OBVIOUS
  <2>2. k \in Nat
      BY <1>5, <2>1
  <2>3. h \o saving \in Seq(SC) /\ Len(h \o saving) = 4 + k
    <3>1. h \o saving \in Seq(SC) /\ Len(h \o saving) = Len(h) + Len(saving)
        BY <1>5, <1>6, ConcatProperties
    <3>2. QED
        BY <1>6, <2>1, <3>1
  <2>4. (h \o saving)[1] = h[1]
    <3>1. 1 \in 1..(Len(h) + Len(saving)) /\ 1 <= Len(h)
        BY <1>6, <2>1, <2>2
    <3>2. QED
        BY <1>5, <1>6, <3>1, ConcatProperties
  <2>5. 1 \in DOMAIN (h \o saving)
      BY <2>2, <2>3
  <2>6. QED
      BY <1>6, <1>7, <2>3, <2>4, <2>5
<1>9. ASSUME NEW w \in [Candle -> Nat]
      PROVE  Weight(Shelf(w), Shelves(s)) = Outside(w) + Weight(w, builders[s])
  <2>1. PICK g : g = Shelf(w)
      OBVIOUS
  <2>2. \A q \in SC : g[q] \in Nat /\ g[q] = Weight(w, q)
      BY <1>3, <2>1, ShelfType
  <2>3. PICK h1, h2, h3 : h1 = <<saved>> /\ h2 = Append(h1, dropped) /\ h3 = Append(h2, buffer)
      OBVIOUS
  <2>4. h1 \in Seq(SC) /\ h2 \in Seq(SC) /\ h3 \in Seq(SC)
      BY <1>5, <2>3
  <2>5. h = Append(h3, b)
      BY <1>4, <2>3
  <2>6. Weight(g, h1) = g[saved]
      BY <1>5, <2>2, <2>3, WeightOne
  <2>17. \A q \in SC : g[q] \in Nat
      BY <2>2
  <2>18. Weight(g, Append(h1, dropped)) = Weight(g, h1) + g[dropped]
      BY <1>5, <2>4, <2>17, WeightAppend
  <2>19. Weight(g, Append(h2, buffer)) = Weight(g, h2) + g[buffer]
      BY <1>5, <2>4, <2>17, WeightAppend
  <2>7. Weight(g, h2) = Weight(g, h1) + g[dropped]
      BY <2>3, <2>18
  <2>8. Weight(g, h3) = Weight(g, h2) + g[buffer]
      BY <2>3, <2>19
  <2>9. Weight(g, h) = Weight(g, h3) + g[b]
      BY <1>5, <2>2, <2>4, <2>5, WeightAppend
  <2>10. Weight(g, h \o saving) = Weight(g, h) + Weight(g, saving)
      BY <1>5, <1>6, <2>2, WeightConcat
  <2>11. /\ g[saved] \in Nat /\ g[dropped] \in Nat /\ g[buffer] \in Nat /\ g[b] \in Nat
         /\ g[saved] = Weight(w, saved) /\ g[dropped] = Weight(w, dropped) /\ g[buffer] = Weight(w, buffer)
         /\ g[b] = Weight(w, b)
      BY <1>5, <2>2
  <2>12. Weight(g, saving) \in Nat
      BY <1>5, <2>2, WeightNat
  <2>13. PICK a1, a2, a3, a4, a5 : /\ a1 = g[saved] /\ a2 = g[dropped] /\ a3 = g[buffer] /\ a4 = g[b]
                                   /\ a5 = Weight(g, saving)
      OBVIOUS
  <2>14. Weight(g, h \o saving) = (((a1 + a2) + a3) + a4) + a5
      BY <2>6, <2>7, <2>8, <2>9, <2>10, <2>13
  <2>15. Outside(w) + Weight(w, b) = (((a1 + a2) + a3) + a5) + a4
      BY <2>1, <2>11, <2>13 DEF Outside
  <2>20. a1 \in Nat /\ a2 \in Nat /\ a3 \in Nat /\ a4 \in Nat /\ a5 \in Nat
      BY <2>11, <2>12, <2>13
  <2>21. (((a1 + a2) + a3) + a4) + a5 = (((a1 + a2) + a3) + a5) + a4
      BY <2>20
  <2>22. Weight(g, h \o saving) = Outside(w) + Weight(w, b)
      BY <2>14, <2>15, <2>21
  <2>23. QED
      BY <1>1, <1>7, <2>1, <2>22
<1>10. ASSUME NEW p \in AllPlaces(s)
       PROVE  /\ p[1] \in DOMAIN Shelves(s) /\ p[2] \in DOMAIN Shelves(s)[p[1]]
              /\ p = <<p[1], p[2]>> /\ CandleAt(s, p) \in Candle
  <2>1. PICK Q : Q = Shelves(s)
      OBVIOUS
  <2>2. PICK x \in 1..Len(Q) : p \in {x} \X DOMAIN Q[x]
      BY <2>1 DEF AllPlaces, PlacesIn
  <2>3. p[1] = x /\ p[2] \in DOMAIN Q[x] /\ p = <<p[1], p[2]>>
      BY <2>2
  <2>4. x \in DOMAIN Q /\ Q[x] \in Seq(Candle)
      BY <1>3, <1>8, <2>1, <2>2
  <2>5. Q[x][p[2]] \in Candle
      BY <2>3, <2>4
  <2>6. QED
      BY <2>1, <2>3, <2>4, <2>5 DEF CandleAt
<1>11. ASSUME NEW start
       PROVE  Places(s, start) = {p \in AllPlaces(s) : CandleAt(s, p).symbol = s /\ CandleAt(s, p).timestamp = start}
  <2>1. DOMAIN Shelves(s) = 1..Len(Shelves(s))
      BY <1>8
  <2>2. QED
      BY <2>1 DEF Places, AllPlaces, PlacesIn
<1>12. QED
    BY <1>3, <1>8, <1>9, <1>10, <1>11

\* What the candles of a symbol weigh, place by place.
LEMMA SumOverPlaces ==
    ASSUME CandleTypeOK, NEW s \in Symbols, NEW w \in [Candle -> Nat],
           NEW F, F = ByPlace(Shelves(s), w)
    PROVE  /\ IsFiniteSet(AllPlaces(s)) /\ \A p \in AllPlaces(s) : F[p] \in Nat /\ F[p] = w[CandleAt(s, p)]
           /\ SumFunctionOnSet(F, AllPlaces(s)) = Outside(w) + Weight(w, builders[s])
<1>1. PICK Q : Q = Shelves(s)
    OBVIOUS
<1>2. Q \in Seq(Seq(Candle)) /\ Weight(Shelf(w), Q) = Outside(w) + Weight(w, builders[s])
    BY <1>1, ShelvesType
<1>3. Shelf(w) = ByShelf(Candle, w)
    BY DEF Shelf, ByShelf
<1>4. F = ByPlace(Q, w)
    BY <1>1
<1>5. /\ IsFiniteSet(PlacesIn(Q, Len(Q)))
      /\ \A p \in PlacesIn(Q, Len(Q)) : F[p] \in Nat
      /\ SumFunctionOnSet(F, PlacesIn(Q, Len(Q))) = Weight(Shelf(w), Q)
    BY <1>2, <1>3, <1>4, WeightByPlace
<1>6. \A p \in AllPlaces(s) : F[p] = w[CandleAt(s, p)]
    BY DEF ByPlace, AllPlaces, CandleAt
<1>7. QED
    BY <1>1, <1>2, <1>5, <1>6 DEF AllPlaces

\* The start of a period is a time.
LEMMA StartsAreTimes == \A start \in Starts(Period) : start \in Times
<1>1. SUFFICES ASSUME NEW t \in Times PROVE CandleStart(t, Period) \in Times
    BY DEF Starts
<1>2. QED
    BY PeriodType DEF PeriodOf

\* The candles of a period count what they weigh.
LEMMA CandlesOfPeriod ==
    ASSUME CandleTypeOK, NEW s \in Symbols, NEW start,
           NEW G, G = [p \in Places(s, start) |-> CandleAt(s, p).tickCount]
    PROVE  /\ IsFiniteSet(Places(s, start)) /\ \A p \in Places(s, start) : G[p] \in Nat \ {0}
           /\ SumFunctionOnSet(G, Places(s, start))
                = Outside(Counts(s, start)) + Weight(Counts(s, start), builders[s])
<1>1. PICK A, P, w : A = AllPlaces(s) /\ P = Places(s, start) /\ w = Counts(s, start)
    OBVIOUS
<1>2. P \in SUBSET A /\ \A p \in A : p \in P <=> CandleAt(s, p).symbol = s /\ CandleAt(s, p).timestamp = start
    BY <1>1, ShelvesType
<1>3. \A p \in A : CandleAt(s, p) \in Candle
    BY <1>1, ShelvesType
<1>4. /\ w \in [Candle -> Nat]
      /\ \A c \in Candle : w[c] = IF c.symbol = s /\ c.timestamp = start THEN c.tickCount ELSE 0
    BY <1>1, WeighingTypes DEF Counts
<1>5. PICK F : F = ByPlace(Shelves(s), w)
    OBVIOUS
<1>6. /\ IsFiniteSet(A) /\ \A p \in A : F[p] \in Nat /\ F[p] = w[CandleAt(s, p)]
      /\ SumFunctionOnSet(F, A) = Outside(w) + Weight(w, builders[s])
    BY <1>1, <1>4, <1>5, SumOverPlaces
<1>7. PICK R : R = A \ P
    OBVIOUS
<1>8. IsFiniteSet(P) /\ IsFiniteSet(R) /\ P \cap R = {} /\ A = P \cup R
  <2>1. R \in SUBSET A
      BY <1>7
  <2>2. IsFiniteSet(P) /\ IsFiniteSet(R)
      BY <1>2, <1>6, <2>1, FS_Subset
  <2>3. QED
      BY <1>2, <1>7, <2>2
<1>9. \A p \in R : F[p] = 0
    BY <1>2, <1>3, <1>4, <1>6, <1>7
<1>10. \A p \in P : F[p] = G[p] /\ G[p] \in Nat \ {0}
  <2>1. SUFFICES ASSUME NEW p \in P PROVE F[p] = G[p] /\ G[p] \in Nat \ {0}
      OBVIOUS
  <2>2. G[p] = CandleAt(s, p).tickCount
      BY <1>1
  <2>3. CandleAt(s, p) \in Candle /\ CandleAt(s, p).symbol = s /\ CandleAt(s, p).timestamp = start
      BY <1>2, <1>3
  <2>4. F[p] = CandleAt(s, p).tickCount
      BY <1>2, <1>4, <1>6, <2>3
  <2>5. CandleAt(s, p).tickCount \in Nat \ {0}
      BY <2>3 DEF Candle
  <2>6. QED
      BY <2>2, <2>4, <2>5
<1>11. SumFunctionOnSet(F, P) = SumFunctionOnSet(G, P)
  <2>1. \A p \in P : F[p] \in Int /\ F[p] = G[p]
      BY <1>10
  <2>2. QED
      BY <1>8, <2>1, SumSame
<1>12. SumFunctionOnSet(F, R) = 0
    BY <1>8, <1>9, SumZero
<1>13. SumFunctionOnSet(F, P \cup R) = SumFunctionOnSet(F, P) + SumFunctionOnSet(F, R)
  <2>1. \A p \in P \cup R : F[p] \in Int
      BY <1>6, <1>8
  <2>2. QED
      BY <1>8, <2>1, SumSplits
<1>14. SumFunctionOnSet(G, P) \in Nat
  <2>1. \A p \in P : G[p] \in Nat
      BY <1>10
  <2>2. QED
      BY <1>8, <2>1, SumNat
<1>15. SumFunctionOnSet(G, P) = Outside(w) + Weight(w, builders[s])
    BY <1>6, <1>8, <1>11, <1>12, <1>13, <1>14
<1>16. QED
    BY <1>1, <1>8, <1>10, <1>15

\* The conserved weight is the sum over the places.
LEMMA CountedAreCounted == CandleInv => EveryTickCounted
<1>1. SUFFICES ASSUME CandleInv, NEW s \in Symbols, NEW start \in Starts(Period)
               PROVE  SumFunctionOnSet([p \in Places(s, start) |-> CandleAt(s, p).tickCount], Places(s, start))
                        = Cardinality(TicksOf(s, start, Period))
    BY DEF EveryTickCounted
<1>2. PICK G : G = [p \in Places(s, start) |-> CandleAt(s, p).tickCount]
    OBVIOUS
<1>3. SumFunctionOnSet(G, Places(s, start)) = Outside(Counts(s, start)) + Weight(Counts(s, start), builders[s])
    BY <1>1, <1>2, CandlesOfPeriod DEF CandleInv
<1>4. start \in Times
    BY StartsAreTimes
<1>5. Outside(Counts(s, start)) + Weight(Counts(s, start), builders[s]) = Cardinality(TicksOf(s, start, Period))
    BY <1>1, <1>4 DEF CandleInv, Counted
<1>6. QED
    BY <1>2, <1>3, <1>5

\* No tick is lost or counted twice between processTick and the database.
THEOREM TicksAreCounted == CandleSpec => []EveryTickCounted
<1>1. QED
    BY CountedAreCounted, CandlesInductive, PTL

\* Some place holds the candle of a period, and no other place one of that period.
LEMMA OnePlace ==
    ASSUME CandleInv, NEW s \in Symbols, NEW start \in Times, NEW T, T = TicksOf(s, start, Period),
           T # {}, <<s, start>> \notin late, NEW C, C = CandleOf(s, start, T)
    PROVE  C \in Candle /\ \E p \in Places(s, start) : Places(s, start) = {p} /\ CandleAt(s, p) = C
<1>1. CandleTypeOK
    BY DEF CandleInv
<1>2. T \in SUBSET DOMAIN accepted /\ accepted \in Seq(Tick) /\ Cardinality(T) \in Nat
    BY <1>1, TicksFacts DEF CandleTypeOK
<1>3. C = Made(accepted, s, start, T)
    BY CandleOfIsMade
<1>4. C \in Candle
    BY <1>2, <1>3, MadeType
<1>5. C.symbol = s /\ C.timestamp = start /\ C.tickCount = Cardinality(T)
    BY <1>3 DEF Made
<1>6. PICK w : w = Is(C)
    OBVIOUS
<1>7. w \in [Candle -> Nat] /\ w[C] = 1 /\ \A c \in Candle : c # C => w[c] = 0
    BY <1>4, <1>6, WeighingTypes DEF Is
<1>8. PICK F, A : F = ByPlace(Shelves(s), w) /\ A = AllPlaces(s)
    OBVIOUS
<1>9. /\ IsFiniteSet(A) /\ \A p \in A : F[p] = w[CandleAt(s, p)]
      /\ SumFunctionOnSet(F, A) = Outside(w) + Weight(w, builders[s])
    BY <1>1, <1>7, <1>8, SumOverPlaces
<1>10. Outside(w) \in Nat /\ Weight(w, builders[s]) \in Nat
    BY <1>1, <1>7, OutsideNat
<1>11. builders[s] = <<C>> \/ Outside(w) >= 1
    BY <1>4, <1>6 DEF CandleInv, Kept
<1>12. SumFunctionOnSet(F, A) # 0
  <2>1. CASE builders[s] = <<C>>
    <3>1. Weight(w, <<C>>) = w[C]
        BY <1>7, WeightOne
    <3>2. QED
        BY <1>7, <1>9, <1>10, <2>1, <3>1
  <2>2. CASE Outside(w) >= 1
      BY <1>9, <1>10, <2>2
  <2>3. QED
      BY <1>11, <2>1, <2>2
<1>13. \A p \in A : CandleAt(s, p) \in Candle
    BY <1>1, <1>8, ShelvesType
<1>14. PICK p \in A : CandleAt(s, p) = C
  <2>1. SUFFICES ASSUME \A p \in A : CandleAt(s, p) # C PROVE FALSE
      OBVIOUS
  <2>2. \A p \in A : F[p] = 0
      BY <1>7, <1>9, <1>13, <2>1
  <2>3. QED
      BY <1>9, <1>12, <2>2, SumZero
<1>15. PICK P : P = Places(s, start)
    OBVIOUS
<1>16. p \in P
    BY <1>1, <1>5, <1>8, <1>14, <1>15, ShelvesType
<1>17. PICK G : G = [x \in P |-> CandleAt(s, x).tickCount]
    OBVIOUS
<1>18. /\ IsFiniteSet(P) /\ \A x \in P : G[x] \in Nat \ {0}
       /\ SumFunctionOnSet(G, P) = Outside(Counts(s, start)) + Weight(Counts(s, start), builders[s])
    BY <1>1, <1>15, <1>17, CandlesOfPeriod
<1>19. SumFunctionOnSet(G, P) = Cardinality(T)
    BY <1>18 DEF CandleInv, Counted
<1>20. G[p] = Cardinality(T)
    BY <1>5, <1>14, <1>16, <1>17
<1>21. PICK R : R = P \ {p}
    OBVIOUS
<1>22. IsFiniteSet(R) /\ (\A x \in R : G[x] \in Int) /\ (\A x \in P : G[x] \in Int) /\ \A x \in R : G[x] \in Nat \ {0}
  <2>1. R \in SUBSET P
      BY <1>21
  <2>2. IsFiniteSet(R)
      BY <1>18, <2>1, FS_Subset
  <2>3. QED
      BY <1>18, <2>1, <2>2
<1>23. SumFunctionOnSet(G, P) = G[p] + SumFunctionOnSet(G, P \ {p})
    BY <1>16, <1>18, <1>22, SumTakesOut
<1>24. SumFunctionOnSet(G, R) = 0
  <2>1. SumFunctionOnSet(G, R) \in Int
      BY <1>22, SumInt
  <2>2. QED
      BY <1>2, <1>19, <1>20, <1>21, <1>23, <2>1
<1>25. R = {}
  <2>1. SUFFICES ASSUME NEW x \in R PROVE FALSE
      OBVIOUS
  <2>2. SumFunctionOnSet(G, R) = G[x] + SumFunctionOnSet(G, R \ {x})
      BY <1>22, SumTakesOut
  <2>3. SumFunctionOnSet(G, R \ {x}) \in Nat
    <3>1. PICK U : U = R \ {x}
        OBVIOUS
    <3>2. U \in SUBSET R
        BY <3>1
    <3>3. IsFiniteSet(U) /\ \A y \in U : G[y] \in Nat
        BY <1>22, <3>2, FS_Subset
    <3>4. SumFunctionOnSet(G, U) \in Nat
        BY <3>3, SumNat
    <3>5. QED
        BY <3>1, <3>4
  <2>4. G[x] \in Nat \ {0}
      BY <1>22
  <2>5. QED
      BY <1>24, <2>2, <2>3, <2>4
<1>26. P = {p}
    BY <1>16, <1>21, <1>25
<1>27. QED
    BY <1>4, <1>14, <1>15, <1>16, <1>26

\* One candle for a period that is undisturbed, whether still built or closed.
LEMMA KeptAreOne == CandleInv => OneCandlePerPeriod
<1>1. SUFFICES ASSUME CandleInv, NEW s \in Symbols, NEW start \in Starts(Period),
                      TicksOf(s, start, Period) # {}, <<s, start>> \notin late
               PROVE  \E p \in Places(s, start) :
                        /\ Places(s, start) = {p}
                        /\ CandleAt(s, p) = CandleOf(s, start, TicksOf(s, start, Period))
    BY DEF OneCandlePerPeriod
<1>2. start \in Times
    BY StartsAreTimes
<1>3. PICK T, C : T = TicksOf(s, start, Period) /\ C = CandleOf(s, start, T)
    OBVIOUS
<1>4. \E p \in Places(s, start) : Places(s, start) = {p} /\ CandleAt(s, p) = C
    BY <1>1, <1>2, <1>3, OnePlace
<1>5. QED
    BY <1>3, <1>4

-----------------------------------------------------------------------------
(* One candle of a longer period                                            *)

\* Candles of other periods only, and one candle of a period.
None(q, x) == \A i \in DOMAIN q : q[i].timestamp # x
Told(q, x, C) == \E n \in DOMAIN q : q[n] = C /\ \A m \in DOMAIN q : q[m].timestamp = x => m = n

\* A candle that is added changes no candle of another period.
LEMMA AddCandleIs ==
    ASSUME NEW q \in Seq(Candle), NEW c \in Candle, NEW y \in Times, NEW r, r = AddCandle(q, c, y), r \in Seq(Candle)
    PROVE  \E n \in 0..Len(q) : /\ Len(r) = n + 1 /\ r[n + 1].timestamp = y
                                /\ \A i \in 1..n : r[i] = q[i]
                                /\ \A i \in 1..Len(q) : i > n => q[i].timestamp = y
<1>1. Len(q) \in Nat
    OBVIOUS
<1>2. CASE q # <<>> /\ Last(q).timestamp = y
  <2>1. PICK a, d, p : a = Last(q) /\ d = Merged(a, c) /\ p = Front(q)
      OBVIOUS
  <2>2. a \in Candle /\ a = q[Len(q)] /\ a.timestamp = y /\ p \in Seq(Candle)
      BY <1>2, <2>1, FrontAndLast
  <2>3. Len(q) \in Nat \ {0} /\ Len(p) = Len(q) - 1 /\ \A i \in 1..(Len(q) - 1) : p[i] = q[i]
      BY <1>2, <2>1, FrontAndLast
  <2>4. r = Append(p, d)
      BY <1>2, <2>1 DEF AddCandle
  <2>5. d.timestamp = y
      BY <2>1, <2>2 DEF Merged, Candle
  <2>6. PICK n : n = Len(q) - 1
      OBVIOUS
  <2>7. n \in 0..Len(q) /\ Len(p) = n /\ n + 1 = Len(q)
      BY <2>3, <2>6
  <2>8. Len(r) = n + 1 /\ r[n + 1] = d /\ \A i \in 1..n : r[i] = p[i]
    <3>1. Len(r) = Len(p) + 1 /\ r[Len(p) + 1] = d /\ \A i \in 1..Len(p) : r[i] = p[i]
        BY <2>2, <2>4, AppendProperties
    <3>2. QED
        BY <2>7, <3>1
  <2>9. \A i \in 1..n : r[i] = q[i]
      BY <2>3, <2>6, <2>8
  <2>10. \A i \in 1..Len(q) : i > n => q[i].timestamp = y
    <3>1. SUFFICES ASSUME NEW i \in 1..Len(q), i > n PROVE q[i].timestamp = y
        OBVIOUS
    <3>2. i = Len(q)
        BY <2>7, <3>1
    <3>3. QED
        BY <2>2, <3>2
  <2>11. QED
      BY <2>5, <2>7, <2>8, <2>9, <2>10
<1>3. CASE ~(q # <<>> /\ Last(q).timestamp = y)
  <2>1. PICK d : d = [c EXCEPT !.timestamp = y]
      OBVIOUS
  <2>2. d.timestamp = y /\ d \in Candle
      BY <2>1 DEF Candle
  <2>3. r = Append(q, d)
      BY <1>3, <2>1 DEF AddCandle
  <2>4. Len(r) = Len(q) + 1 /\ r[Len(q) + 1] = d /\ \A i \in 1..Len(q) : r[i] = q[i]
      BY <2>2, <2>3, AppendProperties
  <2>5. Len(q) \in 0..Len(q) /\ \A i \in 1..Len(q) : ~(i > Len(q))
      BY <1>1
  <2>6. QED
      BY <2>2, <2>4, <2>5
<1>4. QED
    BY <1>2, <1>3

\* ... or loses one, or makes another.
LEMMA AddOther ==
    ASSUME NEW q \in Seq(Candle), NEW c \in Candle, NEW y \in Times, NEW r, r = AddCandle(q, c, y), r \in Seq(Candle),
           NEW x, x # y, NEW C, C.timestamp = x
    PROVE  /\ None(q, x) => None(r, x)
           /\ Told(q, x, C) => Told(r, x, C)
<1>1. PICK n \in 0..Len(q) : /\ Len(r) = n + 1 /\ r[n + 1].timestamp = y
                             /\ \A i \in 1..n : r[i] = q[i]
                             /\ \A i \in 1..Len(q) : i > n => q[i].timestamp = y
    BY AddCandleIs
<1>2. DOMAIN q = 1..Len(q) /\ DOMAIN r = 1..(n + 1) /\ Len(q) \in Nat /\ n \in Nat
    BY <1>1
<1>3. \A i \in 1..n : i \in DOMAIN q /\ i \in DOMAIN r
    BY <1>1, <1>2
<1>4. \A j \in DOMAIN r : r[j].timestamp = x => j \in 1..n
  <2>1. SUFFICES ASSUME NEW j \in DOMAIN r, j \notin 1..n PROVE r[j].timestamp = y
      OBVIOUS
  <2>2. j = n + 1
      BY <1>2, <2>1
  <2>3. QED
      BY <1>1, <2>2
<1>5. ASSUME None(q, x) PROVE None(r, x)
  <2>1. SUFFICES ASSUME NEW j \in DOMAIN r, r[j].timestamp = x PROVE FALSE
      BY DEF None
  <2>2. j \in 1..n
      BY <1>4, <2>1
  <2>3. r[j] = q[j] /\ j \in DOMAIN q
      BY <1>1, <1>3, <2>2
  <2>4. QED
      BY <1>5, <2>1, <2>3 DEF None
<1>6. ASSUME Told(q, x, C) PROVE Told(r, x, C)
  <2>1. PICK m \in DOMAIN q : q[m] = C /\ \A i \in DOMAIN q : q[i].timestamp = x => i = m
      BY <1>6 DEF Told
  <2>2. ~(m > n)
      BY <1>1, <1>2, <2>1
  <2>3. m \in 1..n
      BY <1>2, <2>1, <2>2
  <2>4. m \in DOMAIN r /\ r[m] = C
      BY <1>1, <1>3, <2>1, <2>3
  <2>5. ASSUME NEW j \in DOMAIN r, r[j].timestamp = x PROVE j = m
    <3>1. j \in 1..n
        BY <1>4, <2>5
    <3>2. r[j] = q[j] /\ j \in DOMAIN q
        BY <1>1, <1>3, <3>1
    <3>3. QED
        BY <2>1, <2>5, <3>2
  <2>6. QED
      BY <2>4, <2>5 DEF Told
<1>7. QED
    BY <1>5, <1>6

\* The first candle of a period is appended, the next merged into it.
LEMMA AddFirst ==
    ASSUME NEW q \in Seq(Candle), NEW c \in Candle, NEW x, None(q, x)
    PROVE  AddCandle(q, c, x) = Append(q, [c EXCEPT !.timestamp = x])
<1>1. ASSUME q # <<>> PROVE Last(q).timestamp # x
  <2>1. Last(q) = q[Len(q)] /\ Len(q) \in Nat \ {0}
      BY <1>1, FrontAndLast
  <2>2. Len(q) \in DOMAIN q
      BY <2>1
  <2>3. QED
      BY <2>1, <2>2 DEF None
<1>2. QED
    BY <1>1 DEF AddCandle

\* The second candle of a period is merged into the first.
LEMMA AddSecond ==
    ASSUME NEW q \in Seq(Candle), NEW d \in Candle, NEW c \in Candle, NEW x, d.timestamp = x
    PROVE  AddCandle(Append(q, d), c, x) = Append(q, Merged(d, c))
<1>1. PICK r : r = Append(q, d)
    OBVIOUS
<1>2. r \in Seq(Candle) /\ Len(r) = Len(q) + 1 /\ r[Len(q) + 1] = d /\ \A i \in 1..Len(q) : r[i] = q[i]
    BY <1>1, AppendProperties
<1>3. Len(q) \in Nat /\ r # <<>>
    BY <1>1
<1>4. /\ Last(r) = r[Len(r)] /\ Front(r) \in Seq(Candle) /\ Len(Front(r)) = Len(r) - 1
      /\ \A i \in 1..(Len(r) - 1) : Front(r)[i] = r[i]
    BY <1>2, <1>3, FrontAndLast
<1>5. Last(r) = d
    BY <1>2, <1>4
<1>6. PICK p : p = Front(r)
    OBVIOUS
<1>7. p \in Seq(Candle) /\ Len(p) = Len(q) /\ \A i \in 1..Len(q) : p[i] = q[i]
    BY <1>2, <1>3, <1>4, <1>6
<1>8. p = q
    BY <1>7, SeqEqual
<1>9. AddCandle(r, c, x) = Append(Front(r), Merged(Last(r), c))
    BY <1>3, <1>5 DEF AddCandle
<1>10. QED
    BY <1>1, <1>5, <1>6, <1>8, <1>9

\* The first one is the only one of its period.
LEMMA ToldAppend ==
    ASSUME NEW q \in Seq(Candle), NEW d \in Candle, NEW x, None(q, x), d.timestamp = x
    PROVE  Told(Append(q, d), x, d)
<1>1. PICK r : r = Append(q, d)
    OBVIOUS
<1>2. r \in Seq(Candle) /\ Len(r) = Len(q) + 1 /\ r[Len(q) + 1] = d /\ \A i \in 1..Len(q) : r[i] = q[i]
    BY <1>1, AppendProperties
<1>3. DOMAIN q = 1..Len(q) /\ DOMAIN r = 1..(Len(q) + 1) /\ Len(q) \in Nat
    BY <1>2
<1>4. PICK n : n = Len(q) + 1
    OBVIOUS
<1>5. n \in DOMAIN r /\ r[n] = d
    BY <1>2, <1>3, <1>4
<1>6. ASSUME NEW j \in DOMAIN r, r[j].timestamp = x PROVE j = n
  <2>1. SUFFICES ASSUME j # n PROVE FALSE
      OBVIOUS
  <2>2. j \in 1..Len(q)
      BY <1>3, <1>4, <2>1
  <2>3. r[j] = q[j] /\ j \in DOMAIN q
      BY <1>2, <1>3, <2>2
  <2>4. QED
      BY <1>6, <2>3 DEF None
<1>7. QED
    BY <1>1, <1>5, <1>6 DEF Told

\* A chain of candles that are added one after the other.
Chain(rows, L, step) ==
    /\ rows \in Seq(Candle) /\ step[0] = <<>>
    /\ \A k \in 1..Len(rows) : step[k] = AddCandle(step[k - 1], rows[k], CandleStart(rows[k].timestamp, L))
    /\ \A k \in 0..Len(rows) : step[k] \in Seq(Candle)

\* A step with a candle of another period.
LEMMA OtherStep ==
    ASSUME NEW L \in Nat \ {0}, NEW rows, NEW step, Chain(rows, L, step), NEW k \in 1..Len(rows), NEW x,
           CandleStart(rows[k].timestamp, L) # x, NEW C, C.timestamp = x
    PROVE  /\ None(step[k - 1], x) => None(step[k], x)
           /\ Told(step[k - 1], x, C) => Told(step[k], x, C)
<1>1. PICK y, q, r, c : y = CandleStart(rows[k].timestamp, L) /\ q = step[k - 1] /\ r = step[k] /\ c = rows[k]
    OBVIOUS
<1>2. Len(rows) \in Nat /\ k - 1 \in 0..Len(rows) /\ k \in 0..Len(rows) /\ c \in Candle
    BY <1>1 DEF Chain
<1>3. q \in Seq(Candle) /\ r \in Seq(Candle) /\ r = AddCandle(q, c, y)
    BY <1>1, <1>2 DEF Chain
<1>4. y \in Times
    BY <1>1, <1>2, StartedType
<1>5. (None(q, x) => None(r, x)) /\ (Told(q, x, C) => Told(r, x, C))
    BY <1>1, <1>2, <1>3, <1>4, AddOther
<1>6. QED
    BY <1>1, <1>5

\* Before the first candle of a period, and after the last.
LEMMA NoneBefore ==
    ASSUME NEW L \in Nat \ {0}, NEW rows, NEW step, Chain(rows, L, step), NEW x, NEW j \in 0..Len(rows),
           \A k \in 1..j : CandleStart(rows[k].timestamp, L) # x
    PROVE  None(step[j], x)
<1>1. Len(rows) \in Nat /\ j \in Nat
    BY DEF Chain
<1>2. PICK P : P = {k \in 0..j : None(step[k], x)}
    OBVIOUS
<1>3. 0 \in P
  <2>1. step[0] = <<>>
      BY DEF Chain
  <2>2. None(step[0], x)
      BY <2>1 DEF None
  <2>3. QED
      BY <1>1, <1>2, <2>2
<1>4. ASSUME NEW k \in 1..j, k - 1 \in P PROVE k \in P
  <2>1. k \in 1..Len(rows) /\ k \in 0..j
      BY <1>1
  <2>2. PICK C : C = [timestamp |-> x]
      OBVIOUS
  <2>3. C.timestamp = x /\ CandleStart(rows[k].timestamp, L) # x /\ None(step[k - 1], x)
      BY <1>2, <1>4, <2>2
  <2>4. None(step[k], x)
      BY <2>1, <2>3, OtherStep
  <2>5. QED
      BY <1>2, <2>1, <2>4
<1>5. \A k \in 0..j : k \in P
    BY <1>1, <1>3, <1>4, NumbersInduct
<1>6. QED
    BY <1>1, <1>2, <1>5

\* What is told stays told when no more candles of the period follow.
LEMMA ToldAfter ==
    ASSUME NEW L \in Nat \ {0}, NEW rows, NEW step, Chain(rows, L, step), NEW x, NEW C, C.timestamp = x,
           NEW j \in 1..Len(rows), Told(step[j], x, C),
           \A k \in 1..Len(rows) : k > j => CandleStart(rows[k].timestamp, L) # x
    PROVE  Told(step[Len(rows)], x, C)
<1>1. PICK n : n = Len(rows)
    OBVIOUS
<1>2. n \in Nat /\ j \in 1..n
    BY <1>1 DEF Chain
<1>3. PICK P : P = {k \in 0..n : k >= j => Told(step[k], x, C)}
    OBVIOUS
<1>4. 0 \in P
    BY <1>2, <1>3
<1>5. ASSUME NEW k \in 1..n, k - 1 \in P PROVE k \in P
  <2>1. k \in 0..n /\ k \in 1..Len(rows)
      BY <1>1, <1>2
  <2>2. CASE k > j
    <3>1. k - 1 >= j
        BY <1>2, <2>2
    <3>2. Told(step[k - 1], x, C)
        BY <1>3, <1>5, <3>1
    <3>3. CandleStart(rows[k].timestamp, L) # x
        BY <2>1, <2>2
    <3>4. Told(step[k], x, C)
        BY <2>1, <3>2, <3>3, OtherStep
    <3>5. QED
        BY <1>3, <2>1, <3>4
  <2>3. CASE k = j
      BY <1>3, <2>1, <2>3
  <2>4. CASE k < j
    <3>1. ~(k >= j)
        BY <1>2, <2>4
    <3>2. QED
        BY <1>3, <2>1, <3>1
  <2>5. QED
      BY <1>2, <2>2, <2>3, <2>4
<1>6. \A k \in 0..n : k \in P
    BY <1>2, <1>4, <1>5, NumbersInduct
<1>7. n \in 0..n /\ n >= j
    BY <1>2
<1>8. QED
    BY <1>1, <1>3, <1>6, <1>7

\* A longer period of one candle, and of two that follow each other.
LEMMA OneRow ==
    ASSUME NEW L \in Nat \ {0}, NEW rows, NEW step, Chain(rows, L, step), NEW x, NEW j \in 1..Len(rows),
           CandleStart(rows[j].timestamp, L) = x,
           \A k \in 1..Len(rows) : k # j => CandleStart(rows[k].timestamp, L) # x,
           NEW d, d = [rows[j] EXCEPT !.timestamp = x]
    PROVE  Told(step[Len(rows)], x, d)
<1>1. PICK i, q, c : i = j - 1 /\ q = step[j - 1] /\ c = rows[j]
    OBVIOUS
<1>2. Len(rows) \in Nat /\ i \in 0..Len(rows) /\ c \in Candle /\ q \in Seq(Candle)
    BY <1>1 DEF Chain
<1>3. None(q, x)
  <2>1. \A k \in 1..i : CandleStart(rows[k].timestamp, L) # x
    <3>1. \A k \in 1..i : k \in 1..Len(rows) /\ k # j
        BY <1>1, <1>2
    <3>2. QED
        BY <3>1
  <2>2. None(step[i], x)
      BY <1>2, <2>1, NoneBefore
  <2>3. QED
      BY <1>1, <2>2
<1>4. step[j] = Append(q, d)
  <2>1. step[j] = AddCandle(q, c, x)
      BY <1>1 DEF Chain
  <2>2. QED
      BY <1>1, <1>2, <1>3, <2>1, AddFirst
<1>5. d \in Candle /\ d.timestamp = x
  <2>1. x \in Times
      BY <1>1, <1>2, StartedType
  <2>2. QED
      BY <1>1, <1>2, <2>1 DEF Candle
<1>6. Told(step[j], x, d)
    BY <1>2, <1>3, <1>4, <1>5, ToldAppend
<1>7. \A k \in 1..Len(rows) : k > j => CandleStart(rows[k].timestamp, L) # x
    BY <1>2
<1>8. QED
    BY <1>5, <1>6, <1>7, ToldAfter

\* Two stored minutes of a longer period are one candle, merged from both.
LEMMA TwoRows ==
    ASSUME NEW L \in Nat \ {0}, NEW rows, NEW step, Chain(rows, L, step), NEW x,
           NEW j \in 1..Len(rows), NEW l \in 1..Len(rows), l = j + 1,
           CandleStart(rows[j].timestamp, L) = x, CandleStart(rows[l].timestamp, L) = x,
           \A k \in 1..Len(rows) : k # j /\ k # l => CandleStart(rows[k].timestamp, L) # x,
           NEW d, d = Merged([rows[j] EXCEPT !.timestamp = x], rows[l])
    PROVE  Told(step[Len(rows)], x, d)
<1>1. PICK i, q, c, a, e : i = j - 1 /\ q = step[j - 1] /\ c = rows[j] /\ e = rows[l] /\ a = [c EXCEPT !.timestamp = x]
    OBVIOUS
<1>2. Len(rows) \in Nat /\ i \in 0..Len(rows) /\ c \in Candle /\ e \in Candle /\ q \in Seq(Candle)
    BY <1>1 DEF Chain
<1>3. None(q, x)
  <2>1. \A k \in 1..i : CandleStart(rows[k].timestamp, L) # x
    <3>1. \A k \in 1..i : k \in 1..Len(rows) /\ k # j /\ k # l
        BY <1>1, <1>2
    <3>2. QED
        BY <3>1
  <2>2. None(step[i], x)
      BY <1>2, <2>1, NoneBefore
  <2>3. QED
      BY <1>1, <2>2
<1>4. step[j] = Append(q, a)
  <2>1. step[j] = AddCandle(q, c, x)
      BY <1>1 DEF Chain
  <2>2. QED
      BY <1>1, <1>2, <1>3, <2>1, AddFirst
<1>5. a \in Candle /\ a.timestamp = x
  <2>1. x \in Times
      BY <1>1, <1>2, StartedType
  <2>2. QED
      BY <1>1, <1>2, <2>1 DEF Candle
<1>6. d = Merged(a, e)
    BY <1>1
<1>7. d \in Candle /\ d.timestamp = x
  <2>1. d \in Candle
      BY <1>2, <1>5, <1>6, MergedType
  <2>2. d.timestamp = a.timestamp
      BY <1>5, <1>6 DEF Merged, Candle
  <2>3. QED
      BY <1>5, <2>1, <2>2
<1>8. step[l] = Append(q, d)
  <2>1. step[l] = AddCandle(step[l - 1], e, x)
      BY <1>1 DEF Chain
  <2>2. l - 1 = j
      BY <1>2
  <2>3. step[l] = AddCandle(Append(q, a), e, x)
      BY <1>4, <2>1, <2>2
  <2>4. QED
      BY <1>2, <1>5, <1>6, <2>3, AddSecond
<1>9. Told(step[l], x, d)
    BY <1>2, <1>3, <1>7, <1>8, ToldAppend
<1>10. \A k \in 1..Len(rows) : k > l => CandleStart(rows[k].timestamp, L) # x
    BY <1>2
<1>11. QED
    BY <1>7, <1>9, <1>10, ToldAfter

-----------------------------------------------------------------------------
(* Rows of the table                                                        *)

\* A stored candle has ticks.
LEMMA RowFacts ==
    ASSUME CandleInv, NEW s \in Symbols, NEW i \in DOMAIN saved, NEW c, c = saved[i], c.symbol = s,
           NEW x, x = c.timestamp
    PROVE  /\ c \in Candle /\ x \in Times /\ TicksOf(s, x, Period) # {}
           /\ <<1, i>> \in Places(s, x) /\ CandleAt(s, <<1, i>>) = c
<1>1. CandleTypeOK
    BY DEF CandleInv
<1>2. saved \in Seq(Candle)
    BY <1>1 DEF CandleTypeOK
<1>3. c \in Candle
    BY <1>2
<1>4. x \in Times
    BY <1>3 DEF Candle
<1>5. Shelves(s) \in Seq(Seq(Candle)) /\ Shelves(s)[1] = saved /\ 1 \in DOMAIN Shelves(s)
    BY <1>1, ShelvesType
<1>6. CandleAt(s, <<1, i>>) = c
    BY <1>5 DEF CandleAt
<1>7. PICK p : p = <<1, i>>
    OBVIOUS
<1>8. p \in AllPlaces(s)
  <2>1. 1 \in 1..Len(Shelves(s))
      BY <1>5
  <2>2. p \in {1} \X DOMAIN Shelves(s)[1]
      BY <1>5, <1>7
  <2>3. QED
      BY <2>1, <2>2 DEF AllPlaces, PlacesIn
<1>9. p \in Places(s, x)
    BY <1>1, <1>6, <1>7, <1>8, ShelvesType
<1>10. PICK P, G : P = Places(s, x) /\ G = [y \in Places(s, x) |-> CandleAt(s, y).tickCount]
    OBVIOUS
<1>11. /\ IsFiniteSet(P) /\ \A y \in P : G[y] \in Nat \ {0}
       /\ SumFunctionOnSet(G, P) = Outside(Counts(s, x)) + Weight(Counts(s, x), builders[s])
    BY <1>1, <1>10, CandlesOfPeriod
<1>12. SumFunctionOnSet(G, P) = Cardinality(TicksOf(s, x, Period))
    BY <1>4, <1>11 DEF CandleInv, Counted
<1>13. SumFunctionOnSet(G, P) # 0
  <2>1. PICK R : R = P \ {p}
      OBVIOUS
  <2>2. IsFiniteSet(R) /\ (\A y \in R : G[y] \in Nat) /\ \A y \in P : G[y] \in Int
    <3>1. R \in SUBSET P
        BY <2>1
    <3>2. QED
        BY <1>11, <3>1, FS_Subset
  <2>3. SumFunctionOnSet(G, R) \in Nat
      BY <2>2, SumNat
  <2>4. SumFunctionOnSet(G, P) = G[p] + SumFunctionOnSet(G, P \ {p})
      BY <1>9, <1>10, <1>11, <2>2, SumTakesOut
  <2>5. G[p] \in Nat \ {0}
      BY <1>9, <1>10, <1>11
  <2>6. QED
      BY <2>1, <2>3, <2>4, <2>5
<1>14. TicksOf(s, x, Period) # {}
    BY <1>12, <1>13, FS_EmptySet
<1>15. QED
    BY <1>3, <1>4, <1>6, <1>7, <1>9, <1>14

\* The longer period of a stored candle.
LEMMA RowStart ==
    ASSUME CandleInv, NEW s \in Symbols, NEW i \in DOMAIN saved, NEW c, c = saved[i], c.symbol = s,
           NEW start \in Starts(2 * Period)
    PROVE  CandleStart(c.timestamp, 2 * Period) = start <=> c.timestamp = start \/ c.timestamp = start + Period
<1>1. PICK x : x = c.timestamp
    OBVIOUS
<1>2. TicksOf(s, x, Period) # {}
    BY <1>1, RowFacts
<1>3. PICK n : n \in TicksOf(s, x, Period)
    BY <1>2
<1>4. n \in DOMAIN accepted /\ PeriodOf(accepted[n].timestamp) = x
    BY <1>3 DEF TicksOf, PeriodOf
<1>5. PICK t : t = accepted[n].timestamp
    OBVIOUS
<1>6. t \in Times
  <2>1. accepted \in Seq(Tick)
      BY DEF CandleInv, CandleTypeOK
  <2>2. accepted[n] \in Tick
      BY <1>4, <2>1
  <2>3. QED
      BY <1>5, <2>2 DEF Tick
<1>7. CandleStart(x, 2 * Period) = CandleStart(t, 2 * Period)
    BY <1>4, <1>5, <1>6, StartOfPeriod
<1>8. CandleStart(t, 2 * Period) = start <=> PeriodOf(t) = start \/ PeriodOf(t) = start + Period
    BY <1>6, LongerPeriod
<1>9. QED
    BY <1>1, <1>4, <1>5, <1>7, <1>8

\* A period that no late tick disturbed has one row, with the candle of its ticks.
LEMMA RowIs ==
    ASSUME CandleInv, NEW s \in Symbols, NEW i \in DOMAIN saved, NEW c, c = saved[i], c.symbol = s,
           NEW x, x = c.timestamp, <<s, x>> \notin late
    PROVE  /\ c = Made(accepted, s, x, TicksOf(s, x, Period))
           /\ \A k \in DOMAIN saved : saved[k].symbol = s /\ saved[k].timestamp = x => k = i
<1>1. /\ x \in Times /\ TicksOf(s, x, Period) # {}
      /\ <<1, i>> \in Places(s, x) /\ CandleAt(s, <<1, i>>) = c
    BY RowFacts
<1>2. PICK T, C : T = TicksOf(s, x, Period) /\ C = CandleOf(s, x, T)
    OBVIOUS
<1>3. PICK p \in Places(s, x) : Places(s, x) = {p} /\ CandleAt(s, p) = C
    BY <1>1, <1>2, OnePlace
<1>4. c = C
    BY <1>1, <1>3
<1>5. C = Made(accepted, s, x, T)
    BY <1>2, CandleOfIsMade
<1>6. ASSUME NEW k \in DOMAIN saved, saved[k].symbol = s, saved[k].timestamp = x PROVE k = i
  <2>1. <<1, k>> \in Places(s, x)
      BY <1>6, RowFacts
  <2>2. <<1, k>> = <<1, i>>
      BY <1>1, <1>3, <2>1
  <2>3. QED
      BY <2>2
<1>7. QED
    BY <1>2, <1>4, <1>5, <1>6

\* What an answer holds: rows of the symbol in the range, by time, and each one that has
\* no more rows up to its time than the limit.
LEMMA AnswerFacts ==
    ASSUME CandleTypeOK, NEW s, NEW from \in Int, NEW to \in Int, NEW limit \in Nat,
           NEW answer \in Query(s, from, to, limit), NEW end \in Int, end <= to,
           Cardinality(Rows(s, from, end)) <= limit
    PROVE  \E f : /\ answer \in Seq(Candle)
                  /\ \A n \in 1..Len(answer) : /\ f[n] \in DOMAIN saved /\ answer[n] = saved[f[n]]
                                               /\ saved[f[n]].symbol = s
                  /\ \A m, n \in 1..Len(answer) : f[m] = f[n] => m = n
                  /\ \A i \in Rows(s, from, end) : \E n \in 1..Len(answer) : f[n] = i
                  /\ \A m, n \in 1..Len(answer) : m < n => answer[m].timestamp <= answer[n].timestamp
<1>1. PICK rows, first : rows = Rows(s, from, to) /\ first = Rows(s, from, end)
    OBVIOUS
<1>2. PICK f \in SetToSeqs(rows) :
        /\ answer = [n \in 1..Smaller(limit, Len(f)) |-> saved[f[n]]]
        /\ \A m, n \in DOMAIN f : m < n => saved[f[m]].timestamp <= saved[f[n]].timestamp
    BY <1>1 DEF Query
<1>3. /\ saved \in Seq(Candle) /\ IsFiniteSet(DOMAIN saved)
      /\ \A i \in DOMAIN saved : saved[i] \in Candle /\ saved[i].timestamp \in Int
  <2>1. \A c \in Candle : c.timestamp \in Int
      BY CandleBounds DEF Candle, Times
  <2>2. QED
      BY <2>1, FiniteDomain DEF CandleTypeOK
<1>4. IsFiniteSet(rows) /\ IsFiniteSet(first) /\ first \subseteq rows
  <2>1. rows \in SUBSET DOMAIN saved
      BY <1>1 DEF Rows
  <2>2. first \in SUBSET rows
      BY <1>1, <1>3 DEF Rows
  <2>3. QED
      BY <1>3, <2>1, <2>2, FS_Subset
<1>5. /\ f \in Seq(rows) /\ DOMAIN f = 1..Len(f) /\ Len(f) \in Nat
      /\ {f[i] : i \in DOMAIN f} = rows
      /\ \A i, j \in DOMAIN f : f[i] = f[j] => i = j
    BY <1>4, OrderedSet
<1>6. PICK N : N = Smaller(limit, Len(f))
    OBVIOUS
<1>7. N \in Nat /\ N <= Len(f) /\ 1..N \subseteq DOMAIN f /\ (N = limit \/ N = Len(f))
  <2>1. PICK l : l = Len(f) /\ l \in Nat
      BY <1>5
  <2>2. (N = limit /\ limit <= l) \/ N = l
      BY <1>6, <2>1 DEF Smaller
  <2>3. N \in Nat /\ N <= l /\ 1..N \subseteq 1..l
      BY <2>1, <2>2
  <2>4. QED
      BY <1>5, <2>1, <2>2, <2>3
<1>8. \A n \in DOMAIN f : f[n] \in rows
    BY <1>5
<1>9. \A n \in DOMAIN f : f[n] \in DOMAIN saved /\ saved[f[n]].symbol = s /\ saved[f[n]] \in Candle
  <2>1. \A i \in rows : i \in DOMAIN saved /\ saved[i].symbol = s
      BY <1>1 DEF Rows
  <2>2. QED
      BY <1>3, <1>8, <2>1
<1>10. answer \in Seq(Candle) /\ Len(answer) = N
  <2>1. answer = [n \in 1..N |-> saved[f[n]]] /\ \A n \in 1..N : saved[f[n]] \in Candle
      BY <1>2, <1>6, <1>7, <1>9
  <2>2. QED
      BY <1>7, <2>1, IsASeq
<1>11. 1..Len(answer) \subseteq DOMAIN f
    BY <1>7, <1>10
<1>12. \A n \in 1..Len(answer) : answer[n] = saved[f[n]]
    BY <1>2, <1>6, <1>10
<1>13. ASSUME NEW i \in first PROVE \E n \in 1..Len(answer) : f[n] = i
  <2>1. i \in {f[n] : n \in DOMAIN f}
      BY <1>4, <1>5, <1>13
  <2>2. PICK n \in DOMAIN f : f[n] = i
      BY <2>1
  <2>3. n \in 1..Len(f) /\ n \in Nat
      BY <1>5
  <2>4. \A m \in 1..n : m \in DOMAIN f /\ f[m] \in first
    <3>1. SUFFICES ASSUME NEW m \in 1..n PROVE m \in DOMAIN f /\ f[m] \in first
        OBVIOUS
    <3>2. m \in DOMAIN f /\ f[m] \in rows
        BY <1>5, <1>8, <2>3
    <3>3. saved[f[m]].timestamp <= saved[f[n]].timestamp
      <4>1. m < n \/ m = n
          BY <2>3
      <4>2. saved[f[n]].timestamp \in Int
          BY <1>3, <1>9
      <4>3. CASE m < n
          BY <1>2, <3>2, <4>3
      <4>4. CASE m = n
          BY <4>2, <4>4
      <4>5. QED
          BY <4>1, <4>3, <4>4
    <3>4. saved[f[m]].timestamp \in Int /\ saved[f[n]].timestamp \in Int /\ saved[f[n]].timestamp < end
      <4>1. saved[i].timestamp < end
          BY <1>1, <1>13 DEF Rows
      <4>2. QED
          BY <1>3, <1>9, <2>2, <3>2, <4>1
    <3>5. saved[f[m]].timestamp < end
        BY <3>3, <3>4
    <3>6. f[m] \in first
        BY <1>1, <3>2, <3>5 DEF Rows
    <3>7. QED
        BY <3>2, <3>6
  <2>5. n <= Cardinality(first)
    <3>1. PICK g : g = [m \in 1..n |-> f[m]]
        OBVIOUS
    <3>2. \A m \in 1..n : g[m] = f[m]
        BY <3>1
    <3>3. g \in [1..n -> first]
        BY <2>4, <3>1
    <3>4. \A l, m \in 1..n : g[l] = g[m] => l = m
        BY <1>5, <2>4, <3>2
    <3>5. g \in Injection(1..n, first)
        BY <3>3, <3>4 DEF Injection, IsInjective
    <3>6. IsFiniteSet(1..n) /\ Cardinality(1..n) = n
        BY <2>3, FS_Interval
    <3>7. Cardinality(1..n) <= Cardinality(first)
        BY <1>4, <3>5, FS_Injection DEF ExistsInjection
    <3>8. QED
        BY <3>6, <3>7
  <2>6. Cardinality(first) \in Nat
      BY <1>4, FS_CardinalityType
  <2>7. n <= N
    <3>1. Cardinality(first) <= limit
        BY <1>1
    <3>2. PICK l : l = Len(f) /\ l \in Nat /\ n <= l
        BY <1>5, <2>3
    <3>3. n <= limit
        BY <2>3, <2>5, <2>6, <3>1
    <3>4. N = limit \/ N = l
        BY <1>7, <3>2
    <3>5. QED
        BY <3>2, <3>3, <3>4
  <2>8. QED
      BY <1>7, <1>10, <2>2, <2>3, <2>7
<1>14. \A m, n \in 1..Len(answer) : m < n => answer[m].timestamp <= answer[n].timestamp
    BY <1>2, <1>11, <1>12
<1>15. \A n \in 1..Len(answer) : f[n] \in DOMAIN saved /\ answer[n] = saved[f[n]] /\ saved[f[n]].symbol = s
    BY <1>9, <1>11, <1>12
<1>16. \A m, n \in 1..Len(answer) : f[m] = f[n] => m = n
    BY <1>5, <1>11
<1>17. QED
    BY <1>1, <1>10, <1>13, <1>14, <1>15, <1>16

\* The candle of two minutes: the ticks of the first came before those of the second.
LEMMA MinutesInOrder ==
    ASSUME CandleInv, NEW s, NEW x, NEW y, x \in Int, y \in Int, x < y, <<s, x>> \notin late
    PROVE  \A a \in TicksOf(s, x, Period), b \in TicksOf(s, y, Period) : a < b
<1>1. SUFFICES ASSUME NEW a \in TicksOf(s, x, Period), NEW b \in TicksOf(s, y, Period) PROVE a < b
    OBVIOUS
<1>2. /\ a \in DOMAIN accepted /\ accepted[a].symbol = s /\ PeriodOf(accepted[a].timestamp) = x
      /\ b \in DOMAIN accepted /\ accepted[b].symbol = s /\ PeriodOf(accepted[b].timestamp) = y
    BY <1>1 DEF TicksOf, PeriodOf
<1>3. ~(b < a)
    BY <1>2 DEF CandleInv, Ordered
<1>4. a # b
    BY <1>2
<1>5. a \in Int /\ b \in Int
  <2>1. DOMAIN accepted = 1..Len(accepted)
      BY TicksFacts DEF CandleInv
  <2>2. QED
      BY <1>2, <2>1
<1>6. QED
    BY <1>3, <1>4, <1>5

\* Another start of the same ticks.
LEMMA MadeRestarted ==
    ASSUME NEW q, NEW s, NEW x, NEW y, NEW ticks
    PROVE  [Made(q, s, x, ticks) EXCEPT !.timestamp = y] = Made(q, s, y, ticks)
BY DEF Made

\* The stored minutes of an undisturbed longer period are one or two rows; they are next to
\* each other in every answer, and aggregate to the candle of all ticks of the period.
LEMMA AnswersAreRight ==
    ASSUME CandleInv, NEW s \in Symbols, NEW x \in Starts(2 * Period), TicksOf(s, x, 2 * Period) # {},
           \A p \in {x, x + Period} : TicksOf(s, p, Period) # {} =>
               /\ <<s, p>> \notin late
               /\ \E i \in DOMAIN saved : saved[i].symbol = s /\ saved[i].timestamp = p,
           NEW from \in 0..x, NEW to \in (x + 2 * Period)..MaxTo, NEW limit \in 1..MaxTicks,
           Cardinality(Rows(s, from, x + 2 * Period)) <= 2 * limit,
           NEW answer \in Query(s, from, to, 2 * limit)
    PROVE  Told(Aggregate(answer, 2 * Period), x, CandleOf(s, x, TicksOf(s, x, 2 * Period)))
<1>1. /\ CandleInv /\ s \in Symbols /\ x \in Starts(2 * Period) /\ TicksOf(s, x, 2 * Period) # {}
      /\ \A p \in {x, x + Period} : TicksOf(s, p, Period) # {} =>
             /\ <<s, p>> \notin late
             /\ \E i \in DOMAIN saved : saved[i].symbol = s /\ saved[i].timestamp = p
      /\ from \in 0..x /\ to \in (x + 2 * Period)..MaxTo /\ limit \in 1..MaxTicks
      /\ Cardinality(Rows(s, from, x + 2 * Period)) <= 2 * limit
      /\ answer \in Query(s, from, to, 2 * limit)
    OBVIOUS
<1>2. PICK y, L, A, B, T : /\ y = x + Period /\ L = 2 * Period
                           /\ A = TicksOf(s, x, Period) /\ B = TicksOf(s, y, Period) /\ T = TicksOf(s, x, L)
    OBVIOUS
<1>3. CandleTypeOK
    BY <1>1 DEF CandleInv
<1>4. Period \in Nat \ {0} /\ L \in Nat \ {0} /\ x \in Nat /\ y \in Nat /\ x < y /\ x # y
  <2>1. Period \in Nat \ {0} /\ 2 * Period \in Nat \ {0}
      BY CandleBounds
  <2>2. x \in Nat
    <3>1. 0 \in Times
        BY CandleBounds DEF Times
    <3>2. QED
        BY <3>1, LongerPeriod
  <2>3. QED
      BY <1>2, <2>1, <2>2
<1>5. accepted \in Seq(Tick) /\ A \in SUBSET DOMAIN accepted /\ B \in SUBSET DOMAIN accepted
    BY <1>2, <1>3, TicksFacts DEF CandleTypeOK
<1>6. T = A \cup B
  <2>1. \A i \in DOMAIN accepted : accepted[i].timestamp \in Times
    <3>1. \A i \in DOMAIN accepted : accepted[i] \in Tick
        BY <1>5
    <3>2. \A t \in Tick : t.timestamp \in Times
        BY DEF Tick
    <3>3. QED
        BY <3>1, <3>2
  <2>2. \A i \in DOMAIN accepted :
          CandleStart(accepted[i].timestamp, 2 * Period) = x
            <=> PeriodOf(accepted[i].timestamp) = x \/ PeriodOf(accepted[i].timestamp) = x + Period
      BY <2>1, LongerPeriod
  <2>3. T = {i \in DOMAIN accepted : accepted[i].symbol = s /\ CandleStart(accepted[i].timestamp, 2 * Period) = x}
      BY <1>2 DEF TicksOf
  <2>4. A = {i \in DOMAIN accepted : accepted[i].symbol = s /\ PeriodOf(accepted[i].timestamp) = x}
      BY <1>2 DEF TicksOf, PeriodOf
  <2>5. B = {i \in DOMAIN accepted : accepted[i].symbol = s /\ PeriodOf(accepted[i].timestamp) = x + Period}
      BY <1>2 DEF TicksOf, PeriodOf
  <2>6. QED
      BY <2>2, <2>3, <2>4, <2>5
<1>7. PICK f : /\ answer \in Seq(Candle)
               /\ \A n \in 1..Len(answer) : /\ f[n] \in DOMAIN saved /\ answer[n] = saved[f[n]]
                                            /\ saved[f[n]].symbol = s
               /\ \A m, n \in 1..Len(answer) : f[m] = f[n] => m = n
               /\ \A i \in Rows(s, from, x + L) : \E n \in 1..Len(answer) : f[n] = i
               /\ \A m, n \in 1..Len(answer) : m < n => answer[m].timestamp <= answer[n].timestamp
  <2>1. MaxTo \in Nat /\ MaxTicks \in Nat
      BY CandleBounds DEF MaxTo
  <2>2. from \in Int /\ to \in Int /\ 2 * limit \in Nat /\ x + L \in Int /\ x + L <= to
      BY <1>1, <1>2, <1>4, <2>1
  <2>3. Cardinality(Rows(s, from, x + L)) <= 2 * limit
      BY <1>1, <1>2
  <2>4. QED
      BY <1>1, <1>3, <2>2, <2>3, AnswerFacts
<1>8. PICK N : N = Len(answer)
    OBVIOUS
<1>9. N \in Nat /\ \A k \in 1..N : answer[k] \in Candle /\ answer[k].timestamp \in Times
  <2>1. N \in Nat /\ \A k \in 1..N : answer[k] \in Candle
      BY <1>7, <1>8
  <2>2. \A c \in Candle : c.timestamp \in Times
      BY DEF Candle
  <2>3. QED
      BY <2>1, <2>2
<1>10. PICK step : Chain(answer, L, step) /\ Aggregate(answer, L) = step[N]
  <2>1. answer \in Seq(Candle)
      BY <1>7
  <2>2. PICK step : /\ step[0] = <<>>
                    /\ \A k \in 1..Len(answer) :
                         step[k] = AddCandle(step[k - 1], answer[k], CandleStart(answer[k].timestamp, L))
                    /\ \A k \in 0..Len(answer) : step[k] \in Seq(Candle)
                    /\ Aggregate(answer, L) = step[Len(answer)]
      BY <1>4, <2>1, AggregateSteps
  <2>3. Chain(answer, L, step)
      BY <2>1, <2>2 DEF Chain
  <2>4. QED
      BY <1>8, <2>2, <2>3
<1>11. PICK start : start = [k \in 1..N |-> CandleStart(answer[k].timestamp, L)]
    OBVIOUS
<1>12. \A k \in 1..N : start[k] = x <=> answer[k].timestamp = x \/ answer[k].timestamp = y
  <2>1. SUFFICES ASSUME NEW k \in 1..N
                 PROVE  start[k] = x <=> answer[k].timestamp = x \/ answer[k].timestamp = y
      OBVIOUS
  <2>2. f[k] \in DOMAIN saved /\ answer[k] = saved[f[k]] /\ answer[k].symbol = s
      BY <1>7, <1>8
  <2>3. CandleStart(answer[k].timestamp, 2 * Period) = x
          <=> answer[k].timestamp = x \/ answer[k].timestamp = x + Period
      BY <1>1, <2>2, RowStart
  <2>4. QED
      BY <1>2, <1>11, <2>3
<1>13. ASSUME NEW p \in {x, y}, NEW k \in 1..N, answer[k].timestamp = p
       PROVE  /\ TicksOf(s, p, Period) # {} /\ <<s, p>> \notin late
              /\ answer[k] = Made(accepted, s, p, TicksOf(s, p, Period))
              /\ \A l \in 1..N : answer[l].timestamp = p => l = k
  <2>1. f[k] \in DOMAIN saved /\ answer[k] = saved[f[k]] /\ answer[k].symbol = s
      BY <1>7, <1>8
  <2>2. TicksOf(s, p, Period) # {}
      BY <1>1, <1>13, <2>1, RowFacts
  <2>3. <<s, p>> \notin late
      BY <1>1, <1>2, <2>2
  <2>4. /\ answer[k] = Made(accepted, s, p, TicksOf(s, p, Period))
        /\ \A i \in DOMAIN saved : saved[i].symbol = s /\ saved[i].timestamp = p => i = f[k]
      BY <1>1, <1>13, <2>1, <2>3, RowIs
  <2>5. ASSUME NEW l \in 1..N, answer[l].timestamp = p PROVE l = k
    <3>1. f[l] \in DOMAIN saved /\ answer[l] = saved[f[l]] /\ saved[f[l]].symbol = s
        BY <1>7, <1>8
    <3>2. f[l] = f[k]
        BY <2>4, <2>5, <3>1
    <3>3. QED
        BY <1>7, <1>8, <3>2
  <2>6. QED
      BY <2>2, <2>3, <2>4, <2>5
<1>14. ASSUME NEW p \in {x, y}, TicksOf(s, p, Period) # {}
       PROVE  \E k \in 1..N : answer[k].timestamp = p
  <2>1. PICK i \in DOMAIN saved : saved[i].symbol = s /\ saved[i].timestamp = p
      BY <1>1, <1>2, <1>14
  <2>2. from <= p /\ p < x + L
    <3>1. from \in Int /\ from <= x
        BY <1>1, <1>4
    <3>2. QED
        BY <1>2, <1>4, <1>14, <3>1
  <2>3. i \in Rows(s, from, x + L)
      BY <2>1, <2>2 DEF Rows
  <2>4. PICK k \in 1..N : f[k] = i
      BY <1>7, <1>8, <2>3
  <2>5. answer[k] = saved[i]
      BY <1>7, <1>8, <2>4
  <2>6. QED
      BY <2>1, <2>5
<1>15. PICK C : C = Made(accepted, s, x, T)
    OBVIOUS
<1>16. CandleOf(s, x, TicksOf(s, x, 2 * Period)) = C
    BY <1>2, <1>15, CandleOfIsMade
<1>17. A # {} \/ B # {}
    BY <1>1, <1>2, <1>6
<1>18. ASSUME NEW p \in {x, y}, NEW D, D = TicksOf(s, p, Period), D # {}, T = D,
              \A q \in {x, y} : q # p => TicksOf(s, q, Period) = {}
       PROVE  Told(step[N], x, C)
  <2>1. PICK j \in 1..N : answer[j].timestamp = p
      BY <1>14, <1>18
  <2>2. answer[j] = Made(accepted, s, p, D) /\ \A l \in 1..N : answer[l].timestamp = p => l = j
      BY <1>13, <1>18, <2>1
  <2>3. start[j] = x
      BY <1>12, <2>1
  <2>4. ASSUME NEW k \in 1..N, k # j PROVE start[k] # x
    <3>1. answer[k].timestamp # p
        BY <2>2, <2>4
    <3>2. \A q \in {x, y} : q # p => answer[k].timestamp # q
        BY <1>13, <1>18
    <3>3. answer[k].timestamp # x /\ answer[k].timestamp # y
        BY <3>1, <3>2
    <3>4. QED
        BY <1>12, <3>3
  <2>5. C = [answer[j] EXCEPT !.timestamp = x]
      BY <1>15, <1>18, <2>2, MadeRestarted
  <2>6. CandleStart(answer[j].timestamp, L) = x /\ \A k \in 1..N : k # j => CandleStart(answer[k].timestamp, L) # x
      BY <1>11, <2>3, <2>4
  <2>7. QED
      BY <1>4, <1>8, <1>10, <2>5, <2>6, OneRow
<1>19. ASSUME B = {} PROVE Told(step[N], x, C)
    BY <1>2, <1>4, <1>6, <1>17, <1>18, <1>19
<1>20. ASSUME A = {} PROVE Told(step[N], x, C)
    BY <1>2, <1>4, <1>6, <1>17, <1>18, <1>20
<1>21. ASSUME A # {} /\ B # {} PROVE Told(step[N], x, C)
  <2>1. PICK j \in 1..N : answer[j].timestamp = x
      BY <1>2, <1>14, <1>21
  <2>2. PICK l \in 1..N : answer[l].timestamp = y
      BY <1>2, <1>14, <1>21
  <2>3. /\ answer[j] = Made(accepted, s, x, A) /\ \A k \in 1..N : answer[k].timestamp = x => k = j
        /\ <<s, x>> \notin late
      BY <1>2, <1>13, <2>1
  <2>4. answer[l] = Made(accepted, s, y, B) /\ \A k \in 1..N : answer[k].timestamp = y => k = l
      BY <1>2, <1>13, <2>2
  <2>5. start[j] = x /\ start[l] = x
      BY <1>12, <2>1, <2>2
  <2>6. \A k \in 1..N : k # j /\ k # l => start[k] # x
      BY <1>12, <2>3, <2>4
  <2>7. j < l
    <3>1. j # l
        BY <1>4, <2>1, <2>2
    <3>2. ~(l < j)
      <4>1. ~(y <= x)
          BY <1>4
      <4>2. QED
          BY <1>7, <1>8, <2>1, <2>2, <4>1
    <3>3. QED
        BY <1>9, <3>1, <3>2
  <2>8. l = j + 1
    <3>1. SUFFICES ASSUME l # j + 1 PROVE FALSE
        OBVIOUS
    <3>2. PICK k : k = j + 1
        OBVIOUS
    <3>3. k \in 1..N /\ j < k /\ k < l
        BY <1>9, <2>7, <3>1, <3>2
    <3>4. answer[j].timestamp <= answer[k].timestamp /\ answer[k].timestamp <= answer[l].timestamp
        BY <1>7, <1>8, <3>3
    <3>5. answer[j].timestamp \in Nat /\ answer[k].timestamp \in Nat /\ answer[l].timestamp \in Nat
      <4>1. \A z \in Times : z \in Nat
          BY CandleBounds DEF Times
      <4>2. QED
          BY <1>9, <3>3, <4>1
    <3>6. start[j] <= start[k] /\ start[k] <= start[l] /\ start[k] \in Nat
      <4>1. CandleStart(answer[j].timestamp, L) <= CandleStart(answer[k].timestamp, L)
          BY <1>4, <3>4, <3>5, StartMonotonic
      <4>2. CandleStart(answer[k].timestamp, L) <= CandleStart(answer[l].timestamp, L)
          BY <1>4, <3>4, <3>5, StartMonotonic
      <4>3. CandleStart(answer[k].timestamp, L) \in Nat
          BY <1>4, <3>5, StartBounds
      <4>4. QED
          BY <1>11, <3>3, <4>1, <4>2, <4>3
    <3>7. start[k] = x
        BY <1>4, <2>5, <3>6
    <3>8. k # j /\ k # l
        BY <1>9, <3>3
    <3>9. QED
        BY <2>6, <3>3, <3>7, <3>8
  <2>9. \A a \in A, b \in B : a < b
      BY <1>1, <1>2, <1>4, <2>3, MinutesInOrder
  <2>10. C = Merged([answer[j] EXCEPT !.timestamp = x], answer[l])
    <3>1. [answer[j] EXCEPT !.timestamp = x] = Made(accepted, s, x, A)
        BY <2>3, MadeRestarted
    <3>2. Made(accepted, s, x, A \cup B) = Merged(Made(accepted, s, x, A), Made(accepted, s, y, B))
        BY <1>5, <1>21, <2>9, MadeUnion
    <3>3. QED
        BY <1>6, <1>15, <2>4, <3>1, <3>2
  <2>11. /\ CandleStart(answer[j].timestamp, L) = x /\ CandleStart(answer[l].timestamp, L) = x
         /\ \A k \in 1..N : k # j /\ k # l => CandleStart(answer[k].timestamp, L) # x
      BY <1>11, <2>5, <2>6
  <2>12. QED
      BY <1>4, <1>8, <1>10, <2>8, <2>10, <2>11, TwoRows
<1>22. Told(step[N], x, C)
    BY <1>19, <1>20, <1>21
<1>23. QED
    BY <1>2, <1>10, <1>16, <1>22

\* The same of what getCandles returns: every answer of the query, aggregated.
LEMMA AggregatesAreRight == CandleInv => AggregatesTellTicks
<1>1. SUFFICES ASSUME CandleInv PROVE AggregatesTellTicks
    OBVIOUS
<1>2. ASSUME NEW s \in Symbols, NEW x \in Starts(2 * Period), TicksOf(s, x, 2 * Period) # {},
             \A p \in {q \in {x, x + Period} : TicksOf(s, q, Period) # {}} :
                 /\ <<s, p>> \notin late
                 /\ \E i \in DOMAIN saved : saved[i].symbol = s /\ saved[i].timestamp = p,
             NEW from \in 0..x, NEW to \in (x + 2 * Period)..MaxTo, NEW limit \in 1..MaxTicks,
             Cardinality(Rows(s, from, x + 2 * Period)) <= 2 * limit,
             NEW candles \in GetCandles(s, from, to, limit)
      PROVE  \E n \in DOMAIN candles :
                /\ candles[n] = CandleOf(s, x, TicksOf(s, x, 2 * Period))
                /\ \A m \in DOMAIN candles : candles[m].timestamp = x => m = n
  <2>1. PICK answer \in Query(s, from, to, 2 * limit) : candles = Aggregate(answer, 2 * Period)
      BY <1>2 DEF GetCandles
  <2>2. \A p \in {x, x + Period} : TicksOf(s, p, Period) # {} =>
            /\ <<s, p>> \notin late
            /\ \E i \in DOMAIN saved : saved[i].symbol = s /\ saved[i].timestamp = p
      BY <1>2
  <2>3. Told(Aggregate(answer, 2 * Period), x, CandleOf(s, x, TicksOf(s, x, 2 * Period)))
      BY <1>1, <1>2, <2>2, AnswersAreRight
  <2>4. QED
      BY <2>1, <2>3 DEF Told
<1>3. QED
    BY <1>2 DEF AggregatesTellTicks

\* The candle of an undisturbed period is the one its ticks make, and the candles of its
\* minutes aggregate to the one that the ticks of the longer period make.
THEOREM CandlesCorrect == CandleSpec => []CandlesTellTicks
<1>1. CandleInv => CandlesTellTicks
    BY KeptAreOne, AggregatesAreRight DEF CandlesTellTicks
<1>2. QED
    BY <1>1, CandlesInductive, PTL
===============================================================================
