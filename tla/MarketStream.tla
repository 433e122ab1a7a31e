---------------------------- MODULE MarketStream ----------------------------
(***************************************************************************)
(* The price stream from end to end: the provider of the platform app that *)
(* counts the subscriptions of its components and keeps one WebSocket to   *)
(* the market data service, and the server with its two maps of            *)
(* subscriptions, its rate limit and its heartbeat. A connection is a new  *)
(* client for the server; messages of one connection arrive in order until *)
(* it breaks.                                                              *)
(***************************************************************************)
EXTENDS MarketSymbols, Naturals, Sequences, FiniteSets

CONSTANTS
    Listed,       \* SYMBOL_MAP: the symbols the server knows; components may follow others
    RequestLimit, \* RATE_LIMIT_REQUESTS: subscribe requests of a client in a window
    MaxSockets,   \* bound on the connections that exist at a time
    MaxCount,     \* bound on the components that follow a symbol
    MaxWire       \* bound on the messages a connection carries at a time

ASSUME StreamBounds ==
    /\ Listed \in SUBSET Symbols
    /\ RequestLimit \in Nat /\ MaxSockets \in Nat \ {0, 1} /\ MaxCount \in Nat /\ MaxWire \in Nat

VARIABLES
    \* the provider
    counts,    \* subCounts
    ref,       \* wsRef: the socket messages are sent on, 0 for null
    timer,     \* reconnectTimeout: "none", "running", or "cleared" but still set
    mounted,   \* whether the provider is mounted
    state,     \* readyState of each socket, "none" when the name is free
    \* between the two
    wire,      \* the messages of each socket that the server has not handled
    \* the server
    clients,      \* the registered connections
    alive,        \* isAlive of each
    symbols,      \* subscriptions: the symbols of each client
    subscribers,  \* symbolToClients: the clients of each symbol
    requests,     \* rateLimits: the requests of each client in its window
    refused       \* history: connections with a refused subscription

provider == <<counts, ref, timer, mounted, state>>
server == <<clients, alive, symbols, subscribers, requests, refused>>
streamVars == <<provider, wire, server>>

Sockets == 1..MaxSockets
Messages == [type : {"subscribe", "unsubscribe"}, symbols : SUBSET Symbols]

StreamTypeOK ==
    /\ counts \in [Symbols -> 0..MaxCount] /\ ref \in 0..MaxSockets
    /\ timer \in {"none", "running", "cleared"} /\ mounted \in BOOLEAN
    /\ state \in [Sockets -> {"none", "connecting", "open", "closing", "closed"}]
    /\ \A i \in Sockets : wire[i] \in Seq(Messages)
    /\ clients \subseteq Sockets /\ alive \subseteq Sockets /\ refused \subseteq Sockets
    /\ symbols \in [Sockets -> SUBSET Listed]
    /\ subscribers \in [Symbols -> SUBSET Sockets]
    /\ requests \in [Sockets -> 0..RequestLimit]

\* The provider has just been mounted. React's StrictMode mounts it, cleans up, which
\* closes the first socket, and mounts it again.
StreamInit ==
    /\ counts = [s \in Symbols |-> 0]
    /\ ref = 1
    /\ \E first \in {"none", "closing"} :
           state = [i \in Sockets |-> CASE i = 1 -> "connecting" [] i = 2 -> first [] OTHER -> "none"]
    /\ timer = "none" /\ mounted = TRUE
    /\ wire = [i \in Sockets |-> <<>>]
    /\ clients = {} /\ alive = {} /\ refused = {}
    /\ symbols = [i \in Sockets |-> {}]
    /\ subscribers = [s \in Symbols |-> {}]
    /\ requests = [i \in Sockets |-> 0]

-----------------------------------------------------------------------------
(* The provider                                                             *)

Active == {s \in Symbols : counts[s] > 0}

\* sendMessage drops what it cannot send. "current" are the sockets' states by
\* then and "known" the server's clients: nobody handles what is sent to a client that is
\* removed.
Send(type, S, current, known) ==
    IF ref # 0 /\ current[ref] = "open" /\ ref \in known /\ S # {}
    THEN /\ Len(wire[ref]) < MaxWire
         /\ wire' = [wire EXCEPT ![ref] = Append(@, [type |-> type, symbols |-> S])]
    ELSE UNCHANGED wire

SubscribeSymbol(s) ==
    /\ mounted /\ counts[s] < MaxCount
    /\ counts' = [counts EXCEPT ![s] = @ + 1]
    /\ Send("subscribe", IF counts[s] = 0 THEN {s} ELSE {}, state, clients)
    /\ UNCHANGED <<ref, timer, mounted, state, server>>

\* A plausible slip: the first of two components that leaves unsubscribes both.
UnsubscribeAtOnce(s) ==
    /\ counts[s] > 0
    /\ counts' = [counts EXCEPT ![s] = @ - 1]
    /\ Send("unsubscribe", {s}, state, clients)
    /\ UNCHANGED <<ref, timer, mounted, state, server>>

UnsubscribeSymbol(s) ==
    /\ counts[s] > 0
    /\ counts' = [counts EXCEPT ![s] = @ - 1]
    /\ Send("unsubscribe", IF counts[s] = 1 THEN {s} ELSE {}, state, clients)
    /\ UNCHANGED <<ref, timer, mounted, state, server>>

\* The connection is made: the server registers a client, and onopen asks for all
\* active symbols, on the socket that wsRef holds by then.
Open(i) ==
    /\ state[i] = "connecting"
    /\ state' = [state EXCEPT ![i] = "open"]
    /\ clients' = clients \cup {i} /\ alive' = alive \cup {i}
    /\ Send("subscribe", Active, state', clients')
    /\ UNCHANGED <<counts, ref, timer, mounted, symbols, subscribers, requests, refused>>

\* onclose of any socket forgets wsRef and, unless reconnectTimeout is set, starts the
\* timer. The connection failed, was lost, or was closed by either side; the server may
\* learn of it later or not at all.
OnClose(i) ==
    /\ state[i] \in {"connecting", "open", "closing"}
    /\ state' = [state EXCEPT ![i] = "closed"]
    /\ ref' = 0
    /\ timer' = IF timer = "none" THEN "running" ELSE timer
    /\ UNCHANGED <<counts, mounted, wire, server>>

\* Nobody knows these connections any more: their names stand for new ones.
Free == {i \in Sockets \ clients : state[i] \in {"none", "closed"}}

\* The timer calls connect().
Reconnect ==
    /\ timer = "running"
    /\ timer' = "none"
    /\ IF ref # 0 /\ state[ref] = "open" THEN UNCHANGED <<ref, state>>
       ELSE \E i \in Free : ref' = i /\ state' = [state EXCEPT ![i] = "connecting"]
    /\ UNCHANGED <<counts, mounted, wire, server>>

\* The cleanup of the provider clears its timer and leaves reconnectTimeout set; without
\* one, the onclose that follows starts a timer.
Unmount ==
    /\ mounted
    /\ mounted' = FALSE
    /\ timer' = IF timer = "running" THEN "cleared" ELSE timer
    /\ state' = IF ref # 0 /\ state[ref] \in {"connecting", "open"}
                THEN [state EXCEPT ![ref] = "closing"] ELSE state
    /\ UNCHANGED <<counts, ref, wire, server>>

-----------------------------------------------------------------------------
(* The server                                                               *)

\* removeClient, and what nobody reads any more: the connection's messages, its answer
\* to the ping and the window of its rate limit.
RemoveClients(gone) ==
    LET kept(f, none) == [i \in Sockets |-> IF i \in gone THEN none ELSE f[i]]
    IN  /\ clients' = clients \ gone
        /\ symbols' = kept(symbols, {})
        /\ subscribers' = [s \in Symbols |-> subscribers[s] \ {i \in gone : s \in symbols[i]}]
        /\ wire' = kept(wire, <<>>)
        /\ requests' = kept(requests, 0)
        /\ refused' = refused \ gone

\* handleSubscribe: refused by the rate limit, or counted and the listed symbols, if there
\* are any (INVALID_SYMBOLS), added to both maps. Fewer symbols are listed than the limit
\* of subscriptions that a client may have.
HandleSubscribe(i, S) ==
    IF requests[i] >= RequestLimit
    THEN refused' = refused \cup {i} /\ UNCHANGED <<symbols, subscribers, requests>>
    ELSE /\ requests' = [requests EXCEPT ![i] = @ + 1]
         /\ symbols' = [symbols EXCEPT ![i] = @ \cup (S \cap Listed)]
         /\ subscribers' = [s \in Symbols |->
                IF s \in (S \cap Listed) \ symbols[i] THEN subscribers[s] \cup {i} ELSE subscribers[s]]
         /\ UNCHANGED refused

\* handleUnsubscribe
HandleUnsubscribe(i, S) ==
    /\ symbols' = [symbols EXCEPT ![i] = @ \ S]
    /\ subscribers' = [s \in Symbols |->
            IF s \in S \cap symbols[i] THEN subscribers[s] \ {i} ELSE subscribers[s]]
    /\ UNCHANGED <<requests, refused>>

\* The server handles the next message of a connection.
HandleMessage(i) ==
    /\ i \in clients /\ wire[i] # <<>>
    /\ wire' = [wire EXCEPT ![i] = Tail(@)]
    /\ LET m == Head(wire[i])
       IN  IF m.type = "subscribe" THEN HandleSubscribe(i, m.symbols)
           ELSE HandleUnsubscribe(i, m.symbols)
    /\ UNCHANGED <<provider, clients, alive>>

\* The window of a client's rate limit ends.
WindowEnds(i) ==
    /\ requests[i] > 0
    /\ requests' = [requests EXCEPT ![i] = 0]
    /\ UNCHANGED <<provider, wire, clients, alive, symbols, subscribers, refused>>

\* The server's close event.
Disconnect(i) ==
    /\ i \in clients
    /\ RemoveClients({i})
    /\ alive' = alive \ {i}
    /\ UNCHANGED provider

\* A plausible slip: a client that was pinged counts as alive.
HeartbeatPinging ==
    /\ clients # {}
    /\ RemoveClients(clients \ alive)
    /\ UNCHANGED <<provider, alive>>

\* Every HEARTBEAT_INTERVAL_MS: who has not answered the last ping is terminated, and
\* the others are pinged.
Heartbeat ==
    /\ clients # {}
    /\ RemoveClients(clients \ alive)
    /\ alive' = {}
    /\ UNCHANGED provider

\* A browser answers a ping while its socket is open.
Pong(i) ==
    /\ i \in clients /\ state[i] = "open" /\ i \notin alive
    /\ alive' = alive \cup {i}
    /\ UNCHANGED <<provider, wire, clients, symbols, subscribers, requests, refused>>

StreamNext ==
    \/ \E s \in Symbols : SubscribeSymbol(s) \/ UnsubscribeSymbol(s)
    \/ \E i \in Sockets : Open(i) \/ OnClose(i) \/ HandleMessage(i) \/ WindowEnds(i)
                            \/ Disconnect(i) \/ Pong(i)
    \/ Reconnect \/ Unmount \/ Heartbeat

\* The interval of the heartbeat fires for as long as the server runs.
StreamSpec == StreamInit /\ [][StreamNext]_streamVars /\ WF_streamVars(Heartbeat)

-----------------------------------------------------------------------------
(* Properties                                                               *)

\* Broadcasts go where they should: only to registered clients, and once the messages
\* of the provider's open socket are handled and none of its subscriptions was refused by
\* the rate limit, that connection is mapped from exactly the listed symbols some
\* component follows. Lost connections, dropped messages and reconnections in between do
\* not matter.
BroadcastsReachFollowers ==
    /\ \A s \in Symbols : subscribers[s] \subseteq clients
    /\ ref \in clients /\ state[ref] = "open" /\ wire[ref] = <<>> /\ ref \notin refused
         => {s \in Symbols : ref \in subscribers[s]} = Active \cap Listed

\* "Clients that don't respond are disconnected": a connection whose browser is gone
\* leaves the maps of the server, although no close event arrives.
SilentClientsGo ==
    \A i \in Sockets : i \in clients /\ state[i] = "closed" ~> i \notin clients
=============================================================================
