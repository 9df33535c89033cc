---------------------------- MODULE StationProxy ----------------------------
(***************************************************************************)
(* Realtime FMU sessions of the fmu-runner in station mode                 *)
(* (fmu-runner/station_ws_proxy.py).                                       *)
(*                                                                         *)
(* Every client WebSocket has a handler that forwards commands over a      *)
(* WebSocket of its own to the Lab Station, and a reader task that relays  *)
(* the answers.  The two interleave at every await.  The reader confirms   *)
(* the durable observation of a session before it relays session.created.  *)
(*                                                                         *)
(* The Station and the ticket service are external.  The Station answers   *)
(* one socket's messages in order, and a repeated requestId from a cache,  *)
(* as realtime_ws.py does at the endpoint the proxy connects to.  One      *)
(* reservation, whose window ends once, stands for all.                    *)
(***************************************************************************)
EXTENDS Integers, Sequences, FiniteSets

CONSTANTS
    Clients,        \* client WebSockets; one name serves many in turn
    Requests,       \* requestIds of session.create
    StationIds,     \* session identifiers the Station draws (a bound)
    NoId,           \* no session, no request
    Retries,        \* whether clients repeat a requestId not yet answered
    MaxWire         \* bound: messages in flight each way on one socket

ASSUME ProxyAssumption ==
    /\ NoId \notin StationIds \cup Requests
    /\ Retries \in BOOLEAN
    /\ MaxWire \in Nat \ {0}

VARIABLES
    proxy,          \* proxy[c]: the local variables of handle_websocket
    gateway,        \* manager._sessions: the sessions a client may attach to
    relayed,        \* sessions some client was answered session.created for
    confirmed,      \* external: sessions with a durable observation
    toStation,      \* toStation[c]: messages on c's Station socket, oldest first
    fromStation,    \* fromStation[c]: the same, the other way
    station,        \* station[s]: the session s at the Station
    socket,         \* socket[c]: the Station's handler of c's socket
    lasting         \* whether the reservation's window is open

proxyVars == <<proxy, gateway, relayed, confirmed,
               toStation, fromStation, station, socket, lasting>>

Message == [kind: {"create", "attach", "terminate"},
            request: Requests \cup {NoId}, id: StationIds \cup {NoId}]
Answer == [kind: {"created", "attached", "closed", "error"},
           request: Requests \cup {NoId}, id: StationIds \cup {NoId}]

ProxyType ==
    [at: {"off", "receive", "ticket"}, request: Requests \cup {NoId},
     claims: BOOLEAN, link: {"none", "up", "dead"},
     used: SUBSET Requests, answered: SUBSET Requests, pending: SUBSET Requests,
     current: StationIds \cup {NoId},
     confirming: StationIds \cup {NoId}, answering: Requests \cup {NoId}]

NoProxy ==
    [at |-> "off", request |-> NoId, claims |-> FALSE, link |-> "none",
     used |-> {}, answered |-> {}, pending |-> {}, current |-> NoId,
     confirming |-> NoId, answering |-> NoId]

SocketType == [current: StationIds \cup {NoId}, cache: [Requests -> StationIds \cup {NoId}]]
NoSocket == [current |-> NoId, cache |-> [r \in Requests |-> NoId]]

ProxyInit ==
    /\ proxy = [c \in Clients |-> NoProxy]
    /\ gateway = {}
    /\ relayed = {}
    /\ confirmed = {}
    /\ toStation = [c \in Clients |-> <<>>]
    /\ fromStation = [c \in Clients |-> <<>>]
    /\ station = [s \in StationIds |-> "none"]
    /\ socket = [c \in Clients |-> NoSocket]
    /\ lasting = TRUE

Sends(c, m) ==
    /\ Len(toStation[c]) < MaxWire
    /\ toStation' = [toStation EXCEPT ![c] = Append(@, m)]

atStation == <<toStation, fromStation, station, socket>>

-----------------------------------------------------------------------------
(* The handler of a client's WebSocket *)

ProxyConnect(c, bearer) ==
    /\ proxy[c].at = "off"
    /\ bearer => lasting
    /\ proxy' = [proxy EXCEPT ![c] = [NoProxy EXCEPT !.at = "receive", !.claims = bearer]]
    /\ UNCHANGED <<gateway, relayed, confirmed, atStation, lasting>>

\* session.create with a ticket, or with a bearer for which one is issued.  Only
\* an answer makes a requestId known: one still in flight is taken as new.
ProxyCreate(c, r) ==
    /\ proxy[c].at = "receive"
    /\ r \notin proxy[c].answered
    /\ r \in proxy[c].used => Retries
    /\ proxy' = [proxy EXCEPT ![c].at = "ticket", ![c].request = r, ![c].used = @ \cup {r}]
    /\ UNCHANGED <<gateway, relayed, confirmed, atStation, lasting>>

\* The ticket is refused, or the claims do not authorise the request.
TicketRefused(c) ==
    /\ proxy[c].at = "ticket"
    /\ proxy' = [proxy EXCEPT ![c].at = "receive", ![c].request = NoId,
                              ![c].answered = @ \cup {proxy[c].request}]
    /\ UNCHANGED <<gateway, relayed, confirmed, atStation, lasting>>

\* The ticket is redeemed: the Station socket is opened on first use, the
\* context of the create kept and the request forwarded without the ticket.
ForwardCreate(c) ==
    LET r == proxy[c].request
    IN  /\ proxy[c].at = "ticket"
        /\ proxy[c].link # "dead"
        /\ Sends(c, [kind |-> "create", request |-> r, id |-> NoId])
        /\ proxy' = [proxy EXCEPT ![c].at = "receive", ![c].request = NoId,
                                  ![c].claims = TRUE, ![c].link = "up",
                                  ![c].pending = @ \cup {r}]
        /\ UNCHANGED <<gateway, relayed, confirmed, fromStation, station, socket, lasting>>

\* session.attach asks the gateway's registry first.
ForwardAttach(c, s) ==
    /\ proxy[c].at = "receive"
    /\ proxy[c].claims
    /\ proxy[c].link # "dead"
    /\ s \in gateway
    /\ IF lasting
       THEN /\ Sends(c, [kind |-> "attach", request |-> NoId, id |-> s])
            /\ proxy' = [proxy EXCEPT ![c].link = "up"]
            /\ UNCHANGED gateway
       ELSE /\ gateway' = gateway \ {s}
            /\ UNCHANGED <<proxy, toStation>>
    /\ UNCHANGED <<relayed, confirmed, fromStation, station, socket, lasting>>

\* Any other command goes through once a session is current; session.terminate
\* is the one that matters here.
ForwardTerminate(c) ==
    /\ proxy[c].at = "receive"
    /\ proxy[c].current # NoId
    /\ proxy[c].link = "up"
    /\ Sends(c, [kind |-> "terminate", request |-> NoId, id |-> proxy[c].current])
    /\ UNCHANGED <<proxy, gateway, relayed, confirmed, fromStation, station, socket, lasting>>

\* The client leaves, or a send on a dead Station socket ends the handler: the
\* reader is cancelled, an observation under way may or may not be recorded, and
\* the Station socket is closed.
ProxyDisconnect(c) ==
    /\ proxy[c].at = "receive" \/ (proxy[c].at = "ticket" /\ proxy[c].link = "dead")
    /\ \E recorded \in SUBSET ({proxy[c].confirming} \ {NoId}) :
            confirmed' = confirmed \cup recorded
    /\ proxy' = [proxy EXCEPT ![c] = NoProxy]
    /\ toStation' = [toStation EXCEPT ![c] = <<>>]
    /\ fromStation' = [fromStation EXCEPT ![c] = <<>>]
    /\ socket' = [socket EXCEPT ![c] = NoSocket]
    /\ UNCHANGED <<gateway, relayed, station, lasting>>

-----------------------------------------------------------------------------
(* The reader task *)

Reads(c, kind) ==
    /\ proxy[c].link = "up"
    /\ proxy[c].confirming = NoId
    /\ fromStation[c] # <<>>
    /\ Head(fromStation[c]).kind = kind
    /\ fromStation' = [fromStation EXCEPT ![c] = Tail(@)]

\* The session is registered and the answer kept and relayed.
Relay(c, r, s) ==
    /\ gateway' = gateway \cup {s}
    /\ relayed' = relayed \cup {s}
    /\ proxy' = [proxy EXCEPT ![c].current = s, ![c].answered = @ \cup {r},
                              ![c].confirming = NoId, ![c].answering = NoId]

\* session.created takes the context of its request; the observation of a
\* ticket is confirmed first.  An answer whose context is gone has no ticket.
ReadCreated(c) ==
    LET m == Head(fromStation[c])
    IN  /\ Reads(c, "created")
        /\ IF m.request \in proxy[c].pending
           THEN /\ proxy' = [proxy EXCEPT ![c].pending = @ \ {m.request},
                                          ![c].confirming = m.id, ![c].answering = m.request]
                /\ UNCHANGED <<gateway, relayed>>
           ELSE Relay(c, m.request, m.id)
        /\ UNCHANGED <<confirmed, toStation, station, socket, lasting>>

ConfirmSucceeds(c) ==
    /\ proxy[c].confirming # NoId
    /\ confirmed' = confirmed \cup {proxy[c].confirming}
    /\ Relay(c, proxy[c].answering, proxy[c].confirming)
    /\ UNCHANGED <<atStation, lasting>>

\* Mutated form: the failure is noticed and the answer relayed all the same.
ConfirmFailsUnheard(c) ==
    /\ proxy[c].confirming # NoId
    /\ Relay(c, proxy[c].answering, proxy[c].confirming)
    /\ UNCHANGED <<confirmed, atStation, lasting>>

\* The Station is told to end the session, if its socket still works, and the
\* client gets an error.
ConfirmFails(c) ==
    LET s == proxy[c].confirming
    IN  /\ s # NoId
        /\ \E recorded \in {{}, {s}} : confirmed' = confirmed \cup recorded
        /\ IF proxy[c].link = "up"
           THEN Sends(c, [kind |-> "terminate", request |-> NoId, id |-> s])
           ELSE UNCHANGED toStation
        /\ proxy' = [proxy EXCEPT ![c].answered = @ \cup {proxy[c].answering},
                                  ![c].confirming = NoId, ![c].answering = NoId]
        /\ UNCHANGED <<gateway, relayed, fromStation, station, socket, lasting>>

ReadAttached(c) ==
    /\ Reads(c, "attached")
    /\ proxy' = [proxy EXCEPT ![c].current = Head(fromStation[c]).id]
    /\ UNCHANGED <<gateway, relayed, confirmed, toStation, station, socket, lasting>>

ReadClosed(c) ==
    LET s == Head(fromStation[c]).id
    IN  /\ Reads(c, "closed")
        /\ gateway' = gateway \ {s}
        /\ proxy' = [proxy EXCEPT ![c].current = IF @ = s THEN NoId ELSE @]
        /\ UNCHANGED <<relayed, confirmed, toStation, station, socket, lasting>>

ReadError(c) ==
    /\ Reads(c, "error")
    /\ proxy' = [proxy EXCEPT ![c].answered = @ \cup ({Head(fromStation[c]).request} \ {NoId})]
    /\ UNCHANGED <<gateway, relayed, confirmed, toStation, station, socket, lasting>>

-----------------------------------------------------------------------------
(* The gateway's cleanup loop and restart, and the clock *)

ProxyCleanup ==
    /\ ~lasting
    /\ gateway # {}
    /\ gateway' = {}
    /\ UNCHANGED <<proxy, relayed, confirmed, atStation, lasting>>

ProxyRestart ==
    /\ proxy' = [c \in Clients |-> NoProxy]
    /\ gateway' = {}
    /\ toStation' = [c \in Clients |-> <<>>]
    /\ fromStation' = [c \in Clients |-> <<>>]
    /\ socket' = [c \in Clients |-> NoSocket]
    /\ UNCHANGED <<relayed, confirmed, station, lasting>>

WindowCloses ==
    /\ lasting
    /\ lasting' = FALSE
    /\ UNCHANGED <<proxy, gateway, relayed, confirmed, atStation>>

-----------------------------------------------------------------------------
(* External: the Lab Station *)

Takes(c, kind) ==
    /\ toStation[c] # <<>>
    /\ Head(toStation[c]).kind = kind
    /\ toStation' = [toStation EXCEPT ![c] = Tail(@)]

Answers(c, a) ==
    /\ Len(fromStation[c]) < MaxWire
    /\ fromStation' = [fromStation EXCEPT ![c] = Append(@, a)]

byStation == <<proxy, gateway, relayed, confirmed, lasting>>

Asked(c) == Head(toStation[c]).request
Cached(c) == socket[c].cache[Asked(c)]

\* A new session, or the session of a request it has answered before.
StationCreates(c, s) ==
    /\ Takes(c, "create")
    /\ s = Cached(c) \/ (Cached(c) = NoId /\ station[s] = "none" /\ lasting)
    /\ Answers(c, [kind |-> "created", request |-> Asked(c), id |-> s])
    /\ IF s = Cached(c)
       THEN UNCHANGED <<station, socket>>
       ELSE /\ station' = [station EXCEPT ![s] = "open"]
            /\ socket' = [socket EXCEPT ![c].current = s, ![c].cache[Asked(c)] = s]
    /\ UNCHANGED byStation

StationRefuses(c) ==
    /\ Takes(c, "create")
    /\ Cached(c) = NoId
    /\ Answers(c, [kind |-> "error", request |-> Asked(c), id |-> NoId])
    /\ UNCHANGED <<station, socket, byStation>>

StationAttaches(c) ==
    LET s == Head(toStation[c]).id
    IN  /\ Takes(c, "attach")
        /\ IF station[s] = "open"
           THEN /\ Answers(c, [kind |-> "attached", request |-> NoId, id |-> s])
                /\ socket' = [socket EXCEPT ![c].current = s]
           ELSE /\ Answers(c, [kind |-> "error", request |-> NoId, id |-> NoId])
                /\ UNCHANGED socket
        /\ UNCHANGED <<station, byStation>>

\* session.terminate ends the socket's current session, whatever it names.
StationTerminates(c) ==
    LET s == socket[c].current
    IN  /\ Takes(c, "terminate")
        /\ IF s # NoId /\ lasting
           THEN /\ Answers(c, [kind |-> "closed", request |-> NoId, id |-> s])
                /\ station' = [station EXCEPT ![s] = "closed"]
           ELSE /\ Answers(c, [kind |-> "error", request |-> NoId, id |-> NoId])
                /\ UNCHANGED station
        /\ UNCHANGED <<socket, byStation>>

\* The Station ends a session whose window is over or that nobody holds.
StationExpires(s) ==
    /\ station[s] = "open"
    /\ ~lasting \/ \A c \in Clients : socket[c].current # s
    /\ station' = [station EXCEPT ![s] = "closed"]
    /\ \/ \E c \in Clients :
            /\ socket[c].current = s
            /\ Answers(c, [kind |-> "closed", request |-> NoId, id |-> s])
       \/ UNCHANGED fromStation
    /\ UNCHANGED <<toStation, socket, byStation>>

\* The Station socket breaks: the reader ends, the handler does not know yet.
StationHangsUp(c) ==
    /\ proxy[c].link = "up"
    /\ proxy' = [proxy EXCEPT ![c].link = "dead"]
    /\ toStation' = [toStation EXCEPT ![c] = <<>>]
    /\ fromStation' = [fromStation EXCEPT ![c] = <<>>]
    /\ socket' = [socket EXCEPT ![c] = NoSocket]
    /\ UNCHANGED <<gateway, relayed, confirmed, station, lasting>>

ProxyNext ==
    \/ \E c \in Clients :
        \/ \E bearer \in BOOLEAN : ProxyConnect(c, bearer)
        \/ \E r \in Requests : ProxyCreate(c, r)
        \/ TicketRefused(c)
        \/ ForwardCreate(c)
        \/ \E s \in StationIds : ForwardAttach(c, s)
        \/ ForwardTerminate(c)
        \/ ProxyDisconnect(c)
        \/ ReadCreated(c)
        \/ ConfirmSucceeds(c)
        \/ ConfirmFails(c)
        \/ ReadAttached(c)
        \/ ReadClosed(c)
        \/ ReadError(c)
        \/ \E s \in StationIds : StationCreates(c, s)
        \/ StationRefuses(c)
        \/ StationAttaches(c)
        \/ StationTerminates(c)
        \/ StationHangsUp(c)
    \/ \E s \in StationIds : StationExpires(s)
    \/ ProxyCleanup
    \/ ProxyRestart
    \/ WindowCloses

ProxySpec == ProxyInit /\ [][ProxyNext]_proxyVars

-----------------------------------------------------------------------------
ProxyTypeOK ==
    /\ proxy \in [Clients -> ProxyType]
    /\ gateway \subseteq StationIds
    /\ relayed \subseteq StationIds
    /\ confirmed \subseteq StationIds
    /\ toStation \in [Clients -> Seq(Message)]
    /\ fromStation \in [Clients -> Seq(Answer)]
    /\ station \in [StationIds -> {"none", "open", "closed"}]
    /\ socket \in [Clients -> SocketType]
    /\ lasting \in BOOLEAN

\* The durable observation of a session is recorded before session.created is
\* returned, and before any client may attach (fmu-runner/README.md:147).
ObservedBeforeCreated == relayed \cup gateway \subseteq confirmed

=============================================================================
