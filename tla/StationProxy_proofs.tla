------------------------- MODULE StationProxy_proofs -------------------------
(***************************************************************************)
(* Proofs about the realtime sessions of the fmu-runner in station mode,   *)
(* for every number of clients, requests and sessions: as long as no       *)
(* client repeats a requestId before it is answered, no session is         *)
(* announced without its durable observation.                              *)
(***************************************************************************)
EXTENDS StationProxy, TLAPS

\* The context of a create waits for one answer: of what is on a client's Station
\* socket, one message at most belongs to each request that has a context, and
\* none to any other.
Once(out, in, open) ==
    /\ \A i \in 1..Len(out) : out[i].kind = "create" => out[i].request \in open
    /\ \A i \in 1..Len(in) : in[i].kind = "created" => in[i].request \in open
    /\ \A i, j \in 1..Len(out) :
        i # j /\ out[i].kind = "create" /\ out[j].kind = "create" =>
            out[i].request # out[j].request
    /\ \A i, j \in 1..Len(in) :
        i # j /\ in[i].kind = "created" /\ in[j].kind = "created" =>
            in[i].request # in[j].request
    /\ \A i \in 1..Len(out), j \in 1..Len(in) :
        out[i].kind = "create" /\ in[j].kind = "created" => out[i].request # in[j].request

\* A request has a context only after it was used, and not before it is forwarded.
Contexts(p) ==
    /\ p.pending \subseteq p.used
    /\ p.at = "off" => p.pending = {}
    /\ p.at = "ticket" =>
        p.request \in Requests /\ p.request \in p.used /\ p.request \notin p.pending
    /\ p.confirming # NoId => p.answering \in Requests

ClientInv(p, out, in) == Contexts(p) /\ Once(out, in, p.pending)

ProxyInv ==
    /\ ProxyTypeOK
    /\ ObservedBeforeCreated
    /\ \A c \in Clients : ClientInv(proxy[c], toStation[c], fromStation[c])

-----------------------------------------------------------------------------
(* What happens on a Station socket                                        *)

LEMMA OnceEmpty == \A open : Once(<<>>, <<>>, open)
  BY DEF Once

LEMMA OnceSend ==
    ASSUME NEW out \in Seq(Message), NEW in \in Seq(Answer), NEW open, NEW m \in Message,
           Once(out, in, open)
    PROVE  /\ m.kind # "create" => Once(Append(out, m), in, open)
           /\ m.request \notin open => Once(Append(out, m), in, open \cup {m.request})
  BY DEF Once

LEMMA OnceTake ==
    ASSUME NEW out \in Seq(Message), NEW in \in Seq(Answer), NEW open,
           Once(out, in, open), out # <<>>
    PROVE  Once(Tail(out), in, open)
  BY DEF Once

LEMMA OnceAnswer ==
    ASSUME NEW out \in Seq(Message), NEW in \in Seq(Answer), NEW open, NEW a \in Answer,
           Once(out, in, open), a.kind # "created"
    PROVE  Once(out, Append(in, a), open)
  BY DEF Once

LEMMA OnceCreated ==
    ASSUME NEW out \in Seq(Message), NEW in \in Seq(Answer), NEW open, NEW a \in Answer,
           Once(out, in, open), out # <<>>, Head(out).kind = "create",
           a.request = Head(out).request
    PROVE  Once(Tail(out), Append(in, a), open)
  BY DEF Once

LEMMA OnceRead ==
    ASSUME NEW out \in Seq(Message), NEW in \in Seq(Answer), NEW open,
           Once(out, in, open), in # <<>>
    PROVE  /\ Once(out, Tail(in), open)
           /\ Head(in).kind = "created" =>
                /\ Head(in).request \in open
                /\ Once(out, Tail(in), open \ {Head(in).request})
  BY DEF Once

-----------------------------------------------------------------------------
\* A step of one client, its reader or the Station on its socket.
LEMMA OneClient ==
    ASSUME ProxyInv, NEW c \in Clients, NEW p \in ProxyType,
           NEW out \in Seq(Message), NEW in \in Seq(Answer),
           proxy' = [proxy EXCEPT ![c] = p],
           toStation' = [toStation EXCEPT ![c] = out],
           fromStation' = [fromStation EXCEPT ![c] = in],
           ClientInv(p, out, in), ObservedBeforeCreated',
           gateway' \subseteq StationIds, relayed' \subseteq StationIds,
           confirmed' \subseteq StationIds,
           station' \in [StationIds -> {"none", "open", "closed"}],
           socket' \in [Clients -> SocketType], lasting' \in BOOLEAN
    PROVE  ProxyInv'
  BY DEF ProxyInv, ProxyTypeOK

LEMMA StepType ==
    ASSUME ProxyInv, NEW c \in Clients
    PROVE  /\ proxy[c] \in ProxyType
           /\ toStation[c] \in Seq(Message) /\ fromStation[c] \in Seq(Answer)
           /\ socket[c] \in SocketType
           /\ Contexts(proxy[c]) /\ Once(toStation[c], fromStation[c], proxy[c].pending)
           /\ proxy = [proxy EXCEPT ![c] = proxy[c]]
           /\ toStation = [toStation EXCEPT ![c] = toStation[c]]
           /\ fromStation = [fromStation EXCEPT ![c] = fromStation[c]]
  BY DEF ProxyInv, ProxyTypeOK, ClientInv

LEMMA HeadTail ==
    ASSUME NEW S, NEW q \in Seq(S), q # <<>>
    PROVE  Head(q) \in S /\ Tail(q) \in Seq(S)
  OBVIOUS

LEMMA NoProxyFacts ==
    /\ NoProxy \in ProxyType /\ NoProxy.at = "off" /\ NoProxy.pending = {} /\ NoProxy.used = {}
    /\ NoProxy.confirming = NoId /\ Contexts(NoProxy)
    /\ NoSocket \in SocketType
  BY DEF NoProxy, ProxyType, Contexts, NoSocket, SocketType

\* The handler moves on without a message: its wires stay as they are.
LEMMA HandlerOnly ==
    ASSUME ProxyInv, NEW c \in Clients, NEW p \in ProxyType,
           proxy' = [proxy EXCEPT ![c] = p],
           Contexts(p), p.pending = proxy[c].pending,
           UNCHANGED <<relayed, atStation, lasting>>, gateway' \subseteq gateway,
           confirmed \subseteq confirmed', confirmed' \subseteq StationIds
    PROVE  ProxyInv'
  <1>1. ClientInv(p, toStation[c], fromStation[c])
    BY StepType DEF ClientInv
  <1>2. ObservedBeforeCreated'
    BY DEF ProxyInv, ObservedBeforeCreated
  <1>3. /\ toStation' = [toStation EXCEPT ![c] = toStation[c]]
        /\ fromStation' = [fromStation EXCEPT ![c] = fromStation[c]]
    BY StepType DEF atStation
  <1> QED BY <1>1, <1>2, <1>3, StepType, OneClient DEF ProxyInv, ProxyTypeOK, atStation

LEMMA ClientStep ==
    ASSUME ProxyInv, ~Retries, NEW c \in Clients,
           \/ \E bearer \in BOOLEAN : ProxyConnect(c, bearer)
           \/ \E r \in Requests : ProxyCreate(c, r)
           \/ TicketRefused(c)
    PROVE  ProxyInv'
  <1> USE ProxyAssumption
  <1> DEFINE q == proxy[c]
  <1>1. q \in ProxyType /\ Contexts(q) /\ confirmed \subseteq StationIds
    BY StepType DEF ProxyInv, ProxyTypeOK
  <1>3. ASSUME NEW bearer \in BOOLEAN, ProxyConnect(c, bearer)
        PROVE  ProxyInv'
    <2> DEFINE p == [NoProxy EXCEPT !.at = "receive", !.claims = bearer]
    <2>1. /\ p \in ProxyType /\ p.at = "receive" /\ p.pending = {} /\ p.used = {}
          /\ p.confirming = NoId
      BY DEF NoProxy, ProxyType
    <2>2. proxy' = [proxy EXCEPT ![c] = p] /\ q.pending = {}
      BY <1>1, <1>3 DEF ProxyConnect, Contexts
    <2> HIDE DEF p
    <2>3. Contexts(p)
      BY <2>1 DEF Contexts
    <2>4. UNCHANGED <<relayed, confirmed, atStation, lasting, gateway>>
      BY <1>3 DEF ProxyConnect
    <2> QED BY <1>1, <2>1, <2>2, <2>3, <2>4, HandlerOnly
  <1>4. ASSUME NEW r \in Requests, ProxyCreate(c, r)
        PROVE  ProxyInv'
    <2> DEFINE p == [q EXCEPT !.at = "ticket", !.request = r, !.used = @ \cup {r}]
    <2>1. /\ p \in ProxyType /\ p.at = "ticket" /\ p.pending = q.pending /\ p.request = r
          /\ p.used = q.used \cup {r} /\ p.confirming = q.confirming /\ p.answering = q.answering
      BY <1>1 DEF ProxyType
    <2>2. proxy' = [proxy EXCEPT ![c] = p] /\ r \notin q.used
      BY <1>4 DEF ProxyCreate, ProxyInv, ProxyTypeOK
    <2> HIDE DEF p
    <2>3. Contexts(p)
      BY <1>1, <2>1, <2>2 DEF Contexts
    <2>4. UNCHANGED <<relayed, confirmed, atStation, lasting, gateway>>
      BY <1>4 DEF ProxyCreate
    <2> QED BY <1>1, <2>1, <2>2, <2>3, <2>4, HandlerOnly
  <1>5. CASE TicketRefused(c)
    <2> DEFINE p == [q EXCEPT !.at = "receive", !.request = NoId,
                              !.answered = @ \cup {proxy[c].request}]
    <2>1. q.request \in Requests
      BY <1>1, <1>5 DEF TicketRefused, Contexts
    <2>2. /\ p \in ProxyType /\ p.at = "receive" /\ p.pending = q.pending /\ p.used = q.used
          /\ p.confirming = q.confirming /\ p.answering = q.answering
      BY <1>1, <2>1 DEF ProxyType
    <2>3. proxy' = [proxy EXCEPT ![c] = p]
      BY <1>5 DEF TicketRefused, ProxyInv, ProxyTypeOK
    <2> HIDE DEF p
    <2>4. Contexts(p)
      BY <1>1, <2>2 DEF Contexts
    <2>5. UNCHANGED <<relayed, confirmed, atStation, lasting, gateway>>
      BY <1>5 DEF TicketRefused
    <2> QED BY <1>1, <2>2, <2>3, <2>4, <2>5, HandlerOnly
  <1> QED BY <1>3, <1>4, <1>5

\* A message of the client's handler, or of its reader, to the Station.
LEMMA SendInv ==
    ASSUME ProxyInv, NEW c \in Clients, NEW p \in ProxyType, NEW m \in Message, Sends(c, m),
           proxy' = [proxy EXCEPT ![c] = p], Contexts(p),
           \/ m.kind # "create" /\ p.pending = proxy[c].pending
           \/ /\ m.request \notin proxy[c].pending
              /\ p.pending = proxy[c].pending \cup {m.request},
           confirmed \subseteq confirmed', confirmed' \subseteq StationIds,
           UNCHANGED <<gateway, relayed, fromStation, station, socket, lasting>>
    PROVE  ProxyInv'
  <1>1. Append(toStation[c], m) \in Seq(Message)
    BY StepType
  <1>2. ClientInv(p, Append(toStation[c], m), fromStation[c])
    <2> DEFINE out == toStation[c]
               in == fromStation[c]
               open == proxy[c].pending
    <2>1. out \in Seq(Message) /\ in \in Seq(Answer) /\ Once(out, in, open)
      BY StepType
    <2> HIDE DEF out, in, open
    <2>2. /\ m.kind # "create" => Once(Append(out, m), in, open)
          /\ m.request \notin open => Once(Append(out, m), in, open \cup {m.request})
      BY <2>1, OnceSend
    <2>3. Once(Append(out, m), in, p.pending)
      BY <2>2 DEF open
    <2> QED BY <2>3 DEF ClientInv, out, in
  <1>3. toStation' = [toStation EXCEPT ![c] = Append(toStation[c], m)]
    BY DEF Sends, ProxyInv, ProxyTypeOK
  <1>4. ObservedBeforeCreated'
    BY DEF ProxyInv, ObservedBeforeCreated
  <1> QED BY <1>1, <1>2, <1>3, <1>4, StepType, OneClient DEF ProxyInv, ProxyTypeOK

LEMMA ForwardStep ==
    ASSUME ProxyInv, NEW c \in Clients,
           \/ ForwardCreate(c)
           \/ \E s \in StationIds : ForwardAttach(c, s)
           \/ ForwardTerminate(c)
    PROVE  ProxyInv'
  <1> USE ProxyAssumption
  <1> DEFINE q == proxy[c]
  <1>1. q \in ProxyType /\ Contexts(q) /\ confirmed \subseteq StationIds
    BY StepType DEF ProxyInv, ProxyTypeOK
  <1>2. CASE ForwardCreate(c)
    <2> DEFINE p == [q EXCEPT !.at = "receive", !.request = NoId, !.claims = TRUE,
                              !.link = "up", !.pending = @ \cup {q.request}]
               m == [kind |-> "create", request |-> q.request, id |-> NoId]
    <2>1. q.request \in Requests /\ q.request \in q.used /\ q.request \notin q.pending
      BY <1>1, <1>2 DEF ForwardCreate, Contexts
    <2>2. m \in Message /\ m.request = q.request
      BY <2>1 DEF Message
    <2>3. /\ p \in ProxyType /\ p.at = "receive" /\ p.pending = q.pending \cup {q.request}
          /\ p.used = q.used /\ p.confirming = q.confirming /\ p.answering = q.answering
      BY <1>1, <2>1 DEF ProxyType
    <2>4. proxy' = [proxy EXCEPT ![c] = p] /\ Sends(c, m)
      BY <1>2 DEF ForwardCreate, ProxyInv, ProxyTypeOK
    <2>5. UNCHANGED <<gateway, relayed, confirmed, fromStation, station, socket, lasting>>
      BY <1>2 DEF ForwardCreate
    <2> HIDE DEF p, m
    <2>6. Contexts(p)
      BY <1>1, <2>1, <2>3 DEF Contexts
    <2> QED BY <1>1, <2>1, <2>2, <2>3, <2>4, <2>5, <2>6, SendInv
  <1>3. ASSUME NEW s \in StationIds, ForwardAttach(c, s)
        PROVE  ProxyInv'
    <2>1. CASE lasting
      <3> DEFINE p == [q EXCEPT !.link = "up"]
                 m == [kind |-> "attach", request |-> NoId, id |-> s]
      <3>1. m \in Message /\ m.kind # "create"
        BY DEF Message
      <3>2. /\ p \in ProxyType /\ p.at = q.at /\ p.pending = q.pending /\ p.used = q.used
            /\ p.request = q.request /\ p.confirming = q.confirming /\ p.answering = q.answering
        BY <1>1 DEF ProxyType
      <3>3. proxy' = [proxy EXCEPT ![c] = p] /\ Sends(c, m)
        BY <1>3, <2>1 DEF ForwardAttach, ProxyInv, ProxyTypeOK
      <3>4. UNCHANGED <<gateway, relayed, confirmed, fromStation, station, socket, lasting>>
        BY <1>3, <2>1 DEF ForwardAttach
      <3> HIDE DEF p, m
      <3>5. Contexts(p)
        BY <1>1, <3>2 DEF Contexts
      <3> QED BY <1>1, <3>1, <3>2, <3>3, <3>4, <3>5, SendInv
    <2>2. CASE ~lasting
      <3>1. /\ UNCHANGED <<proxy, relayed, confirmed, atStation, lasting>>
            /\ gateway' \subseteq gateway
        BY <1>3, <2>2 DEF ForwardAttach, atStation
      <3> QED BY <1>1, <3>1, StepType, HandlerOnly
    <2> QED BY <2>1, <2>2
  <1>4. CASE ForwardTerminate(c)
    <2> DEFINE m == [kind |-> "terminate", request |-> NoId, id |-> q.current]
    <2>1. m \in Message /\ m.kind # "create"
      BY <1>1 DEF Message, ProxyType
    <2>2. /\ Sends(c, m)
          /\ UNCHANGED <<proxy, gateway, relayed, confirmed, fromStation, station, socket, lasting>>
      BY <1>4 DEF ForwardTerminate
    <2> HIDE DEF m
    <2> QED BY <1>1, <2>1, <2>2, StepType, SendInv
  <1> QED BY <1>2, <1>3, <1>4

-----------------------------------------------------------------------------
(* The handler leaves, or loses the Station socket *)

\* Both wires of a client are empty after it.
LEMMA WiresEmptied ==
    ASSUME ProxyInv, NEW c \in Clients, NEW p \in ProxyType, Contexts(p),
           proxy' = [proxy EXCEPT ![c] = p],
           toStation' = [toStation EXCEPT ![c] = <<>>],
           fromStation' = [fromStation EXCEPT ![c] = <<>>],
           socket' = [socket EXCEPT ![c] = NoSocket],
           confirmed \subseteq confirmed', confirmed' \subseteq StationIds,
           UNCHANGED <<gateway, relayed, station, lasting>>
    PROVE  ProxyInv'
  <1>1. ClientInv(p, <<>>, <<>>)
    BY OnceEmpty DEF ClientInv
  <1>2. ObservedBeforeCreated'
    BY DEF ProxyInv, ObservedBeforeCreated
  <1>3. socket' \in [Clients -> SocketType]
    BY NoProxyFacts DEF ProxyInv, ProxyTypeOK
  <1>4. <<>> \in Seq(Message) /\ <<>> \in Seq(Answer)
    OBVIOUS
  <1> QED BY <1>1, <1>2, <1>3, <1>4, OneClient DEF ProxyInv, ProxyTypeOK

LEMMA LeaveStep ==
    ASSUME ProxyInv, NEW c \in Clients, ProxyDisconnect(c) \/ StationHangsUp(c)
    PROVE  ProxyInv'
  <1> DEFINE q == proxy[c]
  <1>1. q \in ProxyType /\ Contexts(q) /\ confirmed \subseteq StationIds
    BY StepType DEF ProxyInv, ProxyTypeOK
  <1>2. CASE ProxyDisconnect(c)
    <2>1. confirmed \subseteq confirmed' /\ confirmed' \subseteq StationIds
      BY <1>1, <1>2 DEF ProxyDisconnect, ProxyType
    <2> QED BY <1>2, <2>1, WiresEmptied, NoProxyFacts DEF ProxyDisconnect
  <1>3. CASE StationHangsUp(c)
    <2> DEFINE p == [q EXCEPT !.link = "dead"]
    <2>1. /\ p \in ProxyType /\ p.at = q.at /\ p.pending = q.pending /\ p.used = q.used
          /\ p.request = q.request /\ p.confirming = q.confirming /\ p.answering = q.answering
      BY <1>1 DEF ProxyType
    <2>2. proxy' = [proxy EXCEPT ![c] = p]
      BY <1>3 DEF StationHangsUp, ProxyInv, ProxyTypeOK
    <2> HIDE DEF p
    <2>3. Contexts(p)
      BY <1>1, <2>1 DEF Contexts
    <2> QED BY <1>1, <1>3, <2>1, <2>2, <2>3, WiresEmptied DEF StationHangsUp
  <1> QED BY <1>2, <1>3

-----------------------------------------------------------------------------
(* The reader task *)

\* The reader takes one answer and registers no session.
LEMMA ReadInv ==
    ASSUME ProxyInv, NEW c \in Clients, NEW p \in ProxyType, Contexts(p),
           proxy' = [proxy EXCEPT ![c] = p],
           fromStation' = [fromStation EXCEPT ![c] = Tail(@)],
           fromStation[c] # <<>>,
           Once(toStation[c], Tail(fromStation[c]), p.pending),
           gateway' \subseteq gateway,
           UNCHANGED <<relayed, confirmed, toStation, station, socket, lasting>>
    PROVE  ProxyInv'
  <1>1. ClientInv(p, toStation[c], Tail(fromStation[c]))
    BY DEF ClientInv
  <1>2. ObservedBeforeCreated'
    BY DEF ProxyInv, ObservedBeforeCreated
  <1>3. /\ Tail(fromStation[c]) \in Seq(Answer)
        /\ fromStation' = [fromStation EXCEPT ![c] = Tail(fromStation[c])]
    BY StepType, HeadTail
  <1>4. toStation' = [toStation EXCEPT ![c] = toStation[c]]
    BY StepType
  <1> QED BY <1>1, <1>2, <1>3, <1>4, StepType, OneClient DEF ProxyInv, ProxyTypeOK

LEMMA ReaderStep ==
    ASSUME ProxyInv, NEW c \in Clients,
           ReadCreated(c) \/ ReadAttached(c) \/ ReadClosed(c) \/ ReadError(c)
    PROVE  ProxyInv'
  <1> DEFINE q == proxy[c]
             in == fromStation[c]
             m == Head(in)
  <1>1. q \in ProxyType /\ Contexts(q) /\ in \in Seq(Answer) /\ in # <<>>
    BY StepType DEF ReadCreated, ReadAttached, ReadClosed, ReadError, Reads
  <1>2. m \in Answer
    BY <1>1, HeadTail
  <1>3. /\ m.request \in Requests \cup {NoId} /\ m.id \in StationIds \cup {NoId}
    BY <1>2 DEF Answer
  <1>4. /\ Once(toStation[c], Tail(in), q.pending)
        /\ m.kind = "created" =>
            m.request \in q.pending /\ Once(toStation[c], Tail(in), q.pending \ {m.request})
    BY <1>1, StepType, OnceRead
  <1>5. fromStation' = [fromStation EXCEPT ![c] = Tail(@)]
    BY DEF ReadCreated, ReadAttached, ReadClosed, ReadError, Reads
  <1>6. CASE ReadCreated(c)
    <2> DEFINE p == [q EXCEPT !.pending = @ \ {m.request},
                              !.confirming = m.id, !.answering = m.request]
    <2>1. m.request \in q.pending
      BY <1>4, <1>6 DEF ReadCreated, Reads
    <2>2. /\ p \in ProxyType /\ p.at = q.at /\ p.pending = q.pending \ {m.request}
          /\ p.used = q.used /\ p.request = q.request /\ p.answering = m.request
      BY <1>1, <1>3 DEF ProxyType
    <2>3. /\ proxy' = [proxy EXCEPT ![c] = p]
          /\ UNCHANGED <<gateway, relayed, confirmed, toStation, station, socket, lasting>>
      BY <1>6, <2>1 DEF ReadCreated, ProxyInv, ProxyTypeOK
    <2>4. Once(toStation[c], Tail(in), q.pending \ {m.request})
      BY <1>4, <1>6 DEF ReadCreated, Reads
    <2>5. m.request \in Requests
      BY <1>1, <2>1 DEF Contexts, ProxyType
    <2> HIDE DEF p, m
    <2>6. Contexts(p)
      BY <1>1, <2>2, <2>5 DEF Contexts
    <2> QED BY <1>1, <1>5, <2>2, <2>3, <2>4, <2>6, ReadInv
  <1>7. CASE ReadAttached(c) \/ ReadClosed(c) \/ ReadError(c)
    <2>1. PICK p \in ProxyType :
            /\ proxy' = [proxy EXCEPT ![c] = p]
            /\ p.at = q.at /\ p.pending = q.pending /\ p.used = q.used
            /\ p.request = q.request /\ p.confirming = q.confirming
            /\ p.answering = q.answering
      <3>1. CASE ReadAttached(c)
        <4> DEFINE k == [q EXCEPT !.current = m.id]
        <4>1. /\ k \in ProxyType /\ k.at = q.at /\ k.pending = q.pending /\ k.used = q.used
              /\ k.request = q.request /\ k.confirming = q.confirming
              /\ k.answering = q.answering
          BY <1>1, <1>3 DEF ProxyType
        <4>2. proxy' = [proxy EXCEPT ![c] = k]
          BY <3>1 DEF ReadAttached, ProxyInv, ProxyTypeOK
        <4> HIDE DEF k
        <4> QED BY <4>1, <4>2
      <3>2. CASE ReadClosed(c)
        <4> DEFINE k == [q EXCEPT !.current = IF q.current = m.id THEN NoId ELSE q.current]
        <4>1. /\ k \in ProxyType /\ k.at = q.at /\ k.pending = q.pending /\ k.used = q.used
              /\ k.request = q.request /\ k.confirming = q.confirming
              /\ k.answering = q.answering
          BY <1>1, <1>3 DEF ProxyType
        <4>2. proxy' = [proxy EXCEPT ![c] = k]
          BY <3>2 DEF ReadClosed, ProxyInv, ProxyTypeOK
        <4> HIDE DEF k
        <4> QED BY <4>1, <4>2
      <3>3. CASE ReadError(c)
        <4> DEFINE k == [q EXCEPT !.answered = @ \cup ({m.request} \ {NoId})]
        <4>1. /\ k \in ProxyType /\ k.at = q.at /\ k.pending = q.pending /\ k.used = q.used
              /\ k.request = q.request /\ k.confirming = q.confirming
              /\ k.answering = q.answering
          BY <1>1, <1>3 DEF ProxyType
        <4>2. proxy' = [proxy EXCEPT ![c] = k]
          BY <3>3 DEF ReadError, ProxyInv, ProxyTypeOK
        <4> HIDE DEF k
        <4> QED BY <4>1, <4>2
      <3> QED BY <1>7, <3>1, <3>2, <3>3
    <2>2. Contexts(p)
      BY <1>1, <2>1 DEF Contexts
    <2>3. /\ gateway' \subseteq gateway
          /\ UNCHANGED <<relayed, confirmed, toStation, station, socket, lasting>>
      BY <1>7 DEF ReadAttached, ReadClosed, ReadError
    <2> QED BY <1>1, <1>4, <1>5, <2>1, <2>2, <2>3, ReadInv
  <1> QED BY <1>6, <1>7

\* The observation was recorded or it was not: only a recorded one is relayed.
LEMMA ConfirmStep ==
    ASSUME ProxyInv, NEW c \in Clients, ConfirmSucceeds(c) \/ ConfirmFails(c)
    PROVE  ProxyInv'
  <1> DEFINE q == proxy[c]
  <1>1. q \in ProxyType /\ Contexts(q) /\ confirmed \subseteq StationIds
    BY StepType DEF ProxyInv, ProxyTypeOK
  <1>2. q.confirming \in StationIds /\ q.answering \in Requests
    BY <1>1 DEF ConfirmSucceeds, ConfirmFails, Contexts, ProxyType
  <1>3. CASE ConfirmSucceeds(c)
    <2> DEFINE p == [q EXCEPT !.current = q.confirming, !.answered = @ \cup {q.answering},
                              !.confirming = NoId, !.answering = NoId]
    <2>1. /\ p \in ProxyType /\ p.at = q.at /\ p.pending = q.pending /\ p.used = q.used
          /\ p.request = q.request /\ p.confirming = NoId
      BY <1>1, <1>2 DEF ProxyType
    <2>2. proxy' = [proxy EXCEPT ![c] = p]
      BY <1>3 DEF ConfirmSucceeds, Relay, ProxyInv, ProxyTypeOK
    <2> HIDE DEF p
    <2>3. ClientInv(p, toStation[c], fromStation[c])
      BY <1>1, <2>1, StepType DEF ClientInv, Contexts
    <2>4. /\ confirmed' = confirmed \cup {q.confirming}
          /\ gateway' = gateway \cup {q.confirming} /\ relayed' = relayed \cup {q.confirming}
          /\ UNCHANGED <<toStation, fromStation, station, socket, lasting>>
      BY <1>3 DEF ConfirmSucceeds, Relay, atStation
    <2>5. ObservedBeforeCreated'
      BY <2>4 DEF ProxyInv, ObservedBeforeCreated
    <2>6. /\ toStation' = [toStation EXCEPT ![c] = toStation[c]]
          /\ fromStation' = [fromStation EXCEPT ![c] = fromStation[c]]
      BY <2>4, StepType
    <2> QED BY <1>2, <2>1, <2>2, <2>3, <2>4, <2>5, <2>6, StepType, OneClient
            DEF ProxyInv, ProxyTypeOK
  <1>4. CASE ConfirmFails(c)
    <2> DEFINE p == [q EXCEPT !.answered = @ \cup {q.answering},
                              !.confirming = NoId, !.answering = NoId]
               m == [kind |-> "terminate", request |-> NoId, id |-> q.confirming]
    <2>1. /\ p \in ProxyType /\ p.at = q.at /\ p.pending = q.pending /\ p.used = q.used
          /\ p.request = q.request /\ p.confirming = NoId
      BY <1>1, <1>2 DEF ProxyType
    <2>2. /\ proxy' = [proxy EXCEPT ![c] = p]
          /\ q.link = "up" => Sends(c, m)
          /\ q.link # "up" => UNCHANGED toStation
      BY <1>4 DEF ConfirmFails, ProxyInv, ProxyTypeOK
    <2>3. m \in Message /\ m.kind # "create"
      BY <1>2 DEF Message
    <2>4. /\ confirmed \subseteq confirmed' /\ confirmed' \subseteq StationIds
          /\ UNCHANGED <<gateway, relayed, fromStation, station, socket, lasting>>
      BY <1>1, <1>2, <1>4 DEF ConfirmFails
    <2> HIDE DEF p, m
    <2>5. Contexts(p)
      BY <1>1, <2>1 DEF Contexts
    <2>6. CASE q.link = "up"
      BY <2>1, <2>2, <2>3, <2>4, <2>5, <2>6, SendInv
    <2>7. CASE q.link # "up"
      BY <2>1, <2>2, <2>4, <2>5, <2>7, HandlerOnly DEF atStation
    <2> QED BY <2>6, <2>7
  <1> QED BY <1>3, <1>4

-----------------------------------------------------------------------------
(* The Station *)

\* The Station takes a message of one socket and answers it.
LEMMA StationInv ==
    ASSUME ProxyInv, NEW c \in Clients, NEW out \in Seq(Message), NEW in \in Seq(Answer),
           Once(out, in, proxy[c].pending),
           toStation' = [toStation EXCEPT ![c] = out],
           fromStation' = [fromStation EXCEPT ![c] = in],
           station' \in [StationIds -> {"none", "open", "closed"}],
           socket' \in [Clients -> SocketType],
           UNCHANGED <<proxy, gateway, relayed, confirmed, lasting>>
    PROVE  ProxyInv'
  <1>1. ClientInv(proxy[c], out, in)
    BY StepType DEF ClientInv
  <1>2. ObservedBeforeCreated'
    BY DEF ProxyInv, ObservedBeforeCreated
  <1>3. proxy' = [proxy EXCEPT ![c] = proxy[c]]
    BY StepType
  <1> QED BY <1>1, <1>2, <1>3, StepType, OneClient DEF ProxyInv, ProxyTypeOK

LEMMA CreatesStep ==
    ASSUME ProxyInv, NEW c \in Clients, NEW s \in StationIds, StationCreates(c, s)
    PROVE  ProxyInv'
  <1> DEFINE out == toStation[c]
             in == fromStation[c]
             a == [kind |-> "created", request |-> Asked(c), id |-> s]
  <1>1. /\ out \in Seq(Message) /\ in \in Seq(Answer) /\ Once(out, in, proxy[c].pending)
        /\ out # <<>> /\ Head(out).kind = "create"
    BY StepType DEF StationCreates, Takes
  <1>2. Asked(c) = Head(out).request /\ Asked(c) \in Requests \cup {NoId}
    <2>1. Head(out) \in Message
      BY <1>1, HeadTail
    <2> QED BY <2>1 DEF Asked, Message
  <1>3. a \in Answer /\ a.request = Head(out).request
    BY <1>2 DEF Answer
  <1>4. /\ toStation' = [toStation EXCEPT ![c] = Tail(out)]
        /\ fromStation' = [fromStation EXCEPT ![c] = Append(in, a)]
        /\ UNCHANGED <<proxy, gateway, relayed, confirmed, lasting>>
    BY DEF StationCreates, Takes, Answers, byStation, ProxyInv, ProxyTypeOK
  <1>5. /\ station' \in [StationIds -> {"none", "open", "closed"}]
        /\ socket' \in [Clients -> SocketType]
    <2>1. CASE s = Cached(c)
      BY <2>1 DEF StationCreates, ProxyInv, ProxyTypeOK
    <2>2. CASE s # Cached(c)
      <3>1. /\ station' = [station EXCEPT ![s] = "open"]
            /\ socket' = [socket EXCEPT ![c].current = s, ![c].cache[Asked(c)] = s]
        BY <2>2 DEF StationCreates
      <3> DEFINE k == [socket[c] EXCEPT !.current = s, !.cache[Asked(c)] = s]
      <3>2. socket[c] \in SocketType
        BY StepType
      <3>3. k \in SocketType
        BY <3>2 DEF SocketType
      <3>4. socket' = [socket EXCEPT ![c] = k]
        BY <3>1 DEF ProxyInv, ProxyTypeOK
      <3> HIDE DEF k
      <3> QED BY <3>1, <3>3, <3>4 DEF ProxyInv, ProxyTypeOK
    <2> QED BY <2>1, <2>2
  <1> HIDE DEF out, in, a
  <1>6. Once(Tail(out), Append(in, a), proxy[c].pending)
    BY <1>1, <1>3, OnceCreated
  <1>7. Tail(out) \in Seq(Message) /\ Append(in, a) \in Seq(Answer)
    BY <1>1, <1>3, HeadTail
  <1> QED BY <1>4, <1>5, <1>6, <1>7, StationInv

LEMMA AnswersStep ==
    ASSUME ProxyInv, NEW c \in Clients,
           StationRefuses(c) \/ StationAttaches(c) \/ StationTerminates(c)
    PROVE  ProxyInv'
  <1> DEFINE out == toStation[c]
             in == fromStation[c]
  <1>1. /\ out \in Seq(Message) /\ in \in Seq(Answer) /\ Once(out, in, proxy[c].pending)
        /\ out # <<>>
    BY StepType DEF StationRefuses, StationAttaches, StationTerminates, Takes
  <1>2. /\ Head(out).request \in Requests \cup {NoId}
        /\ Head(out).id \in StationIds \cup {NoId}
    <2>1. Head(out) \in Message
      BY <1>1, HeadTail
    <2> QED BY <2>1 DEF Message
  <1>3. socket[c] \in SocketType /\ socket[c].current \in StationIds \cup {NoId}
    BY StepType DEF SocketType
  <1>4. PICK a \in Answer :
            a.kind # "created" /\ fromStation' = [fromStation EXCEPT ![c] = Append(in, a)]
    <2>1. CASE StationRefuses(c)
      <3> DEFINE a == [kind |-> "error", request |-> Asked(c), id |-> NoId]
      <3>1. a \in Answer /\ a.kind # "created"
        BY <1>2 DEF Answer, Asked
      <3>2. fromStation' = [fromStation EXCEPT ![c] = Append(in, a)]
        BY <2>1 DEF StationRefuses, Answers, ProxyInv, ProxyTypeOK
      <3> HIDE DEF a
      <3> QED BY <3>1, <3>2
    <2>2. ASSUME NEW s \in StationIds \cup {NoId}, NEW kind \in {"attached", "closed", "error"},
                 Answers(c, [kind |-> kind, request |-> NoId, id |-> s])
          PROVE  \E a \in Answer :
                    a.kind # "created" /\ fromStation' = [fromStation EXCEPT ![c] = Append(in, a)]
      <3> DEFINE a == [kind |-> kind, request |-> NoId, id |-> s]
      <3>1. a \in Answer /\ a.kind # "created"
        BY DEF Answer
      <3>2. fromStation' = [fromStation EXCEPT ![c] = Append(in, a)]
        BY <2>2 DEF Answers, ProxyInv, ProxyTypeOK
      <3> HIDE DEF a
      <3> QED BY <3>1, <3>2
    <2>3. CASE StationAttaches(c)
      BY <1>2, <2>2, <2>3 DEF StationAttaches
    <2>4. CASE StationTerminates(c)
      BY <1>3, <2>2, <2>4 DEF StationTerminates
    <2> QED BY <2>1, <2>3, <2>4
  <1>5. /\ toStation' = [toStation EXCEPT ![c] = Tail(out)]
        /\ UNCHANGED <<proxy, gateway, relayed, confirmed, lasting>>
    BY DEF StationRefuses, StationAttaches, StationTerminates, Takes, byStation,
           ProxyInv, ProxyTypeOK
  <1>6. station' \in [StationIds -> {"none", "open", "closed"}]
    BY DEF StationRefuses, StationAttaches, StationTerminates, ProxyInv, ProxyTypeOK
  <1>7. socket' \in [Clients -> SocketType]
    <2>1. CASE UNCHANGED socket
      BY <2>1 DEF ProxyInv, ProxyTypeOK
    <2>2. CASE socket' = [socket EXCEPT ![c].current = Head(out).id]
      <3> DEFINE k == [socket[c] EXCEPT !.current = Head(out).id]
      <3>1. k \in SocketType
        BY <1>2, <1>3 DEF SocketType
      <3>2. socket' = [socket EXCEPT ![c] = k]
        BY <2>2 DEF ProxyInv, ProxyTypeOK
      <3> QED BY <3>1, <3>2 DEF ProxyInv, ProxyTypeOK
    <2> QED BY <2>1, <2>2 DEF StationRefuses, StationAttaches, StationTerminates
  <1> HIDE DEF out, in
  <1>8. /\ Tail(out) \in Seq(Message) /\ Append(in, a) \in Seq(Answer)
        /\ Once(Tail(out), in, proxy[c].pending)
    BY <1>1, <1>4, HeadTail, OnceTake
  <1>9. Once(Tail(out), Append(in, a), proxy[c].pending)
    BY <1>1, <1>4, <1>8, OnceAnswer
  <1> QED BY <1>4, <1>5, <1>6, <1>7, <1>8, <1>9, StationInv

LEMMA ExpiresStep ==
    ASSUME ProxyInv, NEW s \in StationIds, StationExpires(s)
    PROVE  ProxyInv'
  <1>1. /\ station' \in [StationIds -> {"none", "open", "closed"}]
        /\ UNCHANGED <<toStation, socket, proxy, gateway, relayed, confirmed, lasting>>
    BY DEF StationExpires, byStation, ProxyInv, ProxyTypeOK
  <1>2. CASE UNCHANGED fromStation
    BY <1>1, <1>2 DEF ProxyInv, ProxyTypeOK, ObservedBeforeCreated
  <1>3. ASSUME NEW c \in Clients, Answers(c, [kind |-> "closed", request |-> NoId, id |-> s])
        PROVE  ProxyInv'
    <2> DEFINE a == [kind |-> "closed", request |-> NoId, id |-> s]
               in == fromStation[c]
    <2>1. a \in Answer /\ a.kind # "created"
      BY DEF Answer
    <2>2. fromStation' = [fromStation EXCEPT ![c] = Append(in, a)]
      BY <1>3 DEF Answers, ProxyInv, ProxyTypeOK
    <2>3. /\ toStation' = [toStation EXCEPT ![c] = toStation[c]]
          /\ socket' \in [Clients -> SocketType]
      BY <1>1, StepType DEF ProxyInv, ProxyTypeOK
    <2>4. /\ toStation[c] \in Seq(Message) /\ in \in Seq(Answer)
          /\ Once(toStation[c], in, proxy[c].pending)
      BY StepType
    <2> HIDE DEF a, in
    <2>5. Append(in, a) \in Seq(Answer) /\ Once(toStation[c], Append(in, a), proxy[c].pending)
      BY <2>1, <2>4, OnceAnswer
    <2> QED BY <1>1, <2>2, <2>3, <2>4, <2>5, StationInv
  <1> QED BY <1>2, <1>3 DEF StationExpires

-----------------------------------------------------------------------------
LEMMA RestartStep ==
    ASSUME ProxyInv, ProxyRestart
    PROVE  ProxyInv'
  <1>1. ProxyTypeOK'
    <2>1. <<>> \in Seq(Message) /\ <<>> \in Seq(Answer)
      OBVIOUS
    <2> QED BY <2>1, NoProxyFacts DEF ProxyInv, ProxyTypeOK, ProxyRestart
  <1>2. ObservedBeforeCreated'
    BY DEF ProxyInv, ObservedBeforeCreated, ProxyRestart
  <1>3. ASSUME NEW c \in Clients
        PROVE  ClientInv(proxy[c], toStation[c], fromStation[c])'
    BY OnceEmpty, NoProxyFacts DEF ClientInv, ProxyRestart
  <1> QED BY <1>1, <1>2, <1>3 DEF ProxyInv

LEMMA InitInv ==
    ASSUME ProxyInit
    PROVE  ProxyInv
  <1>1. ProxyTypeOK
    <2>1. <<>> \in Seq(Message) /\ <<>> \in Seq(Answer)
      OBVIOUS
    <2> QED BY <2>1, NoProxyFacts DEF ProxyInit, ProxyTypeOK
  <1>2. ObservedBeforeCreated
    BY DEF ObservedBeforeCreated, ProxyInit
  <1>3. ASSUME NEW c \in Clients
        PROVE  ClientInv(proxy[c], toStation[c], fromStation[c])
    BY OnceEmpty, NoProxyFacts DEF ClientInv, ProxyInit
  <1> QED BY <1>1, <1>2, <1>3 DEF ProxyInv

LEMMA ElsewhereStep ==
    ASSUME ProxyInv, ProxyCleanup \/ WindowCloses \/ UNCHANGED proxyVars
    PROVE  ProxyInv'
  <1>1. /\ UNCHANGED <<proxy, relayed, confirmed, toStation, fromStation, station, socket>>
        /\ gateway' \subseteq gateway /\ lasting' \in BOOLEAN
    BY DEF ProxyCleanup, WindowCloses, proxyVars, atStation, ProxyInv, ProxyTypeOK
  <1> QED BY <1>1 DEF ProxyInv, ProxyTypeOK, ObservedBeforeCreated

LEMMA StepInv ==
    ASSUME ProxyInv, ~Retries, [ProxyNext]_proxyVars
    PROVE  ProxyInv'
  <1>1. ASSUME NEW c \in Clients,
               \/ \E bearer \in BOOLEAN : ProxyConnect(c, bearer)
               \/ \E r \in Requests : ProxyCreate(c, r)
               \/ TicketRefused(c)
        PROVE  ProxyInv'
    BY <1>1, ClientStep
  <1>2. ASSUME NEW c \in Clients,
               \/ ForwardCreate(c)
               \/ \E s \in StationIds : ForwardAttach(c, s)
               \/ ForwardTerminate(c)
        PROVE  ProxyInv'
    BY <1>2, ForwardStep
  <1>3. ASSUME NEW c \in Clients, ProxyDisconnect(c) \/ StationHangsUp(c)
        PROVE  ProxyInv'
    BY <1>3, LeaveStep
  <1>4. ASSUME NEW c \in Clients,
               ReadCreated(c) \/ ReadAttached(c) \/ ReadClosed(c) \/ ReadError(c)
        PROVE  ProxyInv'
    BY <1>4, ReaderStep
  <1>5. ASSUME NEW c \in Clients, ConfirmSucceeds(c) \/ ConfirmFails(c)
        PROVE  ProxyInv'
    BY <1>5, ConfirmStep
  <1>6. ASSUME NEW c \in Clients,
               StationRefuses(c) \/ StationAttaches(c) \/ StationTerminates(c)
        PROVE  ProxyInv'
    BY <1>6, AnswersStep
  <1> QED BY <1>1, <1>2, <1>3, <1>4, <1>5, <1>6, CreatesStep, ExpiresStep, RestartStep,
             ElsewhereStep DEF ProxyNext

-----------------------------------------------------------------------------
\* As long as no client repeats a requestId before it is answered, every session that
\* a client was told of, or that one may attach to, has its durable observation,
\* whatever the Station, the ticket service and the sockets do.
THEOREM ObservedCorrect ==
    ASSUME ~Retries
    PROVE  ProxySpec => []ObservedBeforeCreated
  <1>1. ProxyInv => ObservedBeforeCreated
    BY DEF ProxyInv
  <1>2. ~Retries
    OBVIOUS
  <1>3. ProxyInv /\ [ProxyNext]_proxyVars => ProxyInv'
    BY <1>2, StepInv
  <1> QED BY <1>1, <1>3, InitInv, PTL DEF ProxySpec

=============================================================================
