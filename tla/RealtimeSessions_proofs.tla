----------------------- MODULE RealtimeSessions_proofs -----------------------
(***************************************************************************)
(* Proofs about the realtime sessions of the fmu-runner in local mode, for *)
(* every number of connections, sessions and reservations and every limit. *)
(***************************************************************************)
EXTENDS RealtimeSessions, FiniteSetTheorems, TLAPS

\* A handler knows created sessions only, and the one it is confirming is its
\* alone: nobody is attached to it yet.
HandlersKnow ==
    /\ \A c \in Conns :
        /\ handler[c].current # None => Created(handler[c].current)
        /\ handler[c].new # None <=> handler[c].at = "confirm"
        /\ handler[c].new # None =>
                /\ Created(handler[c].new)
                /\ session[handler[c].new].connection = None
    /\ \A c, d \in Conns :
        c # d /\ handler[c].new # None => handler[c].new # handler[d].new

\* A session that can be found and is not observed yet is being confirmed.
BeingConfirmed ==
    \A s \in sessions :
        session[s].external /\ s \notin observed => \E c \in Conns : handler[c].new = s

\* What the cleanup loop is about to close is open until it does so: its window
\* keeps its client's commands out, and nobody is confirming it.
ClosingIsOpen ==
    closing # None =>
        /\ closing \in sessions
        /\ ~InWindow(closing)
        /\ \A c \in Conns : handler[c].new # closing

\* Every registered session has its slot, and so has every request that holds one,
\* but for the slots given back twice; and only a session has runners.
SlotForEach ==
    /\ Cardinality(sessions) + Cardinality(Slots!Held) <= active + Cardinality(Slots!Twice)
    /\ \A s \in Sessions : session[s].runners > 0 => Created(s)

RtInv ==
    /\ RealtimeTypeOK
    /\ RegisteredWhileOpen
    /\ OneRunner
    /\ AttachedIsObserved
    /\ HandlersKnow
    /\ BeingConfirmed
    /\ ClosingIsOpen
    /\ SlotForEach

-----------------------------------------------------------------------------
LEMMA SessionsFinite ==
    ASSUME RealtimeTypeOK
    PROVE  IsFiniteSet(sessions) /\ Cardinality(sessions) \in Nat
  BY RealtimeAssumption, FS_Subset, FS_CardinalityType DEF RealtimeTypeOK

LEMMA JobsFinite ==
    /\ IsFiniteSet(Slots!Held) /\ Cardinality(Slots!Held) \in Nat
    /\ IsFiniteSet(Slots!Twice) /\ Cardinality(Slots!Twice) \in Nat
  BY RealtimeAssumption, FS_Subset, FS_CardinalityType DEF Slots!Held, Slots!Twice

LEMMA JobsUnchanged ==
    ASSUME job' = job
    PROVE  Slots!Held' = Slots!Held /\ Slots!Twice' = Slots!Twice
  BY DEF Slots!Held, Slots!Twice

LEMMA Updates ==
    ASSUME NEW r \in SessionType, NEW c \in Conns
    PROVE  /\ Attached(r, c) \in SessionType
           /\ Attached(r, c).state = r.state /\ Attached(r, c).closed = r.closed
           /\ Attached(r, c).runners = r.runners /\ Attached(r, c).external = r.external
           /\ Attached(r, c).reservation = r.reservation
           /\ Detached(r) \in SessionType
           /\ Detached(r).state = r.state /\ Detached(r).closed = r.closed
           /\ Detached(r).runners = r.runners /\ Detached(r).connection = None
           /\ Detached(r).external = r.external
           /\ Detached(r).reservation = r.reservation
  BY DEF SessionType, Attached, Detached

LEMMA TerminatedFacts ==
    ASSUME NEW r \in SessionType, r.runners <= 1
    PROVE  /\ Terminated(r) \in SessionType
           /\ Terminated(r).state = "stopped" /\ Terminated(r).closed
           /\ Terminated(r).runners = 0 /\ Terminated(r).connection = None
           /\ Terminated(r).external = r.external
           /\ Terminated(r).reservation = r.reservation
  <1>1. Cancelled(r.runners) = 0
    BY DEF Cancelled, SessionType
  <1>2. Detached(r) \in SessionType /\ Detached(r).runners = r.runners
    BY DEF Detached, SessionType
  <1>3. Terminated(r) = [Detached(r) EXCEPT !.runners = 0, !.fmu = FALSE,
                                            !.state = "stopped", !.closed = TRUE]
    BY <1>1, <1>2 DEF Terminated, SessionType
  <1>4. Terminated(r) = [r EXCEPT !.connection = None, !.grace = "running", !.runners = 0,
                                  !.fmu = FALSE, !.state = "stopped", !.closed = TRUE]
    BY <1>3 DEF Detached, SessionType
  <1>5. 0 \in Nat /\ "stopped" \in States /\ "running" \in {"none", "running", "over"}
    BY DEF States
  <1> QED BY <1>4, <1>5 DEF SessionType

\* A created session changes and stays what it is to the registry, to its client
\* and to its reservation.
LEMMA BecomesInv ==
    ASSUME RtInv, NEW s \in Sessions, NEW r \in SessionType, Created(s), Becomes(s, r),
           r.state # "none", r.closed = session[s].closed,
           r.connection = session[s].connection, r.external = session[s].external,
           r.reservation = session[s].reservation,
           r.runners <= 1, r.runners = 1 => r.state = "running"
    PROVE  RtInv'
  <1> USE DEF RtInv
  <1>1. /\ session' = [session EXCEPT ![s] = r]
        /\ UNCHANGED <<sessions, handler, active, job, closing, observed, window>>
    BY DEF Becomes
  <1>2. session'[s] = r /\ \A t \in Sessions \ {s} : session'[t] = session[t]
    BY <1>1 DEF RealtimeTypeOK
  <1>3. RealtimeTypeOK'
    BY <1>1 DEF RealtimeTypeOK
  <1>4. \A t \in Sessions : /\ Created(t)' <=> Created(t)
                            /\ Open(t)' <=> Open(t)
                            /\ InWindow(t)' <=> InWindow(t)
                            /\ session'[t].connection = session[t].connection
                            /\ session'[t].external = session[t].external
    BY <1>1, <1>2 DEF Created, Open, InWindow
  <1>5. RegisteredWhileOpen'
    BY <1>1, <1>4 DEF RegisteredWhileOpen
  <1>6. OneRunner'
    BY <1>2 DEF OneRunner
  <1>7. AttachedIsObserved'
    BY <1>1, <1>4 DEF AttachedIsObserved
  <1>8. HandlersKnow'
    BY <1>1, <1>4 DEF HandlersKnow, RealtimeTypeOK, HandlerType
  <1>9. BeingConfirmed' /\ ClosingIsOpen'
    BY <1>1, <1>4 DEF BeingConfirmed, ClosingIsOpen, RealtimeTypeOK
  <1>10. SlotForEach'
    BY <1>1, <1>2, <1>4, JobsUnchanged DEF SlotForEach
  <1> QED BY <1>3, <1>5, <1>6, <1>7, <1>8, <1>9, <1>10

\* A handler that is confirming nothing moves on without a session.
LEMMA HandlerInv ==
    ASSUME RtInv, NEW c \in Conns, NEW h \in HandlerType,
           handler[c].at # "confirm",
           handler' = [handler EXCEPT ![c] = h],
           h.new = None, h.at # "confirm", h.current \in {None, handler[c].current},
           UNCHANGED <<session, sessions, job, closing, observed, window>>,
           active' \in Nat, active <= active'
    PROVE  RtInv'
  <1> USE DEF RtInv
  <1>1. handler'[c] = h /\ \A d \in Conns \ {c} : handler'[d] = handler[d]
    BY DEF RealtimeTypeOK
  <1>2. handler[c].new = None
    BY DEF HandlersKnow
  <1>3. RealtimeTypeOK'
    BY DEF RealtimeTypeOK
  <1>4. HandlersKnow'
    BY <1>1, <1>2 DEF HandlersKnow, Created
  <1>5. BeingConfirmed'
    BY <1>1, <1>2, RealtimeAssumption DEF BeingConfirmed, RealtimeTypeOK
  <1>6. ClosingIsOpen'
    BY <1>1, <1>2 DEF ClosingIsOpen, InWindow
  <1>7. SlotForEach'
    BY SessionsFinite, JobsFinite, JobsUnchanged DEF SlotForEach, Created, RealtimeTypeOK
  <1>8. RegisteredWhileOpen' /\ OneRunner' /\ AttachedIsObserved'
    BY DEF RegisteredWhileOpen, OneRunner, AttachedIsObserved, Created, Open
  <1> QED BY <1>3, <1>4, <1>5, <1>6, <1>7, <1>8

\* A session is terminated and leaves the registry, and who was confirming it
\* is not any more.
LEMMA CloseInv ==
    ASSUME RtInv, NEW s \in Sessions, Created(s), Terminate(s), sessions' = sessions \ {s},
           handler' \in [Conns -> HandlerType],
           \A d \in Conns :
            /\ handler'[d].current = handler[d].current
            /\ handler'[d].new = handler[d].new \/ (handler[d].new = s /\ handler'[d].new = None)
            /\ handler'[d].new # None <=> handler'[d].at = "confirm",
           closing' = None \/ (closing' = closing /\ closing # s),
           observed \subseteq observed', observed' \subseteq Sessions, window' = window, job' = job
    PROVE  RtInv'
  <1> USE DEF RtInv
  <1>1. CASE session[s].closed
    <2>1. s \notin sessions
      BY <1>1 DEF RegisteredWhileOpen, Open
    <2>2. UNCHANGED <<session, active>> /\ sessions' = sessions
      BY <1>1, <2>1 DEF Terminate
    <2>3. RealtimeTypeOK'
      BY <2>2 DEF RealtimeTypeOK
    <2>4. HandlersKnow'
      BY <2>2, RealtimeAssumption DEF HandlersKnow, Created
    <2>5. BeingConfirmed'
      BY <2>1, <2>2, RealtimeAssumption DEF BeingConfirmed, RealtimeTypeOK
    <2>6. ClosingIsOpen'
      BY <2>2 DEF ClosingIsOpen, InWindow
    <2>7. RegisteredWhileOpen' /\ OneRunner' /\ AttachedIsObserved' /\ SlotForEach'
      BY <2>2, JobsUnchanged
      DEF RegisteredWhileOpen, OneRunner, AttachedIsObserved, SlotForEach, Created, Open
    <2> QED BY <2>3, <2>4, <2>5, <2>6, <2>7
  <1>2. CASE ~session[s].closed
    <2>1. /\ session' = [session EXCEPT ![s] = Terminated(session[s])]
          /\ active' = IF active = 0 THEN 0 ELSE active - 1
      BY <1>2 DEF Terminate, Slots!Release
    <2>2. session[s] \in SessionType /\ session[s].runners <= 1
      BY DEF RealtimeTypeOK, OneRunner
    <2>3. /\ session'[s] = Terminated(session[s])
          /\ \A t \in Sessions \ {s} : session'[t] = session[t]
      BY <2>1 DEF RealtimeTypeOK
    <2>4. s \in sessions
      BY <1>2 DEF RegisteredWhileOpen, Open
    <2>5. Created(s)' /\ ~Open(s)' /\ session'[s].connection = None /\ session'[s].runners = 0
      BY <2>2, <2>3, TerminatedFacts DEF Created, Open
    <2>6. \A t \in Sessions \ {s} : /\ Created(t)' <=> Created(t)
                                    /\ Open(t)' <=> Open(t)
                                    /\ InWindow(t)' <=> InWindow(t)
      BY <2>3 DEF Created, Open, InWindow
    <2>7. RealtimeTypeOK'
      BY <2>1, <2>2, TerminatedFacts, RealtimeAssumption DEF RealtimeTypeOK
    <2>8. RegisteredWhileOpen'
      BY <2>5, <2>6 DEF RegisteredWhileOpen
    <2>9. OneRunner' /\ AttachedIsObserved'
      BY <2>3, <2>5, <2>6 DEF OneRunner, AttachedIsObserved
    <2>10. HandlersKnow'
      BY <2>3, <2>5, <2>6, RealtimeAssumption DEF HandlersKnow, RealtimeTypeOK, HandlerType
    <2>11. BeingConfirmed'
      BY <2>3, RealtimeAssumption DEF BeingConfirmed, RealtimeTypeOK
    <2>12. ClosingIsOpen'
      BY <2>6 DEF ClosingIsOpen, RealtimeTypeOK
    <2>13. SlotForEach'
      <3>1. Cardinality(sessions') = Cardinality(sessions) - 1
        BY <2>4, SessionsFinite, FS_RemoveElement
      <3>2. Cardinality(sessions') + Cardinality(Slots!Held')
                <= active' + Cardinality(Slots!Twice')
        BY <2>1, <3>1, SessionsFinite, JobsFinite, JobsUnchanged DEF SlotForEach, RealtimeTypeOK
      <3> QED BY <2>3, <2>5, <2>6, <3>2 DEF SlotForEach
    <2> QED BY <2>7, <2>8, <2>9, <2>10, <2>11, <2>12, <2>13
  <1> QED BY <1>1, <1>2 DEF RealtimeTypeOK, SessionType

\* A connection takes up an observed session that nobody is confirming any more.
LEMMA AttachInv ==
    ASSUME RtInv, NEW c \in Conns, NEW s \in Sessions, Created(s),
           session' = [session EXCEPT ![s] = Attached(@, c)],
           handler' \in [Conns -> HandlerType],
           handler'[c].current = s, handler'[c].new = None, handler'[c].at = "receive",
           handler[c].new \in {None, s},
           \A d \in Conns \ {c} : handler'[d] = handler[d] /\ handler[d].new # s,
           UNCHANGED <<sessions, active, job, closing, window>>,
           observed \subseteq observed', observed' \subseteq Sessions,
           session[s].external => s \in observed'
    PROVE  RtInv'
  <1> USE DEF RtInv
  <1>1. session[s] \in SessionType
    BY DEF RealtimeTypeOK
  <1>2. /\ session'[s] = Attached(session[s], c)
        /\ \A t \in Sessions \ {s} : session'[t] = session[t]
    BY DEF RealtimeTypeOK
  <1>3. /\ session'[s].state = session[s].state /\ session'[s].closed = session[s].closed
        /\ session'[s].runners = session[s].runners
        /\ session'[s].external = session[s].external
        /\ session'[s].reservation = session[s].reservation
    BY <1>1, <1>2, Updates
  <1>4. \A t \in Sessions : /\ Created(t)' <=> Created(t)
                            /\ Open(t)' <=> Open(t)
                            /\ InWindow(t)' <=> InWindow(t)
    BY <1>2, <1>3 DEF Created, Open, InWindow
  <1>5. RealtimeTypeOK'
    BY <1>1, Updates DEF RealtimeTypeOK
  <1>6. RegisteredWhileOpen' /\ OneRunner'
    BY <1>2, <1>3, <1>4 DEF RegisteredWhileOpen, OneRunner
  <1>7. AttachedIsObserved'
    BY <1>2, <1>3, <1>4 DEF AttachedIsObserved
  <1>8. HandlersKnow'
    BY <1>2, <1>4, RealtimeAssumption DEF HandlersKnow, RealtimeTypeOK, HandlerType
  <1>9. BeingConfirmed'
    BY <1>2, <1>3, RealtimeAssumption DEF BeingConfirmed, RealtimeTypeOK
  <1>10. ClosingIsOpen'
    BY <1>4, RealtimeAssumption DEF ClosingIsOpen, RealtimeTypeOK
  <1>11. SlotForEach'
    BY <1>2, <1>3, <1>4, JobsUnchanged DEF SlotForEach
  <1> QED BY <1>5, <1>6, <1>7, <1>8, <1>9, <1>10, <1>11

\* Taking a slot and registering a session that nobody knows yet: attached to the
\* Station's hop at once, or still to be confirmed.
LEMMA RegisterInv ==
    ASSUME RtInv, NEW c \in Conns, NEW s \in Sessions, ~Created(s), NEW r \in SessionType,
           session' = [session EXCEPT ![s] = r],
           r.state = "created", ~r.closed, r.runners = 0,
           handler' \in [Conns -> HandlerType],
           handler[c].new = None,
           \A d \in Conns \ {c} : handler'[d] = handler[d],
           \/ ~r.external /\ handler'[c].new = None /\ handler'[c].at # "confirm"
                          /\ handler'[c].current = s
           \/ /\ handler'[c].new = s /\ handler'[c].at = "confirm"
              /\ handler'[c].current = handler[c].current /\ r.connection = None,
           sessions' = sessions \cup {s}, active' = active + 1,
           UNCHANGED <<job, closing, observed, window>>
    PROVE  RtInv'
  <1> USE RealtimeAssumption DEF RtInv
  <1>1. session'[s] = r /\ \A t \in Sessions \ {s} : session'[t] = session[t]
    BY DEF RealtimeTypeOK
  <1>2. s \notin sessions /\ s # None
    BY DEF RegisteredWhileOpen, Open
  <1>3. /\ Created(s)' /\ Open(s)'
        /\ \A t \in Sessions \ {s} : /\ Created(t)' <=> Created(t)
                                     /\ Open(t)' <=> Open(t)
                                     /\ InWindow(t)' <=> InWindow(t)
    BY <1>1 DEF Created, Open, InWindow
  <1>4. \A d \in Conns : handler[d].new # s /\ handler[d].current # s
    BY <1>2 DEF HandlersKnow
  <1>5. RealtimeTypeOK'
    BY DEF RealtimeTypeOK
  <1>6. RegisteredWhileOpen' /\ OneRunner'
    BY <1>1, <1>3 DEF RegisteredWhileOpen, OneRunner
  <1>7. AttachedIsObserved'
    BY <1>1, <1>3 DEF AttachedIsObserved
  <1>8. HandlersKnow'
    BY <1>1, <1>2, <1>3, <1>4 DEF HandlersKnow, RealtimeTypeOK, HandlerType
  <1>9. BeingConfirmed'
    BY <1>1, <1>2, <1>4 DEF BeingConfirmed, RealtimeTypeOK
  <1>10. ClosingIsOpen'
    BY <1>2, <1>3, <1>4 DEF ClosingIsOpen, RealtimeTypeOK
  <1>11. SlotForEach'
    <2>1. Cardinality(sessions') = Cardinality(sessions) + 1
      BY <1>2, SessionsFinite, FS_AddElement
    <2> QED BY <1>1, <1>3, <2>1, SessionsFinite, JobsFinite, JobsUnchanged
           DEF SlotForEach, RealtimeTypeOK
  <1> QED BY <1>5, <1>6, <1>7, <1>8, <1>9, <1>10, <1>11

LEMMA OpenSessionInv ==
    ASSUME RtInv, NEW c \in Conns, NEW s \in Sessions, NEW claims \in Reservations \cup {None},
           handler[c].at # "confirm", OpenSession(c, s, claims),
           UNCHANGED <<job, closing, observed, window>>
    PROVE  RtInv'
  <1> USE RealtimeAssumption DEF RtInv
  <1> DEFINE new == [NoSession EXCEPT !.state = "created", !.reservation = claims,
                                      !.external = c \notin Internal]
  <1>1. handler[c] \in HandlerType /\ handler[c].new = None /\ active + 1 \in Nat
    BY DEF RealtimeTypeOK, HandlersKnow
  <1>2. ~Created(s) /\ active' = active + 1
    BY DEF OpenSession, Slots!Acquire
  <1>3. CASE claims \notin window
    <2> DEFINE h == [handler[c] EXCEPT !.at = "receive", !.claims = claims]
    <2>1. h \in HandlerType /\ h.new = None /\ h.at # "confirm" /\ h.current = handler[c].current
      BY <1>1 DEF HandlerType
    <2>2. handler' = [handler EXCEPT ![c] = h] /\ UNCHANGED <<session, sessions>>
      BY <1>1, <1>3 DEF OpenSession, RealtimeTypeOK
    <2>3. active <= active' /\ active' \in Nat
      BY <1>1, <1>2 DEF RealtimeTypeOK
    <2> HIDE DEF h
    <2> QED BY <2>1, <2>2, <2>3, HandlerInv
  <1>4. CASE claims \in window
    <2>1. /\ new \in SessionType /\ new.state = "created" /\ ~new.closed /\ new.runners = 0
          /\ new.connection = None /\ new.external = (c \notin Internal)
      BY DEF NoSession, SessionType, States
    <2>2. sessions' = sessions \cup {s}
      BY <1>4 DEF OpenSession
    <2>3. CASE c \in Internal
      <3> DEFINE r == Attached(new, c)
                 h == [handler[c] EXCEPT !.current = s]
      <3>1. /\ r \in SessionType /\ r.state = "created" /\ ~r.closed /\ r.runners = 0
            /\ ~r.external
        <4> HIDE DEF new
        <4>1. r \in SessionType /\ r.state = new.state /\ r.closed = new.closed
              /\ r.runners = new.runners /\ r.external = new.external
          BY <2>1, Updates, Zenon
        <4> QED BY <2>1, <2>3, <4>1
      <3>2. h \in HandlerType /\ h.new = None /\ h.at # "confirm" /\ h.current = s
        BY <1>1, <2>3 DEF HandlerType
      <3>3. session' = [session EXCEPT ![s] = r] /\ handler' = [handler EXCEPT ![c] = h]
        BY <1>4, <2>3 DEF OpenSession, RealtimeTypeOK
      <3>4. /\ handler' \in [Conns -> HandlerType] /\ handler'[c] = h
            /\ \A d \in Conns \ {c} : handler'[d] = handler[d]
        BY <3>2, <3>3 DEF RealtimeTypeOK
      <3> HIDE DEF r, h, new
      <3> QED BY <1>1, <1>2, <2>2, <3>1, <3>2, <3>3, <3>4, RegisterInv
    <2>4. CASE c \notin Internal
      <3> DEFINE h == [handler[c] EXCEPT !.at = "confirm", !.claims = claims,
                                         !.ticket = None, !.new = s]
      <3>1. /\ h \in HandlerType /\ h.new = s /\ h.at = "confirm"
            /\ h.current = handler[c].current
        BY <1>1 DEF HandlerType
      <3>2. session' = [session EXCEPT ![s] = new] /\ handler' = [handler EXCEPT ![c] = h]
        BY <1>1, <1>4, <2>4 DEF OpenSession, RealtimeTypeOK
      <3>3. /\ handler' \in [Conns -> HandlerType] /\ handler'[c] = h
            /\ \A d \in Conns \ {c} : handler'[d] = handler[d]
        BY <3>1, <3>2 DEF RealtimeTypeOK
      <3> HIDE DEF h, new
      <3> QED BY <1>1, <1>2, <2>1, <2>2, <3>1, <3>2, <3>3, RegisterInv
    <2> QED BY <2>3, <2>4
  <1> QED BY <1>3, <1>4

-----------------------------------------------------------------------------
LEMMA HandlerStep ==
    ASSUME RtInv, NEW c \in Conns,
           \/ \E bearer \in Reservations \cup {None} : Connect(c, bearer)
           \/ CreateWithBearer(c)
           \/ \E r \in Reservations : CreateWithTicket(c, r)
           \/ Issued(c)
           \/ CreateRefused(c)
    PROVE  RtInv'
  <1> USE RealtimeAssumption DEF RtInv
  <1>1. handler[c] \in HandlerType /\ active \in Nat /\ window \subseteq Reservations
    BY DEF RealtimeTypeOK
  <1>2. /\ handler[c].at # "confirm" => handler[c].new = None
        /\ active' = active => active' \in Nat /\ active <= active'
    BY <1>1 DEF HandlersKnow
  <1>3. ASSUME NEW bearer \in Reservations \cup {None}, Connect(c, bearer)
        PROVE  RtInv'
    <2> DEFINE h == [NoHandler EXCEPT !.at = "receive", !.claims = bearer]
    <2>1. h \in HandlerType /\ h.new = None /\ h.at = "receive" /\ h.current = None
      BY DEF NoHandler, HandlerType
    <2> HIDE DEF h
    <2>3. /\ handler[c].at # "confirm" /\ handler' = [handler EXCEPT ![c] = h]
          /\ UNCHANGED <<session, sessions, active, job, closing, observed, window>>
      BY <1>3 DEF Connect, h
    <2> QED BY <1>2, <2>1, <2>3, HandlerInv
  <1>4. CASE CreateWithBearer(c)
    <2> DEFINE h == [handler[c] EXCEPT !.at = "issue", !.ticket = handler[c].claims]
    <2>1. h \in HandlerType /\ h.new = None /\ h.at = "issue" /\ h.current = handler[c].current
      BY <1>1, <1>2, <1>4 DEF HandlerType, CreateWithBearer, Receiving
    <2>2. handler' = [handler EXCEPT ![c] = h]
      BY <1>4 DEF CreateWithBearer, RealtimeTypeOK
    <2> HIDE DEF h
    <2>3. /\ handler[c].at # "confirm" /\ handler' = [handler EXCEPT ![c] = h]
          /\ UNCHANGED <<session, sessions, active, job, closing, observed, window>>
      BY <1>4, <2>2 DEF CreateWithBearer, Receiving
    <2> QED BY <1>2, <2>1, <2>3, HandlerInv
  <1>5. ASSUME NEW r \in Reservations, CreateWithTicket(c, r)
        PROVE  RtInv'
    <2> DEFINE h == [handler[c] EXCEPT !.at = "redeem", !.ticket = r]
    <2>1. h \in HandlerType /\ h.new = None /\ h.at = "redeem" /\ h.current = handler[c].current
      BY <1>1, <1>2, <1>5 DEF HandlerType, CreateWithTicket, Receiving
    <2>2. handler' = [handler EXCEPT ![c] = h]
      BY <1>5 DEF CreateWithTicket, RealtimeTypeOK
    <2> HIDE DEF h
    <2>3. /\ handler[c].at # "confirm" /\ handler' = [handler EXCEPT ![c] = h]
          /\ UNCHANGED <<session, sessions, active, job, closing, observed, window>>
      BY <1>5, <2>2 DEF CreateWithTicket, Receiving
    <2> QED BY <1>2, <2>1, <2>3, HandlerInv
  <1>6. CASE Issued(c)
    <2> DEFINE h == [handler[c] EXCEPT !.at = "redeem"]
    <2>1. h \in HandlerType /\ h.new = None /\ h.at = "redeem" /\ h.current = handler[c].current
      BY <1>1, <1>2, <1>6 DEF HandlerType, Issued
    <2>2. handler' = [handler EXCEPT ![c] = h]
      BY <1>6 DEF Issued, To, RealtimeTypeOK
    <2> HIDE DEF h
    <2>3. /\ handler[c].at # "confirm" /\ handler' = [handler EXCEPT ![c] = h]
          /\ UNCHANGED <<session, sessions, active, job, closing, observed, window>>
      BY <1>6, <2>2 DEF Issued
    <2> QED BY <1>2, <2>1, <2>3, HandlerInv
  <1>7. CASE CreateRefused(c)
    <2>1. PICK claims \in {handler[c].claims} \cup {handler[c].ticket} :
            handler' = [handler EXCEPT ![c].at = "receive", ![c].claims = claims,
                                       ![c].ticket = None]
      BY <1>7 DEF CreateRefused
    <2> DEFINE h == [handler[c] EXCEPT !.at = "receive", !.claims = claims, !.ticket = None]
    <2>2. h \in HandlerType /\ h.new = None /\ h.at = "receive" /\ h.current = handler[c].current
      BY <1>1, <1>2, <1>7, <2>1 DEF HandlerType, CreateRefused
    <2>3. handler' = [handler EXCEPT ![c] = h]
      BY <2>1 DEF RealtimeTypeOK
    <2> HIDE DEF h
    <2>4. /\ handler[c].at # "confirm" /\ handler' = [handler EXCEPT ![c] = h]
          /\ UNCHANGED <<session, sessions, active, job, closing, observed, window>>
      BY <1>7, <2>3 DEF CreateRefused
    <2> QED BY <1>2, <2>1, <2>2, <2>4, HandlerInv
  <1> QED BY <1>3, <1>4, <1>5, <1>6, <1>7

LEMMA OpeningStep ==
    ASSUME RtInv, NEW c \in Conns, NEW s \in Sessions,
           CreateInternal(c, s) \/ Redeemed(c, s)
    PROVE  RtInv'
  <1> USE RealtimeAssumption DEF RtInv
  <1>1. handler[c] \in HandlerType
    BY DEF RealtimeTypeOK
  <1>2. /\ handler[c].claims \in Reservations \cup {None}
        /\ handler[c].ticket \in Reservations \cup {None}
    BY <1>1 DEF HandlerType
  <1>3. CASE CreateInternal(c, s)
    BY <1>2, <1>3, OpenSessionInv DEF CreateInternal, Receiving
  <1>4. CASE Redeemed(c, s)
    BY <1>2, <1>4, OpenSessionInv DEF Redeemed
  <1> QED BY <1>3, <1>4

LEMMA ConfirmStep ==
    ASSUME RtInv, NEW c \in Conns, Confirmed(c) \/ NotConfirmed(c)
    PROVE  RtInv'
  <1> USE RealtimeAssumption DEF RtInv
  <1>1. handler[c] \in HandlerType /\ handler[c].at = "confirm" /\ observed \subseteq Sessions
    BY DEF RealtimeTypeOK, Confirmed, NotConfirmed
  <1>2. PICK s \in Sessions : /\ s = handler[c].new /\ Created(s) /\ s # None
                             /\ \A d \in Conns \ {c} : handler[d].new # s
    BY <1>1 DEF HandlersKnow, HandlerType
  <1>3. CASE Confirmed(c)
    <2> DEFINE h == [handler[c] EXCEPT !.at = "receive", !.current = s, !.new = None]
    <2>1. h \in HandlerType /\ h.current = s /\ h.new = None /\ h.at = "receive"
      BY <1>1, <1>2 DEF HandlerType
    <2>2. handler' = [handler EXCEPT ![c] = h]
      BY <1>2, <1>3 DEF Confirmed, RealtimeTypeOK
    <2> HIDE DEF h
    <2>3. /\ handler' \in [Conns -> HandlerType] /\ handler'[c] = h
          /\ \A d \in Conns \ {c} : handler'[d] = handler[d]
      BY <2>1, <2>2 DEF RealtimeTypeOK
    <2>4. /\ session' = [session EXCEPT ![s] = Attached(@, c)]
          /\ observed' = observed \cup {s}
          /\ UNCHANGED <<sessions, active, job, closing, window>>
      BY <1>2, <1>3 DEF Confirmed
    <2>5. /\ handler'[c].current = s /\ handler'[c].new = None /\ handler'[c].at = "receive"
          /\ handler[c].new \in {None, s}
          /\ \A d \in Conns \ {c} : handler'[d] = handler[d] /\ handler[d].new # s
          /\ observed \subseteq observed' /\ observed' \subseteq Sessions /\ s \in observed'
      BY <1>1, <1>2, <2>1, <2>3, <2>4
    <2> QED BY <1>2, <2>3, <2>4, <2>5, AttachInv
  <1>4. CASE NotConfirmed(c)
    <2> DEFINE h == [handler[c] EXCEPT !.at = "receive", !.new = None]
    <2>1. h \in HandlerType /\ h.current = handler[c].current /\ h.new = None /\ h.at = "receive"
      BY <1>1 DEF HandlerType
    <2>2. handler' = [handler EXCEPT ![c] = h]
      BY <1>4 DEF NotConfirmed, RealtimeTypeOK
    <2> HIDE DEF h
    <2>3. /\ handler' \in [Conns -> HandlerType] /\ handler'[c] = h
          /\ \A d \in Conns \ {c} : handler'[d] = handler[d]
      BY <2>1, <2>2 DEF RealtimeTypeOK
    <2>4. /\ Terminate(s) /\ sessions' = sessions \ {s}
          /\ closing' = closing /\ window' = window /\ job' = job
          /\ observed \subseteq observed' /\ observed' \subseteq observed \cup {s}
      BY <1>2, <1>4 DEF NotConfirmed
    <2>5. \A d \in Conns :
            /\ handler'[d].current = handler[d].current
            /\ handler'[d].new = handler[d].new \/ (handler[d].new = s /\ handler'[d].new = None)
            /\ handler'[d].new # None <=> handler'[d].at = "confirm"
      BY <1>1, <1>2, <2>1, <2>3 DEF HandlersKnow
    <2>6. closing' = None \/ (closing' = closing /\ closing # s)
      BY <1>1, <1>2, <2>4 DEF ClosingIsOpen
    <2>7. observed' \subseteq Sessions
      BY <1>1, <1>2, <2>4
    <2> QED BY <1>2, <2>3, <2>4, <2>5, <2>6, <2>7, CloseInv
  <1> QED BY <1>3, <1>4

LEMMA AttachStep ==
    ASSUME RtInv, NEW c \in Conns, NEW s \in Sessions, Attach(c, s)
    PROVE  RtInv'
  <1> USE RealtimeAssumption DEF RtInv
  <1>1. handler[c] \in HandlerType /\ handler[c].at = "receive" /\ handler[c].new = None
    BY DEF RealtimeTypeOK, Attach, Receiving, HandlersKnow
  <1> DEFINE h == [handler[c] EXCEPT !.current = s]
  <1>2. h \in HandlerType /\ h.current = s /\ h.new = None /\ h.at = "receive"
    BY <1>1 DEF HandlerType
  <1>3. handler' = [handler EXCEPT ![c] = h]
    BY DEF Attach, RealtimeTypeOK
  <1> HIDE DEF h
  <1>4. /\ handler' \in [Conns -> HandlerType] /\ handler'[c] = h
        /\ \A d \in Conns \ {c} : handler'[d] = handler[d]
    BY <1>2, <1>3 DEF RealtimeTypeOK
  <1>5. /\ s \in sessions /\ \A d \in Conns : handler[d].new # s
        /\ session' = [session EXCEPT ![s] = Attached(@, c)]
        /\ UNCHANGED <<sessions, active, job, closing, observed, window>>
    BY DEF Attach
  <1>6. Created(s) /\ observed \subseteq Sessions
    BY <1>5 DEF RegisteredWhileOpen, Open, RealtimeTypeOK
  <1>7. session[s].external => s \in observed'
    BY <1>5 DEF BeingConfirmed
  <1>8. /\ handler'[c].current = s /\ handler'[c].new = None /\ handler'[c].at = "receive"
        /\ handler[c].new \in {None, s}
        /\ \A d \in Conns \ {c} : handler'[d] = handler[d] /\ handler[d].new # s
        /\ observed \subseteq observed' /\ observed' \subseteq Sessions
    BY <1>1, <1>2, <1>4, <1>5, <1>6
  <1> QED BY <1>4, <1>5, <1>6, <1>7, <1>8, AttachInv

\* What a command, the runner or a timer makes of a session.
LEMMA SessionStep ==
    ASSUME RtInv, NEW s \in Sessions,
           \/ \E c \in Conns :
                \/ Initialize(c, s) \/ InitializeFails(c, s)
                \/ Start(c, s) \/ Pause(c, s)
           \/ RunnerStops(s) \/ RunnerExpires(s) \/ GraceEnds(s)
    PROVE  RtInv'
  <1> USE RealtimeAssumption DEF RtInv
  <1> DEFINE q == session[s]
  <1>1. q \in SessionType /\ q.runners <= 1 /\ (q.runners = 1 => q.state = "running")
    BY DEF RealtimeTypeOK, OneRunner
  <1>2. Cancelled(q.runners) = 0
    BY <1>1 DEF Cancelled, SessionType
  <1>3. \A c \in Conns : Commands(c, s) => Created(s)
    BY DEF Commands, HandlersKnow
  <1>4. s \in sessions \/ q.runners > 0 => Created(s)
    BY DEF RegisteredWhileOpen, Open, SlotForEach
  <1>5. ASSUME NEW c \in Conns, Initialize(c, s)
        PROVE  RtInv'
    <2> DEFINE r == [q EXCEPT !.runners = 0, !.fmu = TRUE, !.state = "initialized"]
    <2>1. Becomes(s, r) /\ Created(s)
      BY <1>2, <1>3, <1>5 DEF Initialize
    <2>2. /\ r \in SessionType /\ r.state # "none" /\ r.closed = q.closed
          /\ r.connection = q.connection /\ r.external = q.external
          /\ r.reservation = q.reservation /\ r.runners = 0
      BY <1>1 DEF SessionType, States
    <2> HIDE DEF r
    <2> QED BY <2>1, <2>2, BecomesInv
  <1>6. ASSUME NEW c \in Conns, InitializeFails(c, s)
        PROVE  RtInv'
    <2>1. PICK fmu \in BOOLEAN : Becomes(s, [q EXCEPT !.runners = 0, !.fmu = fmu])
      BY <1>2, <1>6 DEF InitializeFails
    <2> DEFINE r == [q EXCEPT !.runners = 0, !.fmu = fmu]
    <2>2. Becomes(s, r) /\ Created(s)
      BY <1>3, <1>6, <2>1 DEF InitializeFails
    <2>3. /\ r \in SessionType /\ r.state = q.state /\ r.closed = q.closed
          /\ r.connection = q.connection /\ r.external = q.external
          /\ r.reservation = q.reservation /\ r.runners = 0
      BY <1>1 DEF SessionType
    <2> HIDE DEF r
    <2> QED BY <2>2, <2>3, BecomesInv DEF Created
  <1>7. ASSUME NEW c \in Conns, Start(c, s)
        PROVE  RtInv'
    <2> DEFINE r == [q EXCEPT !.runners = 1, !.state = "running"]
    <2>1. q.runners = 0
      BY <1>1, <1>7 DEF Start, SessionType
    <2>2. Becomes(s, r) /\ Created(s)
      BY <1>1, <1>3, <1>7, <2>1 DEF Start, SessionType
    <2>3. /\ r \in SessionType /\ r.state = "running" /\ r.closed = q.closed
          /\ r.connection = q.connection /\ r.external = q.external
          /\ r.reservation = q.reservation /\ r.runners = 1
      BY <1>1 DEF SessionType, States
    <2> HIDE DEF r
    <2> QED BY <2>2, <2>3, BecomesInv
  <1>8. ASSUME NEW c \in Conns, Pause(c, s)
        PROVE  RtInv'
    <2> DEFINE r == [q EXCEPT !.runners = 0, !.state = "paused"]
    <2>1. Becomes(s, r) /\ Created(s)
      BY <1>2, <1>3, <1>8 DEF Pause
    <2>2. /\ r \in SessionType /\ r.state # "none" /\ r.closed = q.closed
          /\ r.connection = q.connection /\ r.external = q.external
          /\ r.reservation = q.reservation /\ r.runners = 0
      BY <1>1 DEF SessionType, States
    <2> HIDE DEF r
    <2> QED BY <2>1, <2>2, BecomesInv
  <1>9. CASE RunnerStops(s) \/ RunnerExpires(s)
    <2>1. PICK end \in {"stopped", "error"} :
            Becomes(s, [q EXCEPT !.runners = @ - 1, !.state = end])
      BY <1>9 DEF RunnerStops, RunnerExpires
    <2>2. q.runners = 1 /\ Created(s)
      BY <1>1, <1>4, <1>9 DEF RunnerStops, RunnerExpires, SessionType
    <2> DEFINE r == [q EXCEPT !.runners = 0, !.state = end]
    <2>3. Becomes(s, r)
      BY <1>1, <2>1, <2>2 DEF SessionType
    <2>4. /\ r \in SessionType /\ r.state # "none" /\ r.closed = q.closed
          /\ r.connection = q.connection /\ r.external = q.external
          /\ r.reservation = q.reservation /\ r.runners = 0
      BY <1>1 DEF SessionType, States
    <2> HIDE DEF r
    <2> QED BY <2>2, <2>3, <2>4, BecomesInv
  <1>10. CASE GraceEnds(s)
    <2> DEFINE r == [q EXCEPT !.grace = "over"]
    <2>1. Becomes(s, r) /\ Created(s)
      BY <1>4, <1>10 DEF GraceEnds
    <2>2. /\ r \in SessionType /\ r.state = q.state /\ r.closed = q.closed
          /\ r.connection = q.connection /\ r.external = q.external
          /\ r.reservation = q.reservation /\ r.runners = q.runners
      BY <1>1 DEF SessionType
    <2> HIDE DEF r
    <2> QED BY <1>1, <2>1, <2>2, BecomesInv DEF Created
  <1> QED BY <1>5, <1>6, <1>7, <1>8, <1>9, <1>10

LEMMA ClosingStep ==
    ASSUME RtInv,
           \/ \E c \in Conns, s \in Sessions : ClientTerminates(c, s)
           \/ \E s \in Sessions : CleanupDetached(s)
           \/ CleanupFinishes
    PROVE  RtInv'
  <1> USE RealtimeAssumption DEF RtInv
  <1>1. /\ handler \in [Conns -> HandlerType] /\ observed \subseteq Sessions
        /\ sessions \subseteq Sessions
    BY DEF RealtimeTypeOK
  <1>2. \A s \in sessions : Created(s) /\ ~session[s].closed
    BY <1>1 DEF RegisteredWhileOpen, Open
  <1>3. ASSUME NEW c \in Conns, NEW s \in Sessions, ClientTerminates(c, s)
        PROVE  RtInv'
    <2>1. Created(s) /\ InWindow(s) /\ closing # s
      BY <1>3 DEF ClientTerminates, Commands, HandlersKnow, ClosingIsOpen
    <2> QED BY <1>1, <1>3, <2>1, CloseInv DEF ClientTerminates, HandlersKnow
  <1>4. ASSUME NEW s \in Sessions, CleanupDetached(s)
        PROVE  RtInv'
    <2> QED BY <1>1, <1>2, <1>4, CloseInv DEF CleanupDetached, HandlersKnow
  <1>5. CASE CleanupFinishes
    <2>1. closing \in sessions /\ \A d \in Conns : handler[d].new # closing
      BY <1>5 DEF CleanupFinishes, ClosingIsOpen
    <2>2. Terminate(closing)
      BY <1>2, <1>5, <2>1 DEF CleanupFinishes, Terminate, Slots!Release
    <2> QED BY <1>1, <1>2, <1>5, <2>1, <2>2, CloseInv DEF CleanupFinishes, HandlersKnow
  <1> QED BY <1>3, <1>4, <1>5

LEMMA ExpiredStep ==
    ASSUME RtInv, NEW s \in Sessions, CleanupExpired(s)
    PROVE  RtInv'
  <1> USE RealtimeAssumption DEF RtInv
  <1>1. /\ handler' = handler /\ handler \in [Conns -> HandlerType]
        /\ observed' = observed /\ observed \subseteq Sessions /\ window' = window /\ job' = job
        /\ closing = None /\ s \in sessions /\ ~InWindow(s)
    BY DEF CleanupExpired, RealtimeTypeOK
  <1>2. Created(s)
    BY <1>1 DEF RegisteredWhileOpen, Open
  <1>3. CASE session[s].connection = None
    BY <1>1, <1>2, <1>3, CloseInv DEF CleanupExpired, HandlersKnow
  <1>4. CASE session[s].connection # None
    <2> DEFINE r == [session[s] EXCEPT !.runners = 0]
    <2>1. session[s] \in SessionType /\ session[s].runners <= 1
      BY DEF RealtimeTypeOK, OneRunner
    <2>2. Cancelled(session[s].runners) = 0
      BY <2>1 DEF Cancelled, SessionType
    <2>3. /\ session' = [session EXCEPT ![s] = r]
          /\ closing' = s /\ UNCHANGED <<sessions, active>>
      BY <1>4, <2>2 DEF CleanupExpired, RealtimeTypeOK
    <2>4. /\ r \in SessionType /\ r.state = session[s].state /\ r.closed = session[s].closed
          /\ r.connection = session[s].connection /\ r.external = session[s].external
          /\ r.reservation = session[s].reservation /\ r.runners = 0
      BY <2>1 DEF SessionType
    <2> HIDE DEF r
    <2>5. session'[s] = r /\ \A t \in Sessions \ {s} : session'[t] = session[t]
      BY <2>3 DEF RealtimeTypeOK
    <2>6. \A t \in Sessions : /\ Created(t)' <=> Created(t)
                              /\ Open(t)' <=> Open(t)
                              /\ InWindow(t)' <=> InWindow(t)
                              /\ session'[t].connection = session[t].connection
                              /\ session'[t].external = session[t].external
      BY <1>1, <2>4, <2>5 DEF Created, Open, InWindow
    <2>7. RealtimeTypeOK'
      BY <1>1, <2>3, <2>4 DEF RealtimeTypeOK
    <2>8. RegisteredWhileOpen' /\ OneRunner' /\ AttachedIsObserved'
      BY <1>1, <2>3, <2>4, <2>5, <2>6 DEF RegisteredWhileOpen, OneRunner, AttachedIsObserved
    <2>9. HandlersKnow'
      BY <1>1, <2>6 DEF HandlersKnow, RealtimeTypeOK, HandlerType
    <2>10. BeingConfirmed' /\ ClosingIsOpen'
      BY <1>1, <1>4, <2>3, <2>6 DEF BeingConfirmed, ClosingIsOpen, HandlersKnow, RealtimeTypeOK
    <2>11. SlotForEach'
      BY <1>1, <2>3, <2>4, <2>5, <2>6, JobsUnchanged DEF SlotForEach
    <2> QED BY <2>7, <2>8, <2>9, <2>10, <2>11
  <1> QED BY <1>3, <1>4

LEMMA DisconnectStep ==
    ASSUME RtInv, NEW c \in Conns, Disconnect(c)
    PROVE  RtInv'
  <1> USE RealtimeAssumption DEF RtInv
  <1>1. /\ handler' = [handler EXCEPT ![c] = NoHandler] /\ handler[c].at = "receive"
        /\ UNCHANGED <<sessions, active, job, closing, observed, window>>
    BY DEF Disconnect, Receiving
  <1>2. NoHandler \in HandlerType /\ NoHandler.new = None /\ NoHandler.at = "off"
        /\ NoHandler.current = None
    BY DEF NoHandler, HandlerType
  <1>3. handler'[c] = NoHandler /\ handler[c].new = None
        /\ \A d \in Conns \ {c} : handler'[d] = handler[d]
    BY <1>1 DEF RealtimeTypeOK, HandlersKnow
  <1>4. \A s \in Sessions :
            /\ session'[s] \in SessionType
            /\ session'[s].state = session[s].state
            /\ session'[s].closed = session[s].closed
            /\ session'[s].runners = session[s].runners
            /\ session'[s].external = session[s].external
            /\ session'[s].reservation = session[s].reservation
            /\ session[s].connection = None => session'[s].connection = None
    <2> SUFFICES ASSUME NEW s \in Sessions
                 PROVE  /\ session'[s] \in SessionType
                        /\ session'[s].state = session[s].state
                        /\ session'[s].closed = session[s].closed
                        /\ session'[s].runners = session[s].runners
                        /\ session'[s].external = session[s].external
                        /\ session'[s].reservation = session[s].reservation
                        /\ session[s].connection = None => session'[s].connection = None
      OBVIOUS
    <2>1. session[s] \in SessionType
      BY DEF RealtimeTypeOK
    <2>2. CASE session[s].connection # c
      BY <2>1, <2>2 DEF Disconnect
    <2>3. CASE session[s].connection = c /\ handler[c].current = s
      <3>1. session'[s] = Detached(session[s])
        BY <2>3 DEF Disconnect
      <3> QED BY <2>1, <2>3, <3>1, Updates
    <2>4. CASE session[s].connection = c /\ handler[c].current # s
      <3>1. session'[s] = [session[s] EXCEPT !.connection = Gone]
        BY <2>4 DEF Disconnect
      <3> QED BY <2>1, <2>4, <3>1 DEF SessionType
    <2> QED BY <2>2, <2>3, <2>4
  <1>5. \A t \in Sessions : /\ Created(t)' <=> Created(t)
                            /\ Open(t)' <=> Open(t)
                            /\ InWindow(t)' <=> InWindow(t)
    BY <1>1, <1>4 DEF Created, Open, InWindow
  <1>6. RealtimeTypeOK'
    <2>1. session' \in [Sessions -> SessionType]
      BY <1>4 DEF Disconnect
    <2> QED BY <1>1, <1>2, <2>1 DEF RealtimeTypeOK
  <1>7. RegisteredWhileOpen' /\ OneRunner'
    BY <1>1, <1>4, <1>5 DEF RegisteredWhileOpen, OneRunner
  <1>8. AttachedIsObserved'
    BY <1>1, <1>4, <1>5 DEF AttachedIsObserved
  <1>9. HandlersKnow'
    BY <1>2, <1>3, <1>4, <1>5 DEF HandlersKnow, RealtimeTypeOK, HandlerType
  <1>10. BeingConfirmed' /\ ClosingIsOpen'
    BY <1>1, <1>2, <1>3, <1>4, <1>5 DEF BeingConfirmed, ClosingIsOpen, RealtimeTypeOK
  <1>11. SlotForEach'
    BY <1>1, <1>4, <1>5, JobsUnchanged DEF SlotForEach
  <1> QED BY <1>6, <1>7, <1>8, <1>9, <1>10, <1>11

LEMMA RestartStep ==
    ASSUME RtInv, Restart
    PROVE  RtInv'
  <1> USE RealtimeAssumption DEF RtInv
  <1> DEFINE over(s) == [Terminated(session[s]) EXCEPT !.runners = 0]
  <1>1. \A s \in Sessions :
            /\ over(s) \in SessionType /\ over(s).closed /\ over(s).connection = None
            /\ over(s).runners = 0 /\ over(s).state = "stopped"
    <2> SUFFICES ASSUME NEW s \in Sessions
                 PROVE  /\ over(s) \in SessionType /\ over(s).closed /\ over(s).connection = None
                        /\ over(s).runners = 0 /\ over(s).state = "stopped"
      OBVIOUS
    <2> DEFINE r == Terminated(session[s])
    <2>1. /\ r \in SessionType /\ r.state = "stopped" /\ r.closed /\ r.connection = None
      BY TerminatedFacts DEF RealtimeTypeOK, OneRunner
    <2> HIDE DEF r
    <2>2. LET o == [r EXCEPT !.runners = 0]
          IN  /\ o \in SessionType /\ o.closed = r.closed /\ o.connection = r.connection
              /\ o.runners = 0 /\ o.state = r.state
      BY <2>1 DEF SessionType
    <2> QED BY <2>1, <2>2 DEF r
  <1>2. /\ NoSession \in SessionType /\ NoSession.connection = None
        /\ NoSession.runners = 0 /\ NoSession.state = "none"
    BY DEF NoSession, SessionType, States
  <1>3. /\ NoHandler \in HandlerType /\ NoHandler.new = None /\ NoHandler.at = "off"
        /\ NoHandler.current = None
    BY DEF NoHandler, HandlerType
  <1> HIDE DEF over
  <1>4. session' = [s \in Sessions |-> IF Created(s) THEN over(s) ELSE NoSession]
    BY DEF Restart, over
  <1>5. /\ sessions' = {} /\ handler' = [c \in Conns |-> NoHandler] /\ active' = 0
        /\ job' = [j \in Jobs |-> IF job[j] = "new" THEN "new" ELSE "done"]
        /\ closing' = None /\ UNCHANGED <<observed, window>>
    BY DEF Restart
  <1>6. \A s \in Sessions :
            /\ session'[s] \in SessionType /\ session'[s].runners = 0 /\ ~Open(s)'
            /\ session'[s].connection = None
    BY <1>1, <1>2, <1>4 DEF Open, Created
  <1>7. RealtimeTypeOK'
    BY <1>1, <1>2, <1>3, <1>4, <1>5 DEF RealtimeTypeOK
  <1>8. RegisteredWhileOpen' /\ OneRunner' /\ AttachedIsObserved'
    BY <1>5, <1>6 DEF RegisteredWhileOpen, OneRunner, AttachedIsObserved
  <1>9. HandlersKnow' /\ BeingConfirmed' /\ ClosingIsOpen'
    BY <1>3, <1>5 DEF HandlersKnow, BeingConfirmed, ClosingIsOpen
  <1>10. SlotForEach'
    <2>1. Slots!Held' = {} /\ Slots!Twice' = {}
      BY <1>5 DEF Slots!Held, Slots!Twice
    <2> QED BY <1>5, <1>6, <2>1, FS_EmptySet DEF SlotForEach
  <1> QED BY <1>7, <1>8, <1>9, <1>10

LEMMA WindowStep ==
    ASSUME RtInv, NEW r \in Reservations, WindowEnds(r)
    PROVE  RtInv'
  BY DEF WindowEnds, RtInv, RealtimeTypeOK, RegisteredWhileOpen, OneRunner, AttachedIsObserved,
         HandlersKnow, BeingConfirmed, ClosingIsOpen, SlotForEach, Created, Open, InWindow,
         Slots!Held, Slots!Twice

\* A request of the run, stream or cancel endpoint moves the counter: whatever it
\* gives back it held, or it is one of those that give back twice.
LEMMA JobsStep ==
    ASSUME RtInv, JobsMove
    PROVE  RtInv'
  <1> USE RealtimeAssumption DEF RtInv
  <1> DEFINE held == Slots!Held
             twice == Slots!Twice
  <1>1. /\ UNCHANGED <<session, sessions, handler, closing, observed, window>>
        /\ active \in Nat
        /\ job \in [Jobs -> {"new", "holding", "cancelled", "twice", "done"}]
    BY DEF JobsMove, RealtimeTypeOK
  <1>2. PICK j \in Jobs : Slots!Take(j) \/ Slots!Cancel(j) \/ Slots!GiveBack(j)
    BY DEF JobsMove, Slots!Next
  <1>3. RealtimeTypeOK'
    BY <1>1, <1>2
    DEF RealtimeTypeOK, Slots!Take, Slots!Cancel, Slots!GiveBack, Slots!Acquire, Slots!Release
  <1>4. /\ RegisteredWhileOpen' /\ OneRunner' /\ AttachedIsObserved'
        /\ HandlersKnow' /\ BeingConfirmed' /\ ClosingIsOpen'
    BY <1>1 DEF RegisteredWhileOpen, OneRunner, AttachedIsObserved, HandlersKnow,
       BeingConfirmed, ClosingIsOpen, Created, Open, InWindow
  <1>5. Cardinality(sessions) + Cardinality(held') <= active' + Cardinality(twice')
    <2>1. /\ Cardinality(sessions) + Cardinality(held) <= active + Cardinality(twice)
          /\ Cardinality(sessions) \in Nat
          /\ IsFiniteSet(held) /\ Cardinality(held) \in Nat
          /\ IsFiniteSet(twice) /\ Cardinality(twice) \in Nat
      BY SessionsFinite, JobsFinite DEF SlotForEach
    <2>2. CASE Slots!Take(j)
      <3>1. /\ active' = active + 1 /\ j \notin held
            /\ held' = held \cup {j} /\ twice' = twice
        BY <1>1, <2>2 DEF Slots!Take, Slots!Acquire, Slots!Held, Slots!Twice
      <3>2. Cardinality(held \cup {j}) = Cardinality(held) + 1
        BY <2>1, <3>1, FS_AddElement
      <3> QED BY <1>1, <2>1, <3>1, <3>2
    <2>3. CASE job[j] = "holding" /\ (Slots!Cancel(j) \/ Slots!GiveBack(j))
      <3>1. /\ active' = IF active = 0 THEN 0 ELSE active - 1
            /\ j \in held /\ held' = held \ {j} /\ twice' = twice
        BY <1>1, <2>3
        DEF Slots!Cancel, Slots!GiveBack, Slots!Release, Slots!Held, Slots!Twice
      <3>2. Cardinality(held \ {j}) = Cardinality(held) - 1
        BY <2>1, <3>1, FS_RemoveElement
      <3> QED BY <1>1, <2>1, <3>1, <3>2
    <2>4. CASE job[j] = "cancelled" /\ Slots!GiveBack(j)
      <3>1. /\ active' = IF active = 0 THEN 0 ELSE active - 1
            /\ j \notin twice /\ held' = held /\ twice' = twice \cup {j}
        BY <1>1, <2>4 DEF Slots!GiveBack, Slots!Release, Slots!Held, Slots!Twice
      <3>2. Cardinality(twice \cup {j}) = Cardinality(twice) + 1
        BY <2>1, <3>1, FS_AddElement
      <3> QED BY <1>1, <2>1, <3>1, <3>2
    <2> QED BY <1>2, <2>2, <2>3, <2>4 DEF Slots!Cancel, Slots!GiveBack
  <1>6. SlotForEach'
    BY <1>1, <1>5 DEF SlotForEach, Created
  <1> QED BY <1>3, <1>4, <1>6

-----------------------------------------------------------------------------
LEMMA RtInvInit == RealtimeInit => RtInv
  <1> SUFFICES ASSUME RealtimeInit PROVE RtInv
    OBVIOUS
  <1>1. /\ NoSession \in SessionType /\ NoSession.connection = None
        /\ NoSession.runners = 0 /\ NoSession.state = "none"
    BY DEF NoSession, SessionType, States
  <1>2. /\ NoHandler \in HandlerType /\ NoHandler.new = None /\ NoHandler.at = "off"
        /\ NoHandler.current = None
    BY DEF NoHandler, HandlerType
  <1>3. RealtimeTypeOK
    BY <1>1, <1>2 DEF RealtimeInit, RealtimeTypeOK, Slots!Init
  <1>4. RegisteredWhileOpen /\ OneRunner /\ AttachedIsObserved
    BY <1>1 DEF RealtimeInit, RegisteredWhileOpen, OneRunner, AttachedIsObserved, Created, Open
  <1>5. HandlersKnow /\ BeingConfirmed /\ ClosingIsOpen
    BY <1>2 DEF RealtimeInit, HandlersKnow, BeingConfirmed, ClosingIsOpen
  <1>6. SlotForEach
    <2>1. Slots!Held = {} /\ Slots!Twice = {} /\ active = 0
      BY DEF RealtimeInit, Slots!Init, Slots!Held, Slots!Twice
    <2> QED BY <1>1, <2>1, FS_EmptySet DEF RealtimeInit, SlotForEach
  <1> QED BY <1>3, <1>4, <1>5, <1>6 DEF RtInv

LEMMA RtInvStep ==
    ASSUME RtInv, [RealtimeNext]_rtVars
    PROVE  RtInv'
  <1>1. ASSUME NEW c \in Conns,
               \/ \E bearer \in Reservations \cup {None} : Connect(c, bearer)
               \/ CreateWithBearer(c)
               \/ \E r \in Reservations : CreateWithTicket(c, r)
               \/ Issued(c)
               \/ CreateRefused(c)
        PROVE  RtInv'
    BY <1>1, HandlerStep
  <1>2. ASSUME NEW c \in Conns, Confirmed(c) \/ NotConfirmed(c) \/ Disconnect(c)
        PROVE  RtInv'
    BY <1>2, ConfirmStep, DisconnectStep
  <1>3. ASSUME NEW c \in Conns, NEW s \in Sessions,
               CreateInternal(c, s) \/ Redeemed(c, s) \/ Attach(c, s)
        PROVE  RtInv'
    BY <1>3, OpeningStep, AttachStep
  <1>4. ASSUME NEW c \in Conns, NEW s \in Sessions,
               \/ Initialize(c, s) \/ InitializeFails(c, s) \/ Start(c, s) \/ Pause(c, s)
        PROVE  RtInv'
    BY <1>4, SessionStep
  <1>5. ASSUME NEW s \in Sessions, RunnerStops(s) \/ RunnerExpires(s) \/ GraceEnds(s)
        PROVE  RtInv'
    BY <1>5, SessionStep
  <1>6. ASSUME NEW c \in Conns, NEW s \in Sessions, ClientTerminates(c, s)
        PROVE  RtInv'
    BY <1>6, ClosingStep
  <1>7. ASSUME NEW s \in Sessions, CleanupExpired(s) \/ CleanupDetached(s)
        PROVE  RtInv'
    BY <1>7, ExpiredStep, ClosingStep
  <1>8. CASE \/ CleanupFinishes \/ Restart \/ JobsMove
             \/ \E r \in Reservations : WindowEnds(r)
    BY <1>8, ClosingStep, RestartStep, JobsStep, WindowStep
  <1>9. CASE UNCHANGED rtVars
    BY <1>9 DEF rtVars, RtInv, RealtimeTypeOK, RegisteredWhileOpen, OneRunner,
         AttachedIsObserved, HandlersKnow, BeingConfirmed, ClosingIsOpen, SlotForEach,
         Created, Open, InWindow, Slots!Held, Slots!Twice
  <1> QED
    BY <1>1, <1>2, <1>3, <1>4, <1>5, <1>6, <1>7, <1>8, <1>9 DEF RealtimeNext

\* The counter that sessions and requests of a lab share falls below those that use
\* a slot by no more than the slots cancelled requests gave back twice, for every
\* number of connections, sessions and requests and every limit.
THEOREM SlotsCorrect == RealtimeSpec => []SlotsCoverSessions
  <1>1. RtInv => SlotsCoverSessions
    BY DEF RtInv, SlotForEach, RegisteredWhileOpen, SlotsCoverSessions
  <1> QED BY <1>1, RtInvInit, RtInvStep, PTL DEF RealtimeSpec

\* A session is open exactly as long as the cleanup loop can find it.
THEOREM RegisteredCorrect == RealtimeSpec => []RegisteredWhileOpen
  <1>1. RtInv => RegisteredWhileOpen
    BY DEF RtInv
  <1> QED BY <1>1, RtInvInit, RtInvStep, PTL DEF RealtimeSpec

\* At most one runner steps the FMU of a session, and only a running one.
THEOREM RunnerCorrect == RealtimeSpec => []OneRunner
  <1>1. RtInv => OneRunner
    BY DEF RtInv
  <1> QED BY <1>1, RtInvInit, RtInvStep, PTL DEF RealtimeSpec

\* No client of the edge is attached to a session without a durable observation.
THEOREM AttachedCorrect == RealtimeSpec => []AttachedIsObserved
  <1>1. RtInv => AttachedIsObserved
    BY DEF RtInv
  <1> QED BY <1>1, RtInvInit, RtInvStep, PTL DEF RealtimeSpec

\* Type correctness of sessions, handlers and the counter.
THEOREM TypeCorrect == RealtimeSpec => []RealtimeTypeOK
  <1>1. RtInv => RealtimeTypeOK
    BY DEF RtInv
  <1> QED BY <1>1, RtInvInit, RtInvStep, PTL DEF RealtimeSpec
-----------------------------------------------------------------------------
(* The limit of the lab                                                    *)

Runs == {s \in Sessions : session[s].runners > 0}

\* Sessions that were terminated and then started again by the socket that had
\* terminated them: they hold no slot.
Revived == {s \in Runs : session[s].closed}

\* What is left of RunningWithinLimit, which the code does not keep: the sessions
\* that run and the requests that hold a slot exceed the limit together by no more
\* than those two ways of working without a slot.
RunningButRevived ==
    Cardinality(Runs) + Cardinality(Slots!Held)
        <= Limit + Cardinality(Revived) + Cardinality(Slots!Twice)

\* Only a create or a request adds to the counter, and only below the limit.
LEMMA LimitStep ==
    ASSUME RtInv, RtInv', active <= Limit, [RealtimeNext]_rtVars
    PROVE  active' <= Limit
  <1> USE RealtimeAssumption
  <1>0. active \in Nat /\ active' \in Nat
    BY DEF RtInv, RealtimeTypeOK
  <1>1. ASSUME NEW s \in Sessions, Terminate(s)
        PROVE  active' <= active
    BY <1>1, <1>0 DEF Terminate, Slots!Release
  <1>2. ASSUME NEW c \in Conns, NEW s \in Sessions, NEW r, OpenSession(c, s, r)
        PROVE  active' <= Limit
    BY <1>2, <1>0 DEF OpenSession, Slots!Acquire
  <1>3. ASSUME NEW c \in Conns, NotConfirmed(c)
        PROVE  active' <= active
    <2>1. handler[c].new \in Sessions
      BY <1>3 DEF RtInv, HandlersKnow, NotConfirmed, RealtimeTypeOK, HandlerType
    <2> QED BY <1>1, <1>3, <2>1 DEF NotConfirmed
  <1>4. ASSUME NEW s \in Sessions, CleanupExpired(s)
        PROVE  active' <= active
    BY <1>0, <1>1, <1>4 DEF CleanupExpired
  <1>5. ASSUME NEW s \in Sessions, CleanupDetached(s)
        PROVE  active' <= active
    BY <1>1, <1>5 DEF CleanupDetached
  <1>6. ASSUME NEW c \in Conns, NEW s \in Sessions, ClientTerminates(c, s)
        PROVE  active' <= active
    BY <1>1, <1>6 DEF ClientTerminates
  <1>7. ASSUME NEW c \in Conns, NEW s \in Sessions, CreateInternal(c, s) \/ Redeemed(c, s)
        PROVE  active' <= Limit
    BY <1>2, <1>7 DEF CreateInternal, Redeemed
  <1>8. ASSUME NEW c \in Conns, NEW s \in Sessions,
               \/ Attach(c, s) \/ Initialize(c, s) \/ InitializeFails(c, s)
               \/ Start(c, s) \/ Pause(c, s)
        PROVE  active' = active
    BY <1>8 DEF Attach, Initialize, InitializeFails, Start, Pause, Becomes
  <1>9. ASSUME NEW s \in Sessions, RunnerStops(s) \/ RunnerExpires(s) \/ GraceEnds(s)
        PROVE  active' = active
    BY <1>9 DEF RunnerStops, RunnerExpires, GraceEnds, Becomes
  <1>10. ASSUME NEW c \in Conns,
                \/ \E bearer \in Reservations \cup {None} : Connect(c, bearer)
                \/ CreateWithBearer(c)
                \/ \E r \in Reservations : CreateWithTicket(c, r)
                \/ Issued(c)
                \/ CreateRefused(c)
                \/ Confirmed(c)
                \/ Disconnect(c)
         PROVE  active' = active
    BY <1>10
    DEF Connect, CreateWithBearer, CreateWithTicket, Issued, CreateRefused, Confirmed, Disconnect
  <1>11. CleanupFinishes \/ Restart => active' <= active
    BY <1>0 DEF CleanupFinishes, Restart, Slots!Release
  <1>12. (\E r \in Reservations : WindowEnds(r)) \/ UNCHANGED rtVars => active' = active
    BY DEF WindowEnds, rtVars
  <1>13. JobsMove => active' <= active \/ active' <= Limit
    BY <1>0 DEF JobsMove, Slots!Next, Slots!Take, Slots!Cancel, Slots!GiveBack,
       Slots!Acquire, Slots!Release
  <1>14. \/ active' <= active
         \/ active' <= Limit
    BY <1>0, <1>3, <1>4, <1>5, <1>6, <1>7, <1>8, <1>9, <1>10, <1>11, <1>12, <1>13
    DEF RealtimeNext
  <1> QED BY <1>0, <1>14

\* Sessions that run beyond the limit of their lab were terminated and started
\* again, or took a slot that a cancelled request had given back once too often: in
\* no other way do sessions and requests together exceed it.
THEOREM RunningBounded == RealtimeSpec => []RunningButRevived
  <1> USE RealtimeAssumption
  <1>1. RealtimeInit => active <= Limit
    BY DEF RealtimeInit, Slots!Init
  <1>2. RtInv /\ active <= Limit => RunningButRevived
    <2> SUFFICES ASSUME RtInv, active <= Limit
                 PROVE  RunningButRevived
      OBVIOUS
    <2> PICK R : R = Revived
      OBVIOUS
    <2>1. Runs \subseteq sessions \cup R
      BY DEF Runs, Revived, RtInv, SlotForEach, RegisteredWhileOpen, Open
    <2>2. IsFiniteSet(sessions) /\ IsFiniteSet(R)
      BY FS_Subset DEF Revived, Runs, RtInv, RealtimeTypeOK
    <2>3. Cardinality(sessions \cup R) =
            Cardinality(sessions) + Cardinality(R) - Cardinality(sessions \cap R)
      BY <2>2, FS_Union
    <2>4. IsFiniteSet(sessions \cup R) /\ IsFiniteSet(sessions \cap R)
      BY <2>2, FS_Union, FS_Subset
    <2>5. Cardinality(Runs) <= Cardinality(sessions \cup R)
      BY <2>1, <2>4, FS_Subset
    <2>6. IsFiniteSet(Runs)
      BY <2>1, <2>4, FS_Subset
    <2>7. /\ Cardinality(sessions) \in Nat /\ Cardinality(R) \in Nat
          /\ Cardinality(sessions \cap R) \in Nat /\ Cardinality(Runs) \in Nat
          /\ Cardinality(sessions \cup R) \in Nat
      BY <2>2, <2>4, <2>6, FS_CardinalityType
    <2>8. /\ Cardinality(sessions) + Cardinality(Slots!Held)
                <= active + Cardinality(Slots!Twice)
          /\ active \in Nat
      BY DEF RtInv, SlotForEach, RealtimeTypeOK
    <2>9. Cardinality(Slots!Held) \in Nat /\ Cardinality(Slots!Twice) \in Nat
      BY JobsFinite
    <2> QED BY <2>3, <2>5, <2>7, <2>8, <2>9 DEF RunningButRevived
  <1>3. RtInv /\ RtInv' /\ active <= Limit /\ [RealtimeNext]_rtVars => (active <= Limit)'
    BY LimitStep
  <1> QED BY <1>1, <1>2, <1>3, RtInvInit, RtInvStep, PTL DEF RealtimeSpec

=============================================================================
