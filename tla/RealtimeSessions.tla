-------------------------- MODULE RealtimeSessions --------------------------
(***************************************************************************)
(* Realtime FMU sessions of the fmu-runner in local mode                   *)
(* (fmu-runner/realtime_ws.py).  Their concurrency slots are those of      *)
(* main.py, which the run, stream and cancel endpoints of the same process *)
(* move too: LabSlots has these, and here any of them may act at any time. *)
(*                                                                         *)
(* One asyncio loop runs the handler of every WebSocket, the cleanup loop  *)
(* and one runner task per running simulation.  A step of the model is     *)
(* what runs between two awaits that really suspend: receiving a command,  *)
(* issuing or redeeming a ticket, confirming the observation, the cleanup  *)
(* loop's last message to a client, the runner's sleep.  The manager's     *)
(* lock is held across none of them.  A repeated requestId is answered     *)
(* from a cache and a refused command changes nothing: neither is a step.  *)
(* The ticket service is external.                                         *)
(***************************************************************************)
EXTENDS Integers, FiniteSets

CONSTANTS
    Conns,          \* WebSockets; one name serves many connections in turn
    Internal,       \* those that arrive at /internal/fmu/sessions
    Sessions,       \* session identifiers (bounds the sessions ever created)
    Reservations,   \* reservations of one FMU; each has a window [nbf, exp)
    Jobs,           \* run and stream requests to the same lab
    Limit,          \* MAX_CONCURRENT_PER_MODEL
    None,           \* no claims, no session, no connection
    Gone            \* a connection object whose handler has ended

ASSUME RealtimeAssumption ==
    /\ IsFiniteSet(Sessions) /\ IsFiniteSet(Jobs)
    /\ Internal \subseteq Conns
    /\ Limit \in Nat
    /\ None \notin Conns \cup Sessions \cup Reservations
    /\ Gone \notin Conns /\ Gone # None

VARIABLES
    session,    \* session[s]: the _RealtimeSession object
    sessions,   \* manager._sessions: what the cleanup loop and attach can see
    handler,    \* handler[c]: the local variables of handle_websocket
    active,     \* _active_counts of the FMU's lab
    job,        \* job[j]: whether a run or stream request holds a slot of it
    closing,    \* the session the cleanup loop is telling "expired", or None
    observed,   \* external: sessions with a durable observation
    window      \* the reservations whose window is open

rtVars == <<session, sessions, handler, active, job, closing, observed, window>>

Slots == INSTANCE LabSlots

States == {"none", "created", "initialized", "running", "paused", "stopped", "error"}

SessionType ==
    [state: States, reservation: Reservations \cup {None},
     connection: Conns \cup {None, Gone}, grace: {"none", "running", "over"},
     closed: BOOLEAN, fmu: BOOLEAN, runners: Nat, external: BOOLEAN]

HandlerType ==
    [at: {"off", "receive", "issue", "redeem", "confirm"},
     claims: Reservations \cup {None}, ticket: Reservations \cup {None},
     current: Sessions \cup {None}, new: Sessions \cup {None}]

NoSession ==
    [state |-> "none", reservation |-> None, connection |-> None, grace |-> "none",
     closed |-> FALSE, fmu |-> FALSE, runners |-> 0, external |-> FALSE]

NoHandler ==
    [at |-> "off", claims |-> None, ticket |-> None,
     current |-> None, new |-> None]

RealtimeInit ==
    /\ session = [s \in Sessions |-> NoSession]
    /\ sessions = {}
    /\ handler = [c \in Conns |-> NoHandler]
    /\ Slots!Init
    /\ closing = None
    /\ observed = {}
    /\ window = Reservations

Created(s) == session[s].state # "none"
Open(s) == Created(s) /\ ~session[s].closed

\* ensure_reservation_window
InWindow(s) == session[s].reservation \in window

\* Cancelling _runner_task ends the task it holds at its sleep.
Cancelled(n) == IF n = 0 THEN 0 ELSE n - 1

Detached(r) == [r EXCEPT !.connection = None, !.grace = "running"]
Attached(r, c) == [r EXCEPT !.connection = c, !.grace = "none"]

\* terminate, but for the slot: runner cancelled, detached, FMU released.
Terminated(r) ==
    [Detached(r) EXCEPT !.runners = Cancelled(@), !.fmu = FALSE,
                        !.state = "stopped", !.closed = TRUE]

\* Mutated form: a closed session is terminated once more.
TerminateAgain(s) ==
    /\ session' = [session EXCEPT ![s] = Terminated(@)]
    /\ Slots!Release

\* terminate of a closed session returns at once; any other gives its slot back.
Terminate(s) ==
    IF session[s].closed
    THEN UNCHANGED <<session, active>>
    ELSE /\ session' = [session EXCEPT ![s] = Terminated(@)]
         /\ Slots!Release

Receiving(c) == handler[c].at = "receive"
To(c, place) == handler' = [handler EXCEPT ![c].at = place]

-----------------------------------------------------------------------------
(* session.create *)

\* A bearer counts only while its reservation lasts; without one the client
\* stays connected and may still bring a ticket.  The Station's inner hop
\* (internal) always brings one.
Connect(c, bearer) ==
    /\ handler[c].at = "off"
    /\ bearer \in window \cup {None}
    /\ c \in Internal => bearer # None
    /\ handler' = [handler EXCEPT ![c] =
            [NoHandler EXCEPT !.at = "receive", !.claims = bearer]]
    /\ UNCHANGED <<session, sessions, active, job, closing, observed, window>>

\* What an accepted create does once its claims are known: take a slot, check
\* the window, register.  A create refused by the window check keeps the slot.
OpenSession(c, s, claims) ==
    /\ ~Created(s)
    /\ Slots!Acquire
    /\ IF claims \notin window
       THEN /\ handler' = [handler EXCEPT ![c].at = "receive", ![c].claims = claims]
            /\ UNCHANGED <<session, sessions>>
       ELSE LET new == [NoSession EXCEPT !.state = "created", !.reservation = claims,
                                         !.external = c \notin Internal]
            IN  /\ sessions' = sessions \cup {s}
                /\ IF c \in Internal
                   THEN /\ session' = [session EXCEPT ![s] = Attached(new, c)]
                        /\ handler' = [handler EXCEPT ![c].current = s]
                   ELSE /\ session' = [session EXCEPT ![s] = new]
                        /\ handler' = [handler EXCEPT ![c].at = "confirm", ![c].claims = claims,
                                                      ![c].ticket = None, ![c].new = s]

CreateInternal(c, s) ==
    /\ Receiving(c)
    /\ c \in Internal
    /\ OpenSession(c, s, handler[c].claims)
    /\ UNCHANGED <<job, closing, observed, window>>

\* A client with a bearer and no ticket: the runner asks for one first.
CreateWithBearer(c) ==
    /\ Receiving(c)
    /\ c \notin Internal
    /\ handler[c].claims \in window
    /\ handler' = [handler EXCEPT ![c].at = "issue", ![c].ticket = handler[c].claims]
    /\ UNCHANGED <<session, sessions, active, job, closing, observed, window>>

CreateWithTicket(c, r) ==
    /\ Receiving(c)
    /\ c \notin Internal
    /\ r \in window
    /\ handler' = [handler EXCEPT ![c].at = "redeem", ![c].ticket = r]
    /\ UNCHANGED <<session, sessions, active, job, closing, observed, window>>

Issued(c) ==
    /\ handler[c].at = "issue"
    /\ To(c, "redeem")
    /\ UNCHANGED <<session, sessions, active, job, closing, observed, window>>

Redeemed(c, s) ==
    /\ handler[c].at = "redeem"
    /\ OpenSession(c, s, handler[c].ticket)
    /\ UNCHANGED <<job, closing, observed, window>>

\* The ticket is not issued, not redeemed, or the lab is at its limit (the
\* claims of a redeemed ticket stay with the connection).
CreateRefused(c) ==
    /\ handler[c].at \in {"issue", "redeem"}
    /\ \E claims \in {handler[c].claims} \cup
                      {r \in {handler[c].ticket} : handler[c].at = "redeem" /\ active >= Limit} :
            handler' = [handler EXCEPT ![c].at = "receive", ![c].claims = claims,
                                       ![c].ticket = None]
    /\ UNCHANGED <<session, sessions, active, job, closing, observed, window>>

\* Mutated form: a confirmation that failed is taken for one that succeeded.
ConfirmedAnyway(c) ==
    LET s == handler[c].new
    IN  /\ handler[c].at = "confirm"
        /\ observed' \in {observed, observed \cup {s}}
        /\ session' = [session EXCEPT ![s] = Attached(@, c)]
        /\ handler' = [handler EXCEPT ![c].at = "receive", ![c].current = s, ![c].new = None]
        /\ UNCHANGED <<sessions, active, job, closing, window>>

\* The observation is durable: the session is attached and the client told.
Confirmed(c) ==
    LET s == handler[c].new
    IN  /\ handler[c].at = "confirm"
        /\ observed' = observed \cup {s}
        /\ session' = [session EXCEPT ![s] = Attached(@, c)]
        /\ handler' = [handler EXCEPT ![c].at = "receive", ![c].current = s, ![c].new = None]
        /\ UNCHANGED <<sessions, active, job, closing, window>>

\* Mutated form: the refused session stays registered.
NotConfirmedKept(c) ==
    /\ handler[c].at = "confirm"
    /\ Terminate(handler[c].new)
    /\ handler' = [handler EXCEPT ![c].at = "receive", ![c].new = None]
    /\ UNCHANGED <<sessions, job, closing, observed, window>>

\* The confirmation failed, or was recorded and its answer lost.
NotConfirmed(c) ==
    LET s == handler[c].new
    IN  /\ handler[c].at = "confirm"
        /\ \E recorded \in {{}, {s}} : observed' = observed \cup recorded
        /\ sessions' = sessions \ {s}
        /\ Terminate(s)
        /\ handler' = [handler EXCEPT ![c].at = "receive", ![c].new = None]
        /\ UNCHANGED <<job, closing, window>>

-----------------------------------------------------------------------------
(* session.attach, the commands of an attached session, the end of a socket *)

\* A client knows an identifier, drawn at random, from session.created only.
Attach(c, s) ==
    /\ Receiving(c)
    /\ s \in sessions
    /\ \A d \in Conns : handler[d].new # s
    /\ handler[c].claims = session[s].reservation
    /\ session' = [session EXCEPT ![s] = Attached(@, c)]
    /\ handler' = [handler EXCEPT ![c].current = s]
    /\ UNCHANGED <<sessions, active, job, closing, observed, window>>

\* A command reaches the connection's current session while the window lasts,
\* also when another connection has attached it or it is closed.
Commands(c, s) ==
    /\ Receiving(c)
    /\ handler[c].current = s
    /\ s # None
    /\ InWindow(s)

Becomes(s, r) ==
    /\ session' = [session EXCEPT ![s] = r]
    /\ UNCHANGED <<sessions, handler, active, job, closing, observed, window>>

\* Mutated form: the runner of the old FMU runs on.
InitializeOnly(c, s) ==
    /\ Commands(c, s)
    /\ Becomes(s, [session[s] EXCEPT !.fmu = TRUE, !.state = "initialized"])

\* sim.initialize and sim.reset: the runner is cancelled, the old FMU released
\* and a new one brought to its initial state.
Initialize(c, s) ==
    /\ Commands(c, s)
    /\ Becomes(s, [session[s] EXCEPT !.runners = Cancelled(@), !.fmu = TRUE,
                                     !.state = "initialized"])

\* They fail on the options (the old FMU stays), on the FMU or on its inputs:
\* the runner is cancelled all the same and the state is left as it was.
InitializeFails(c, s) ==
    /\ Commands(c, s)
    /\ \E fmu \in BOOLEAN :
            Becomes(s, [session[s] EXCEPT !.runners = Cancelled(@), !.fmu = fmu])

\* sim.start, and sim.resume from a state that allows it.
Start(c, s) ==
    /\ Commands(c, s)
    /\ session[s].fmu
    /\ session[s].state # "running"
    /\ Becomes(s, [session[s] EXCEPT !.runners = @ + 1, !.state = "running"])

Pause(c, s) ==
    /\ Commands(c, s)
    /\ session[s].state = "running"
    /\ Becomes(s, [session[s] EXCEPT !.runners = Cancelled(@), !.state = "paused"])

ClientTerminates(c, s) ==
    /\ Commands(c, s)
    /\ Terminate(s)
    /\ sessions' = sessions \ {s}
    /\ UNCHANGED <<handler, job, closing, observed, window>>

\* The handler ends: it detaches its current session if that session is still
\* its own.  Any other session attached to this socket keeps it.
Disconnect(c) ==
    /\ Receiving(c)
    /\ session' = [s \in Sessions |->
            IF session[s].connection # c THEN session[s]
            ELSE IF handler[c].current = s THEN Detached(session[s])
            ELSE [session[s] EXCEPT !.connection = Gone]]
    /\ handler' = [handler EXCEPT ![c] = NoHandler]
    /\ UNCHANGED <<sessions, active, job, closing, observed, window>>

-----------------------------------------------------------------------------
(* The runner task, the clock and the cleanup loop *)

\* The run reaches its stop time, or the FMU fails.
RunnerStops(s) ==
    /\ session[s].runners > 0
    /\ \E end \in {"stopped", "error"} :
            Becomes(s, [session[s] EXCEPT !.runners = @ - 1, !.state = end])

\* The step after the window's end raises.
RunnerExpires(s) ==
    /\ session[s].runners > 0
    /\ ~InWindow(s)
    /\ Becomes(s, [session[s] EXCEPT !.runners = @ - 1, !.state = "error"])

WindowEnds(r) ==
    /\ r \in window
    /\ window' = window \ {r}
    /\ UNCHANGED <<session, sessions, handler, active, job, closing, observed>>

\* ws_attach_grace_seconds pass; only the cleanup loop asks.
GraceEnds(s) ==
    /\ s \in sessions
    /\ session[s].grace = "running"
    /\ Becomes(s, [session[s] EXCEPT !.grace = "over"])

\* Mutated form: the clean-up looks at sessions without a client only.
CleanupExpiredLeft(s) ==
    /\ closing = None
    /\ s \in sessions
    /\ ~InWindow(s)
    /\ session[s].connection = None
    /\ Terminate(s)
    /\ sessions' = sessions \ {s}
    /\ UNCHANGED <<handler, job, closing, observed, window>>

\* The cleanup loop meets a session past its window.  With a connection it
\* first tells the client, and waits; the window check keeps out commands.
CleanupExpired(s) ==
    /\ closing = None
    /\ s \in sessions
    /\ ~InWindow(s)
    /\ IF session[s].connection = None
       THEN /\ Terminate(s)
            /\ sessions' = sessions \ {s}
            /\ UNCHANGED closing
       ELSE /\ session' = [session EXCEPT ![s].runners = Cancelled(@)]
            /\ closing' = s
            /\ UNCHANGED <<sessions, active>>
    /\ UNCHANGED <<handler, job, observed, window>>

\* The message is sent or fails; terminate goes on without asking again
\* whether the session has been closed meanwhile.
CleanupFinishes ==
    /\ closing # None
    /\ session' = [session EXCEPT ![closing] = Terminated(@)]
    /\ Slots!Release
    /\ sessions' = sessions \ {closing}
    /\ closing' = None
    /\ UNCHANGED <<handler, job, observed, window>>

\* Mutated form: a simulation left running is not reclaimed.
CleanupDetachedIdle(s) ==
    /\ closing = None
    /\ s \in sessions
    /\ InWindow(s)
    /\ session[s].connection = None
    /\ session[s].grace = "over"
    /\ session[s].state # "running"
    /\ Terminate(s)
    /\ sessions' = sessions \ {s}
    /\ UNCHANGED <<handler, job, closing, observed, window>>

\* It closes a session whose grace is over.
CleanupDetached(s) ==
    /\ closing = None
    /\ s \in sessions
    /\ InWindow(s)
    /\ session[s].connection = None
    /\ session[s].grace = "over"
    /\ Terminate(s)
    /\ sessions' = sessions \ {s}
    /\ UNCHANGED <<handler, job, closing, observed, window>>

\* The process stops, telling each session, and starts again with none.
Restart ==
    /\ session' = [s \in Sessions |->
            IF Created(s) THEN [Terminated(session[s]) EXCEPT !.runners = 0] ELSE NoSession]
    /\ sessions' = {}
    /\ handler' = [c \in Conns |-> NoHandler]
    /\ active' = 0
    /\ job' = [j \in Jobs |-> IF job[j] = "new" THEN "new" ELSE "done"]
    /\ closing' = None
    /\ UNCHANGED <<observed, window>>

\* The run, stream and cancel endpoints move the same counter.
JobsMove ==
    /\ Slots!Next
    /\ UNCHANGED <<session, sessions, handler, closing, observed, window>>

RealtimeNext ==
    \/ \E c \in Conns :
        \/ \E bearer \in Reservations \cup {None} : Connect(c, bearer)
        \/ CreateWithBearer(c)
        \/ \E r \in Reservations : CreateWithTicket(c, r)
        \/ Issued(c)
        \/ CreateRefused(c)
        \/ Confirmed(c)
        \/ NotConfirmed(c)
        \/ Disconnect(c)
        \/ \E s \in Sessions :
            \/ CreateInternal(c, s)
            \/ Redeemed(c, s)
            \/ Attach(c, s)
            \/ Initialize(c, s)
            \/ InitializeFails(c, s)
            \/ Start(c, s)
            \/ Pause(c, s)
            \/ ClientTerminates(c, s)
    \/ \E s \in Sessions :
        \/ RunnerStops(s)
        \/ RunnerExpires(s)
        \/ GraceEnds(s)
        \/ CleanupExpired(s)
        \/ CleanupDetached(s)
    \/ CleanupFinishes
    \/ \E r \in Reservations : WindowEnds(r)
    \/ JobsMove
    \/ Restart

RealtimeSpec == RealtimeInit /\ [][RealtimeNext]_rtVars

\* The event loop runs on: the cleanup loop comes round, its message is sent or
\* fails, timers fire and a runner wakes.  No client owes anything, and nothing
\* here waits for a reservation to end.
RealtimeFairness ==
    /\ \A s \in Sessions :
        /\ WF_rtVars(RunnerExpires(s))
        /\ WF_rtVars(GraceEnds(s))
        /\ WF_rtVars(CleanupExpired(s))
        /\ WF_rtVars(CleanupDetached(s))
    /\ WF_rtVars(CleanupFinishes)

RealtimeFairSpec == RealtimeSpec /\ RealtimeFairness

-----------------------------------------------------------------------------
RealtimeTypeOK ==
    /\ session \in [Sessions -> SessionType]
    /\ sessions \subseteq Sessions
    /\ handler \in [Conns -> HandlerType]
    /\ active \in Nat
    /\ job \in [Jobs -> {"new", "holding", "cancelled", "twice", "done"}]
    /\ closing \in Sessions \cup {None}
    /\ observed \subseteq Sessions
    /\ window \subseteq Reservations

\* No session gives its slot back while it is open, and none gives it back twice,
\* whether a client, a failed observation or the cleanup loop ends it, in any order:
\* the counter that a lab's sessions share with its run and stream requests falls
\* below those that use a slot only by the slots that cancelled requests gave back
\* twice (cancel_simulation and the finally block of run_simulation).
SlotsCoverSessions ==
    Cardinality({s \in Sessions : Open(s)}) + Cardinality(Slots!Held)
        <= active + Cardinality(Slots!Twice)

\* A session is open exactly as long as the cleanup loop can find it.
RegisteredWhileOpen == sessions = {s \in Sessions : Open(s)}

\* At most one runner task steps a session's FMU, and only one that the state
\* calls running, however start, pause, reset and a failing initialize alternate.
OneRunner ==
    \A s \in Sessions :
        /\ session[s].runners <= 1
        /\ session[s].runners = 1 => session[s].state = "running"

\* An external client is attached to a session only once its observation is
\* durable (fmu-runner/README.md:147).
AttachedIsObserved ==
    \A s \in Sessions :
        Created(s) /\ session[s].external /\ session[s].connection # None => s \in observed

\* A session whose window is over is closed and nothing steps its FMU any more,
\* a session terminated by its client and started again included
\* (docs/fmi-fmu-support.md:200).
ExpiredIsClosed ==
    \A s \in Sessions :
        (Created(s) /\ ~InWindow(s)) ~> (session[s].closed /\ session[s].runners = 0)

\* A session left by its connection is taken up again or closed when its grace
\* is over, without waiting for the window to end.
DetachedIsReclaimed ==
    \A s \in Sessions :
        (Open(s) /\ session[s].grace # "none") ~>
            (session[s].closed \/ session[s].grace = "none")

\* No more simulations run at once than the limit allows (.env.example:278).
RunningWithinLimit == Cardinality({s \in Sessions : session[s].runners > 0}) <= Limit

=============================================================================
