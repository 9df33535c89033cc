------------------------------ MODULE DemoSlot ------------------------------
(***************************************************************************)
(* The single slot of anonymous demo access at the OpenResty edge          *)
(* (openresty/lua/modules: demo_handoff, demo_guard, the demo branches of  *)
(* access_handler, guacamole_token_handler and log_handler, and            *)
(* session_guard's overlap check).  One nginx worker runs the Lua code, so *)
(* requests interleave where they wait for the network; the shared dicts   *)
(* drop a key when its time is over, whatever the code is doing.           *)
(*                                                                         *)
(* Time passes in ticks; a lifetime is the number of ticks left.           *)
(***************************************************************************)
EXTENDS Integers, FiniteSets

CONSTANTS Sessions,         \* demo sessions, named by their DEMO_JTI
          Nobody,           \* the overlap check looks at no session
          TTL,              \* demo_session_ttl_seconds, in ticks
          MaxTunnels        \* bound: tunnels of one session at a time

ASSUME SessionAssumption == IsFiniteSet(Sessions) /\ Nobody \notin Sessions
ASSUME BoundAssumption == TTL \in Nat \ {0} /\ MaxTunnels \in Nat

VARIABLES counter,          \* demo_sessions["active"]: its value and its lifetime
          sess,             \* the lifetime of demo_sessions["session:" .. jti]
          life,             \* the time to demo_exp, and of the cookie's mappings
          pc,               \* where the handoff of each session is
          exchanging,       \* sessions whose token request is at Guacamole
          tokens,           \* sessions with a registered token (guac_demo)
          tunnels,          \* open websocket tunnels of each session
          busy,             \* the calendar has a reservation in the demo window
          poll,             \* the session check_demo_sessions works on
          early,            \* a slot was given back before its time (history)
          lapsed            \* the counter expired under a live session (history)

vars == <<counter, sess, life, pc, exchanging, tokens, tunnels, busy, poll, early, lapsed>>

Never == TTL + 1            \* the lifetime of a key set without a ttl
Absent == [val |-> 0, left |-> 0]

Live == {s \in Sessions : sess[s] > 0}

TypeOK ==
  /\ counter \in [val : 0..1, left : 0..Never]
  /\ sess \in [Sessions -> 0..TTL] /\ life \in [Sessions -> 0..TTL]
  /\ pc \in [Sessions -> {"new", "checking", "available", "refused", "open"}]
  /\ exchanging \subseteq Sessions /\ tokens \subseteq Sessions
  /\ tunnels \in [Sessions -> 0..MaxTunnels]
  /\ busy \in BOOLEAN /\ poll \in Sessions \cup {Nobody}
  /\ early \in BOOLEAN /\ lapsed \in BOOLEAN

Init ==
  /\ counter = Absent
  /\ sess = [s \in Sessions |-> 0] /\ life = [s \in Sessions |-> 0]
  /\ pc = [s \in Sessions |-> "new"]
  /\ exchanging = {} /\ tokens = {}
  /\ tunnels = [s \in Sessions |-> 0]
  /\ busy = FALSE /\ poll = Nobody
  /\ early = FALSE /\ lapsed = FALSE

Goto(s, l) == pc' = [pc EXCEPT ![s] = l]

-----------------------------------------------------------------------------
(* The shared dict.                                                        *)

\* incr(key, 1, 0, ttl): the ttl counts only when the key is created.
Incremented(c, ttl) == IF c.left = 0 THEN [val |-> 1, left |-> ttl]
                                     ELSE [c EXCEPT !.val = @ + 1]

\* Mutated form: a counter below zero is left there.
DecrementedBelow(c) == IF c.left = 0 THEN [val |-> -1, left |-> Never]
                                     ELSE [c EXCEPT !.val = @ - 1]

\* decrement_active: incr(key, -1, 0), and set(key, 0) below zero, which
\* leaves a key without a ttl.
Decremented(c) == IF c.val - 1 < 0 THEN [val |-> 0, left |-> Never]
                                   ELSE [c EXCEPT !.val = @ - 1]

\* Mutated form: the session is not looked up first.
ReleaseAlways(s) ==
  /\ sess' = [sess EXCEPT ![s] = 0]
  /\ counter' = Decremented(counter)
  /\ early' = TRUE

\* demo_guard.release.
Release(s) ==
  IF sess[s] = 0 THEN UNCHANGED <<sess, counter, early>>
  ELSE /\ sess' = [sess EXCEPT ![s] = 0]
       /\ counter' = Decremented(counter)
       /\ early' = TRUE

Older(n) == IF n \in 1..TTL THEN n - 1 ELSE n

\* Keys expire.  An availability request times out long before the window it
\* asks about.
Tick ==
  /\ \A s \in Sessions : pc[s] \in {"checking", "available"} => life[s] > 1
  /\ counter' = IF Older(counter.left) = 0 THEN Absent ELSE [counter EXCEPT !.left = Older(@)]
  /\ sess' = [s \in Sessions |-> Older(sess[s])]
  /\ life' = [s \in Sessions |-> Older(life[s])]
  /\ lapsed' = (lapsed \/ (counter.left = 1 /\ \E s \in Sessions : sess'[s] > 0))
  /\ UNCHANGED <<pc, exchanging, tokens, tunnels, busy, poll, early>>

-----------------------------------------------------------------------------
(* The handoff: demo_handoff.run and demo_guard.start.                     *)

\* demo_exp is set when the request arrives, before the calendar is asked.
Handoff(s) ==
  /\ pc[s] = "new"
  /\ Goto(s, "checking")
  /\ life' = [life EXCEPT ![s] = TTL]
  /\ UNCHANGED <<counter, sess, exchanging, tokens, tunnels, busy, poll, early, lapsed>>

Refused(s) == Goto(s, "refused") /\ life' = [life EXCEPT ![s] = 0]

\* is_lab_busy; without a trustworthy answer the handoff is refused.
CheckAvailability(s) ==
  /\ pc[s] = "checking"
  /\ \/ ~busy /\ Goto(s, "available") /\ UNCHANGED life
     \/ Refused(s)
  /\ UNCHANGED <<counter, sess, exchanging, tokens, tunnels, busy, poll, early, lapsed>>

\* Mutated form: the counter gets the configured lifetime, not the one left.
ReserveFullTtl(s) ==
  /\ pc[s] = "available"
  /\ LET taken == Incremented(counter, TTL)
     IN  IF taken.val > 1
         THEN counter' = Decremented(taken) /\ Refused(s) /\ UNCHANGED <<sess, early>>
         ELSE /\ counter' = taken
              /\ sess' = [sess EXCEPT ![s] = life[s]]
              /\ Goto(s, "open")
              /\ UNCHANGED <<life, early>>
  /\ UNCHANGED <<exchanging, tokens, tunnels, busy, poll, lapsed>>

\* The slot, the session and the cookie's mappings are written without a
\* yield; when a dict is full the slot is given back.
Reserve(s) ==
  /\ pc[s] = "available"
  /\ LET taken == Incremented(counter, life[s])
     IN  \/ /\ taken.val > 1
            /\ counter' = Decremented(taken) /\ Refused(s)
            /\ UNCHANGED <<sess, early>>
         \/ /\ taken.val = 1
            /\ counter' = taken
            /\ sess' = [sess EXCEPT ![s] = life[s]]
            /\ Goto(s, "open")
            /\ UNCHANGED <<life, early>>
         \/ /\ taken.val = 1
            /\ counter' = Decremented(taken) /\ Refused(s)
            /\ early' = TRUE
            /\ UNCHANGED sess
  /\ UNCHANGED <<exchanging, tokens, tunnels, busy, poll, lapsed>>

-----------------------------------------------------------------------------
(* Requests with the demo cookie.                                          *)

\* access_handler and demo_guard.run let the request pass.
Admitted(s) == pc[s] = "open" /\ life[s] > 0 /\ sess[s] > 0

StartExchange(s) ==
  /\ Admitted(s) /\ s \notin exchanging
  /\ exchanging' = exchanging \cup {s}
  /\ UNCHANGED <<counter, sess, life, pc, tokens, tunnels, busy, poll, early, lapsed>>

\* secure_demo_token registers what Guacamole issued, or nothing.
EndExchange(s) ==
  /\ s \in exchanging
  /\ exchanging' = exchanging \ {s}
  /\ tokens' \in {tokens, tokens \cup {s}}
  /\ UNCHANGED <<counter, sess, life, pc, tunnels, busy, poll, early, lapsed>>

OpenTunnel(s) ==
  /\ Admitted(s) /\ tunnels[s] < MaxTunnels
  /\ tunnels' = [tunnels EXCEPT ![s] = @ + 1]
  /\ UNCHANGED <<counter, sess, life, pc, exchanging, tokens, busy, poll, early, lapsed>>

\* log_handler at the end of a tunnel that was established.
CloseTunnel(s) ==
  /\ tunnels[s] > 0
  /\ tunnels' = [tunnels EXCEPT ![s] = @ - 1]
  /\ Release(s)
  /\ UNCHANGED <<life, pc, exchanging, tokens, busy, poll, lapsed>>

-----------------------------------------------------------------------------
(* The reservation calendar and the session guard.                         *)

CalendarChanges ==
  /\ busy' = ~busy
  /\ UNCHANGED <<counter, sess, life, pc, exchanging, tokens, tunnels, poll, early, lapsed>>

\* Mutated form: a session that was released is not looked at any more.
PollLiveOnly(s) ==
  /\ poll = Nobody /\ s \in tokens /\ life[s] > 0 /\ sess[s] > 0
  /\ poll' \in IF busy THEN {s} ELSE {s, Nobody}
  /\ UNCHANGED <<counter, sess, life, pc, exchanging, tokens, tunnels, busy, early, lapsed>>

\* check_demo_sessions finds a session that overlaps a reservation, or cannot
\* ask the calendar.
PollOverlap(s) ==
  /\ poll = Nobody /\ s \in tokens /\ life[s] > 0
  /\ poll' \in IF busy THEN {s} ELSE {s, Nobody}
  /\ UNCHANGED <<counter, sess, life, pc, exchanging, tokens, tunnels, busy, early, lapsed>>

\* It closes the connections and revokes the token; on an error it leaves
\* everything to the next poll.
Revoke(ok) ==
  /\ poll # Nobody
  /\ poll' = Nobody
  /\ IF ok THEN Release(poll) /\ tokens' = tokens \ {poll}
           ELSE UNCHANGED <<counter, sess, early, tokens>>
  /\ UNCHANGED <<life, pc, exchanging, tunnels, busy, lapsed>>

\* check_expired_sessions revokes a token whose demo_exp is over.
RevokeExpired(s) ==
  /\ s \in tokens /\ life[s] = 0
  /\ tokens' = tokens \ {s}
  /\ UNCHANGED <<counter, sess, life, pc, exchanging, tunnels, busy, poll, early, lapsed>>

-----------------------------------------------------------------------------
Next ==
  \/ Tick \/ CalendarChanges
  \/ \E ok \in BOOLEAN : Revoke(ok)
  \/ \E s \in Sessions : \/ Handoff(s) \/ CheckAvailability(s) \/ Reserve(s)
                         \/ StartExchange(s) \/ EndExchange(s)
                         \/ OpenTunnel(s) \/ CloseTunnel(s)
                         \/ PollOverlap(s) \/ RevokeExpired(s)

Spec == Init /\ [][Next]_vars

\* The session guard's timer keeps firing and looks at every token; Guacamole
\* answers in the end.
Fairness == /\ WF_vars(\E ok \in BOOLEAN : Revoke(ok))
            /\ \A s \in Sessions : SF_vars(busy /\ PollOverlap(s)) /\ SF_vars(poll = s /\ Revoke(TRUE))

FairSpec == Spec /\ Fairness

-----------------------------------------------------------------------------
(* Properties.                                                             *)

\* While the counter has not expired under a session, it counts every live
\* session, though a session is released by each of its tunnels and by the
\* overlap check ("Release exactly one registered JTI", demo_guard.release).
\* And a session released after its counter expired leaves no debt behind, on
\* which later handoffs would find room beside each other (decrement_active).
CountedUntilLapse ==
  /\ ~lapsed => Cardinality(Live) <= counter.val
  /\ counter.val >= 0

\* As long as no slot was given back before its time, there is at most one
\* session and the slot is free again when its session is over.
ExclusiveUntilEarly ==
  ~early => /\ Cardinality(Live) <= 1
            /\ counter.val > 0 => Live # {}

\* "If a confirmed reservation starts inside that window, ... their demo token
\* is revoked" (docs/guacamole-session-policy.md): a token that overlaps a
\* reservation is revoked before the demo is over, even when the calendar
\* cannot be asked any more.
OverlapIsRevoked ==
  \A s \in Sessions : s \in tokens /\ busy ~> ~busy \/ s \notin tokens \/ life[s] = 0

\* "the demo slot is still limited to one active session"
\* (docs/guacamole-session-policy.md).
OneDemoSession == Cardinality(Live) <= 1

\* "the shared-dict TTL remains the hard fallback for unclean disconnects"
\* (log_handler.run): a slot that no session holds has a lifetime.
SlotHasFallback == counter.val > 0 /\ Live = {} => counter.left # Never
=============================================================================
