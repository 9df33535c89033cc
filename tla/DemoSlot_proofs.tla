--------------------------- MODULE DemoSlot_proofs ---------------------------
(***************************************************************************)
(* Proofs about the demo slot for every set of sessions, lifetime and      *)
(* bound on tunnels.                                                       *)
(***************************************************************************)
EXTENDS DemoSlot, FiniteSetTheorems, TLAPS

\* A key that is not there counts nothing.
AbsentIsZero == counter.left = 0 => counter.val = 0

\* A handoff under way has time left: its availability request is shorter.
HandoffHasTime == \A s \in Sessions : pc[s] \in {"checking", "available"} => life[s] > 0

\* As long as no slot was given back early, the counter is there exactly while
\* a session is, expires with it, and there is one session.
InStep ==
  ~early => /\ counter.val = 1 <=> Live # {}
            /\ counter.left > 0 => counter.val = 1
            /\ \A s \in Live : sess[s] = counter.left
            /\ \A s, t \in Live : s = t

IInv == /\ TypeOK
        /\ AbsentIsZero
        /\ HandoffHasTime
        /\ CountedUntilLapse
        /\ InStep

-----------------------------------------------------------------------------
(* Counting the live sessions.                                             *)

LEMMA LiveFacts ==
  IsFiniteSet(Live) /\ Cardinality(Live) \in Nat /\ (Cardinality(Live) = 0 <=> Live = {})
  <1>1. Live \in SUBSET Sessions
    BY DEF Live
  <1>2. IsFiniteSet(Live)
    BY <1>1, FS_Subset, SessionAssumption
  <1> QED BY <1>2, FS_CardinalityType, FS_EmptySet

\* Nobody is counted as live but the sessions that were, and fewer as keys expire.
LEMMA LiveShrinks ==
  ASSUME Live' \subseteq Live
  PROVE  Cardinality(Live') <= Cardinality(Live) /\ Cardinality(Live') \in Nat
  <1>1. IsFiniteSet(Live')
    BY LiveFacts, FS_Subset
  <1> QED BY <1>1, LiveFacts, FS_Subset, FS_CardinalityType

LEMMA LiveSame ==
  ASSUME sess' = sess
  PROVE  Live' = Live
  BY DEF Live

LEMMA CounterType ==
  ASSUME TypeOK
  PROVE  /\ Decremented(counter) \in [val : 0..1, left : 0..Never]
         /\ Never \in Nat /\ Never > 1 /\ TTL \in Nat \ {0}
  BY BoundAssumption DEF TypeOK, Decremented, Never

\* What the invariant says of the counter depends on these alone.
Slot == <<counter, sess, early, lapsed>>

LEMMA SlotStays ==
  ASSUME IInv, UNCHANGED Slot
  PROVE  AbsentIsZero' /\ CountedUntilLapse' /\ InStep'
  <1>1. Live' = Live
    BY LiveSame DEF Slot
  <1> QED BY <1>1 DEF Slot, IInv, AbsentIsZero, CountedUntilLapse, InStep

\* Giving back a slot that a live session holds.
LEMMA ReleaseInv ==
  ASSUME IInv, NEW s \in Sessions, Release(s), lapsed' = lapsed
  PROVE  /\ AbsentIsZero' /\ CountedUntilLapse' /\ InStep'
         /\ counter' \in [val : 0..1, left : 0..Never]
         /\ sess' \in [Sessions -> 0..TTL] /\ early' \in BOOLEAN
  <1> USE DEF IInv
  <1>1. CASE sess[s] = 0
    <2>1. UNCHANGED Slot
      BY <1>1 DEF Release, Slot
    <2> QED BY <2>1, SlotStays DEF Slot, TypeOK
  <1>2. CASE sess[s] # 0
    <2>1. sess' = [sess EXCEPT ![s] = 0] /\ counter' = Decremented(counter) /\ early' = TRUE
      BY <1>2 DEF Release
    <2>2. s \in Live /\ Live' = Live \ {s}
      BY <1>2, <2>1 DEF Live, TypeOK
    <2>3. Cardinality(Live') = Cardinality(Live) - 1 /\ Cardinality(Live) \in Nat
      BY <2>2, LiveFacts, FS_RemoveElement
    <2>4. Cardinality(Live') \in Nat
      BY <2>2, LiveShrinks
    <2>5. CountedUntilLapse'
      BY <2>1, <2>3, <2>4 DEF CountedUntilLapse, Decremented, TypeOK
    <2>6. AbsentIsZero'
      BY <2>1 DEF AbsentIsZero, Decremented, TypeOK
    <2>7. InStep'
      BY <2>1 DEF InStep
    <2>8. sess' \in [Sessions -> 0..TTL]
      BY <2>1, CounterType DEF TypeOK
    <2> QED BY <2>1, <2>5, <2>6, <2>7, <2>8, CounterType
  <1> QED BY <1>1, <1>2

-----------------------------------------------------------------------------
(* The invariant is inductive.                                             *)

LEMMA InitInv == Init => IInv
  <1> SUFFICES ASSUME Init PROVE IInv
    OBVIOUS
  <1>1. Live = {}
    BY DEF Init, Live
  <1>2. Cardinality(Live) = 0
    BY <1>1, FS_EmptySet
  <1>3. TypeOK
    <2>1. /\ TTL \in Nat \ {0} /\ MaxTunnels \in Nat
          /\ 0 \in 0..TTL /\ 0 \in 0..MaxTunnels /\ Absent \in [val : 0..1, left : 0..Never]
      BY BoundAssumption DEF Absent, Never
    <2> QED BY <2>1 DEF Init, TypeOK
  <1> QED BY <1>1, <1>2, <1>3 DEF Init, IInv, AbsentIsZero, HandoffHasTime, CountedUntilLapse, InStep, Absent

LEMMA TickInv == ASSUME IInv, Tick PROVE IInv'
  <1> USE DEF IInv
  <1>1. \A n \in 0..Never : Older(n) \in 0..Never /\ (n \in 0..TTL => Older(n) \in 0..TTL /\ Older(n) <= n)
    BY BoundAssumption DEF Older, Never
  <1>2. TypeOK'
    <2>1. counter' \in [val : 0..1, left : 0..Never]
      BY <1>1, CounterType DEF Tick, TypeOK, Absent
    <2>2. \A s \in Sessions : Older(sess[s]) \in 0..TTL /\ Older(life[s]) \in 0..TTL
      BY <1>1, CounterType DEF TypeOK, Never
    <2>3. lapsed' \in BOOLEAN
      BY DEF Tick, TypeOK
    <2>4. /\ sess' = [s \in Sessions |-> Older(sess[s])] /\ life' = [s \in Sessions |-> Older(life[s])]
          /\ UNCHANGED <<pc, exchanging, tokens, tunnels, busy, poll, early>>
      BY DEF Tick
    <2> QED BY <2>1, <2>2, <2>3, <2>4 DEF TypeOK
  <1>3. Live' \subseteq Live
    <2>1. \A s \in Sessions : sess'[s] > 0 => sess[s] > 0
      BY CounterType DEF Tick, TypeOK, Older
    <2> QED BY <2>1 DEF Live
  <1>4. AbsentIsZero'
    BY <1>1, CounterType DEF AbsentIsZero, Tick, TypeOK, Absent
  <1>5. HandoffHasTime'
    BY DEF HandoffHasTime, Tick, TypeOK, Older
  <1>6. CASE counter.left = 1
    <2>1. counter' = Absent
      BY <1>6, CounterType DEF Tick, Older, TypeOK
    <2>2. ~lapsed' => Live' = {} /\ ~lapsed
      BY <1>6 DEF Tick, Live
    <2>3. CountedUntilLapse'
      BY <2>1, <2>2, FS_EmptySet DEF CountedUntilLapse, Absent
    <2>4. ~early' => Live' = {}
      <3> SUFFICES ASSUME ~early, NEW s \in Live' PROVE FALSE
        BY DEF Tick
      <3>1. s \in Live /\ s \in Sessions /\ sess'[s] = Older(sess[s]) /\ sess'[s] > 0
        BY <1>3 DEF Live, Tick
      <3>2. sess[s] = 1
        BY <1>6, <3>1 DEF InStep
      <3> QED BY <3>1, <3>2, CounterType DEF Older
    <2>5. InStep'
      BY <2>1, <2>4 DEF InStep, Absent
    <2> QED BY <1>2, <1>4, <1>5, <2>3, <2>5
  <1>7. CASE counter.left # 1
    <2>1. counter'.val = counter.val /\ counter'.left = Older(counter.left) /\ lapsed' = lapsed
      BY <1>7, CounterType DEF Tick, Older, TypeOK, Absent, AbsentIsZero, Never
    <2>2. CountedUntilLapse'
      BY <1>3, <2>1, LiveShrinks, LiveFacts, <1>2 DEF CountedUntilLapse, TypeOK
    <2>3. ~early => \A s \in Live : sess'[s] = counter'.left /\ s \in Live'
      BY <1>7, <2>1, CounterType DEF InStep, Tick, Live, Older, TypeOK
    <2>4. ~early => Live' = Live
      BY <1>3, <2>3
    <2>5. counter'.left > 0 => counter.left > 0
      BY <2>1 DEF Older
    <2>6. InStep'
      BY <2>1, <2>3, <2>4, <2>5 DEF InStep, Tick
    <2> QED BY <1>2, <1>4, <1>5, <2>2, <2>6
  <1> QED BY <1>6, <1>7

LEMMA HandoffInv == ASSUME IInv, NEW s \in Sessions, Handoff(s) \/ CheckAvailability(s) PROVE IInv'
  <1> USE DEF IInv
  <1>1. UNCHANGED Slot
    BY DEF Handoff, CheckAvailability, Refused, Slot
  <1>2. TypeOK'
    BY BoundAssumption DEF Handoff, CheckAvailability, Refused, Goto, TypeOK
  <1>3. HandoffHasTime'
    BY BoundAssumption DEF Handoff, CheckAvailability, Refused, Goto, TypeOK, HandoffHasTime
  <1> QED BY <1>1, <1>2, <1>3, SlotStays

LEMMA ReserveInv == ASSUME IInv, NEW s \in Sessions, Reserve(s) PROVE IInv'
  <1> USE DEF IInv
  <1> DEFINE taken == Incremented(counter, life[s])
  <1>1. life[s] \in 1..TTL /\ pc[s] = "available"
    BY DEF Reserve, HandoffHasTime, TypeOK
  <1>2. /\ taken \in [val : 1..2, left : 1..Never] /\ taken.val = counter.val + 1
        /\ counter.left = 0 => taken.left = life[s]
        /\ counter.left # 0 => taken.left = counter.left
    BY <1>1, CounterType DEF Incremented, TypeOK, AbsentIsZero, Never
  <1>3. UNCHANGED <<exchanging, tokens, tunnels, busy, poll, lapsed>>
    BY DEF Reserve
  <1>4. CASE /\ taken.val > 1 /\ counter' = Decremented(taken) /\ Refused(s)
             /\ UNCHANGED <<sess, early>>
    <2>1. counter' = counter
      BY <1>2, <1>4 DEF Decremented, Incremented, TypeOK, AbsentIsZero
    <2>2. UNCHANGED Slot
      BY <1>3, <1>4, <2>1 DEF Slot
    <2>3. TypeOK' /\ HandoffHasTime'
      BY <1>3, <1>4, <2>1, CounterType DEF Refused, Goto, TypeOK, HandoffHasTime
    <2> QED BY <2>2, <2>3, SlotStays
  <1>5. CASE /\ taken.val = 1 /\ counter' = taken /\ sess' = [sess EXCEPT ![s] = life[s]]
             /\ Goto(s, "open") /\ UNCHANGED <<life, early>>
    <2>1. counter.val = 0
      BY <1>2, <1>5 DEF TypeOK
    <2>2. TypeOK' /\ HandoffHasTime'
      BY <1>1, <1>2, <1>3, <1>5 DEF Goto, TypeOK, HandoffHasTime
    <2>3. AbsentIsZero'
      BY <1>2, <1>5 DEF AbsentIsZero
    <2>4. Live = {} => Live' = {s} /\ sess'[s] = life[s]
      BY <1>1, <1>5 DEF Live, TypeOK
    <2>5. CountedUntilLapse'
      <3>1. ~lapsed => Live = {}
        BY <2>1, LiveFacts DEF CountedUntilLapse
      <3> QED BY <1>3, <1>5, <3>1, <2>4, FS_Singleton DEF CountedUntilLapse
    <2>6. InStep'
      <3> SUFFICES ASSUME ~early PROVE InStep'
        BY <1>5 DEF InStep
      <3>1. Live = {} /\ counter.left = 0
        BY <2>1 DEF InStep, TypeOK, Never
      <3> QED BY <1>2, <1>5, <2>4, <3>1 DEF InStep
    <2> QED BY <2>2, <2>3, <2>5, <2>6
  <1>6. CASE /\ taken.val = 1 /\ counter' = Decremented(taken) /\ Refused(s)
             /\ early' = TRUE /\ UNCHANGED sess
    <2>1. counter'.val = 0 /\ counter' \in [val : 0..1, left : 0..Never] /\ counter.val = 0
      BY <1>2, <1>6, CounterType DEF Decremented, TypeOK
    <2>2. TypeOK' /\ HandoffHasTime'
      BY <1>3, <1>6, <2>1, CounterType DEF Refused, Goto, TypeOK, HandoffHasTime
    <2>3. Live' = Live
      BY <1>6, LiveSame
    <2> QED BY <1>3, <1>6, <2>1, <2>2, <2>3 DEF AbsentIsZero, CountedUntilLapse, InStep
  <1> QED BY <1>4, <1>5, <1>6 DEF Reserve

LEMMA OtherInv ==
  ASSUME IInv, NEW s \in Sessions,
         StartExchange(s) \/ EndExchange(s) \/ OpenTunnel(s) \/ PollOverlap(s) \/ RevokeExpired(s)
  PROVE  IInv'
  <1> USE DEF IInv
  <1>1. UNCHANGED Slot /\ UNCHANGED <<pc, life>>
    BY DEF StartExchange, EndExchange, OpenTunnel, PollOverlap, RevokeExpired, Slot
  <1>2. tunnels' \in [Sessions -> 0..MaxTunnels]
    BY BoundAssumption
    DEF StartExchange, EndExchange, OpenTunnel, PollOverlap, RevokeExpired, TypeOK
  <1>3. exchanging' \subseteq Sessions /\ tokens' \subseteq Sessions
    BY DEF StartExchange, EndExchange, OpenTunnel, PollOverlap, RevokeExpired, TypeOK
  <1>4. poll' \in Sessions \cup {Nobody} /\ busy' \in BOOLEAN
    BY DEF StartExchange, EndExchange, OpenTunnel, PollOverlap, RevokeExpired, TypeOK
  <1>5. TypeOK' /\ HandoffHasTime'
    BY <1>1, <1>2, <1>3, <1>4 DEF Slot, TypeOK, HandoffHasTime
  <1> QED BY <1>1, <1>5, SlotStays

LEMMA CloseTunnelInv == ASSUME IInv, NEW s \in Sessions, CloseTunnel(s) PROVE IInv'
  <1>1. Release(s) /\ lapsed' = lapsed /\ UNCHANGED <<life, pc, exchanging, tokens, busy, poll>>
    BY DEF CloseTunnel
  <1>2. tunnels' \in [Sessions -> 0..MaxTunnels]
    BY BoundAssumption DEF CloseTunnel, IInv, TypeOK
  <1> QED BY <1>1, <1>2, ReleaseInv DEF IInv, TypeOK, HandoffHasTime

LEMMA RevokeInv == ASSUME IInv, NEW ok \in BOOLEAN, Revoke(ok) PROVE IInv'
  <1>1. /\ UNCHANGED <<life, pc, exchanging, tunnels, busy, lapsed>>
        /\ poll' = Nobody /\ poll \in Sessions /\ tokens' \subseteq Sessions
    BY DEF Revoke, IInv, TypeOK
  <1>2. CASE ok
    <2>1. Release(poll)
      BY <1>2 DEF Revoke
    <2> QED BY <1>1, <2>1, ReleaseInv DEF IInv, TypeOK, HandoffHasTime
  <1>3. CASE ~ok
    <2>1. UNCHANGED Slot
      BY <1>1, <1>3 DEF Revoke, Slot
    <2> QED BY <1>1, <2>1, SlotStays DEF Slot, IInv, TypeOK, HandoffHasTime
  <1> QED BY <1>2, <1>3

LEMMA StutterInv == ASSUME IInv, UNCHANGED vars PROVE IInv'
  <1>1. UNCHANGED Slot
    BY DEF vars, Slot
  <1> QED BY <1>1, SlotStays DEF vars, IInv, TypeOK, HandoffHasTime

\* The calendar changes whether there is a session or not.
LEMMA CalendarInv == ASSUME IInv, CalendarChanges PROVE IInv'
  <1>1. UNCHANGED Slot
    BY DEF CalendarChanges, Slot
  <1> QED BY <1>1, SlotStays DEF CalendarChanges, IInv, TypeOK, HandoffHasTime

LEMMA NextInv == IInv /\ [Next]_vars => IInv'
  BY TickInv, CalendarInv, RevokeInv, HandoffInv, ReserveInv, OtherInv, CloseTunnelInv, StutterInv DEF Next

-----------------------------------------------------------------------------
(* Theorems.                                                               *)

\* The inductive invariant holds throughout.
THEOREM Invariance == Spec => []IInv
  BY InitInv, NextInv, PTL DEF Spec

\* Type correctness; in particular demo_sessions["active"] is 0 or 1 at the
\* end of every step, whatever was released how often.
THEOREM TypeCorrect == Spec => []TypeOK
  <1>1. IInv => TypeOK
    BY DEF IInv
  <1> QED BY <1>1, Invariance, PTL

\* While the counter has not expired under a session, it counts every live
\* session.
THEOREM CountedCorrect == Spec => []CountedUntilLapse
  <1>1. IInv => CountedUntilLapse
    BY DEF IInv
  <1> QED BY <1>1, Invariance, PTL

\* As long as no slot was given back early, there is at most one session, and
\* the slot is free when it is over.
THEOREM ExclusiveCorrect == Spec => []ExclusiveUntilEarly
  <1>1. IInv => ExclusiveUntilEarly
    <2> SUFFICES ASSUME IInv, ~early
                 PROVE  Cardinality(Live) <= 1 /\ (counter.val > 0 => Live # {})
      BY DEF ExclusiveUntilEarly
    <2>1. counter.val > 0 => Live # {}
      BY DEF IInv, InStep, TypeOK
    <2>2. CASE Live = {}
      BY <2>1, <2>2, LiveFacts
    <2>3. CASE Live # {}
      <3>1. PICK s \in Live : Live = {s}
        BY <2>3 DEF IInv, InStep
      <3> QED BY <2>1, <3>1, FS_Singleton
    <2> QED BY <2>2, <2>3
  <1> QED BY <1>1, Invariance, PTL
=============================================================================
