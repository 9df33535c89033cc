------------------------ MODULE SimulationJobs_proofs ------------------------
(***************************************************************************)
(* Proofs about the concurrency slots of the FMU runner for every set of   *)
(* requests, labs and credentials and every limit.                         *)
(***************************************************************************)
EXTENDS SimulationJobs, FiniteSetTheorems, TLAPS

\* What the future says of the worker, and both of the position of a request.
WorkOK ==
  \A j \in Jobs :
    /\ future[j] = "none" <=> worker[j] = "none"
    /\ future[j] \in {"result", "exception"} => worker[j] # "running"
    /\ pc[j] \in {"new", "refused", "confirming", "accepted"} => future[j] = "none"
    /\ pc[j] \in {"sending", "ending", "saving"} => worker[j] # "running"

\* A tracked job was submitted.
TrackedSubmitted == \A j \in tracked : pc[j] \notin {"confirming", "accepted"} /\ future[j] # "none"

\* A job is cancelled once, and not before it was submitted.
CancelledOnce ==
  \A j \in cancelled :
    j \notin tracked /\ pc[j] \notin {"new", "refused", "confirming", "accepted"}

\* An answered request leaves no process behind; only a stream is left.
AnsweredIsStopped ==
  \A j \in Jobs : /\ pc[j] = "done" => worker[j] # "running"
                  /\ pc[j] = "left" => MayDisconnect /\ j \in Streams

\* The cache holds recorded credentials only, and a request is accepted with one.
AcceptedIsRecorded ==
  /\ observed \subseteq recorded
  /\ \A j \in Jobs : pc[j] = "accepted" => CredOf[j] \in recorded

IInv == /\ TypeOK
        /\ WorkOK
        /\ TrackedSubmitted
        /\ CancelledOnce
        /\ SlotsNotLeaked
        /\ OvershootIsBounded
        /\ AnsweredIsStopped
        /\ AcceptedIsRecorded
        /\ ObservedBeforeWork

\* The counter of every lab against the requests that hold a slot of it.
CountsOK == SlotsNotLeaked /\ OvershootIsBounded

-----------------------------------------------------------------------------
(* Counting.                                                               *)

LEMMA Counted ==
  ASSUME TypeOK, NEW l \in Labs
  PROVE  /\ IsFiniteSet(Holding(l)) /\ Cardinality(Holding(l)) \in Nat
         /\ IsFiniteSet(CancelledOf(l)) /\ Cardinality(CancelledOf(l)) \in Nat
         /\ active[l] \in Nat /\ active[l] <= Limit
  <1>1. Holding(l) \in SUBSET Jobs /\ CancelledOf(l) \in SUBSET Jobs
    BY DEF Holding, CancelledOf, TypeOK
  <1>2. IsFiniteSet(Holding(l)) /\ IsFiniteSet(CancelledOf(l))
    BY <1>1, FS_Subset, JobAssumption
  <1> QED BY <1>2, FS_CardinalityType DEF TypeOK

\* A request that moves while it holds its slot, or while it holds none,
\* changes no count.
LEMMA CountsStay ==
  ASSUME TypeOK, CountsOK, UNCHANGED <<active, cancelled>>, NEW j \in Jobs, NEW x,
         pc' = [pc EXCEPT ![j] = x], pc[j] \in InFlight <=> x \in InFlight
  PROVE  CountsOK'
  <1>1. \A l \in Labs : Holding(l)' = Holding(l)
    BY DEF Holding, TypeOK
  <1> QED BY <1>1 DEF CountsOK, SlotsNotLeaked, OvershootIsBounded, CancelledOf

\* Taking a slot counts one request more on both sides.
LEMMA CountsAdmit ==
  ASSUME TypeOK, CountsOK, NEW j \in Jobs, pc[j] \notin InFlight, NEW x \in InFlight, Goto(j, x),
         active' = [active EXCEPT ![LabOf[j]] = @ + 1], cancelled' = cancelled
  PROVE  CountsOK'
  <1> SUFFICES ASSUME NEW l \in Labs
               PROVE  /\ active'[l] <= Cardinality(Holding(l)')
                      /\ Cardinality(Holding(l)') <= active'[l] + Cardinality(CancelledOf(l))
    BY DEF CountsOK, SlotsNotLeaked, OvershootIsBounded, CancelledOf
  <1>1. /\ active[l] <= Cardinality(Holding(l))
        /\ Cardinality(Holding(l)) <= active[l] + Cardinality(CancelledOf(l))
    BY DEF CountsOK, SlotsNotLeaked, OvershootIsBounded, CancelledOf
  <1>2. CASE LabOf[j] = l
    <2>1. Holding(l)' = Holding(l) \cup {j} /\ j \notin Holding(l)
      BY <1>2 DEF Holding, Goto, TypeOK, InFlight
    <2>2. Cardinality(Holding(l)') = Cardinality(Holding(l)) + 1
      BY <2>1, Counted, FS_AddElement
    <2>3. active'[l] = active[l] + 1
      BY <1>2 DEF TypeOK
    <2> QED BY <1>1, <2>2, <2>3, Counted
  <1>3. CASE LabOf[j] # l
    <2>1. Holding(l)' = Holding(l) /\ active'[l] = active[l]
      BY <1>3, JobAssumption DEF Holding, Goto, TypeOK
    <2> QED BY <1>1, <2>1
  <1> QED BY <1>2, <1>3

\* A request that ends and gives its slot back counts one less, unless the
\* count has reached 0 before.
LEMMA CountsFinalize ==
  ASSUME TypeOK, CountsOK, NEW j \in Jobs, pc[j] \in InFlight, NEW x, x \notin InFlight,
         Goto(j, x), Finalize(j), cancelled' = cancelled
  PROVE  CountsOK'
  <1> SUFFICES ASSUME NEW l \in Labs
               PROVE  /\ active'[l] <= Cardinality(Holding(l)')
                      /\ Cardinality(Holding(l)') <= active'[l] + Cardinality(CancelledOf(l))
    BY DEF CountsOK, SlotsNotLeaked, OvershootIsBounded, CancelledOf
  <1>1. /\ active[l] <= Cardinality(Holding(l))
        /\ Cardinality(Holding(l)) <= active[l] + Cardinality(CancelledOf(l))
    BY DEF CountsOK, SlotsNotLeaked, OvershootIsBounded, CancelledOf
  <1>2. CASE LabOf[j] = l
    <2>1. Holding(l)' = Holding(l) \ {j} /\ j \in Holding(l)
      BY <1>2 DEF Holding, Goto, TypeOK
    <2>2. Cardinality(Holding(l)') = Cardinality(Holding(l)) - 1
      BY <2>1, Counted, FS_RemoveElement
    <2>3. active'[l] = IF active[l] > 0 THEN active[l] - 1 ELSE 0
      BY <1>2 DEF TypeOK, Finalize, ReleaseSlot
    <2>4. Cardinality(Holding(l)') \in Nat
      <3>1. IsFiniteSet(Holding(l)')
        BY <2>1, Counted, FS_RemoveElement
      <3> QED BY <3>1, FS_CardinalityType
    <2> QED BY <1>1, <2>2, <2>3, <2>4, Counted
  <1>3. CASE LabOf[j] # l
    <2>1. Holding(l)' = Holding(l) /\ active'[l] = active[l]
      BY <1>3, JobAssumption DEF Holding, Goto, TypeOK, Finalize, ReleaseSlot
    <2> QED BY <1>1, <2>1
  <1> QED BY <1>2, <1>3

\* A cancelled job keeps its request and loses its slot: the overshoot grows
\* by the one job that is cancelled.
LEMMA CountsCancel ==
  ASSUME TypeOK, CountsOK, NEW j \in Jobs, j \notin cancelled, Finalize(j), pc' = pc,
         cancelled' = cancelled \cup {j}
  PROVE  CountsOK'
  <1> SUFFICES ASSUME NEW l \in Labs
               PROVE  /\ active'[l] <= Cardinality(Holding(l)')
                      /\ Cardinality(Holding(l)') <= active'[l] + Cardinality(CancelledOf(l)')
    BY DEF CountsOK, SlotsNotLeaked, OvershootIsBounded, CancelledOf
  <1>1. /\ active[l] <= Cardinality(Holding(l))
        /\ Cardinality(Holding(l)) <= active[l] + Cardinality(CancelledOf(l))
    BY DEF CountsOK, SlotsNotLeaked, OvershootIsBounded, CancelledOf
  <1>2. Holding(l)' = Holding(l)
    BY DEF Holding
  <1>3. CASE LabOf[j] = l
    <2>1. CancelledOf(l)' = CancelledOf(l) \cup {j} /\ j \notin CancelledOf(l)
      BY <1>3 DEF CancelledOf
    <2>2. Cardinality(CancelledOf(l)') = Cardinality(CancelledOf(l)) + 1
      BY <2>1, Counted, FS_AddElement
    <2>3. active'[l] = IF active[l] > 0 THEN active[l] - 1 ELSE 0
      BY <1>3 DEF TypeOK, Finalize, ReleaseSlot
    <2> QED BY <1>1, <1>2, <2>2, <2>3, Counted
  <1>4. CASE LabOf[j] # l
    <2>1. CancelledOf(l)' = CancelledOf(l) /\ active'[l] = active[l]
      BY <1>4, JobAssumption DEF CancelledOf, TypeOK, Finalize, ReleaseSlot
    <2> QED BY <1>1, <1>2, <2>1
  <1> QED BY <1>3, <1>4

LEMMA FinalizeType ==
  ASSUME TypeOK, NEW j \in Jobs, Finalize(j)
  PROVE  /\ active' \in [Labs -> Nat] /\ \A l \in Labs : active'[l] <= Limit
         /\ tracked' = tracked \ {j}
  BY JobAssumption, LimitAssumption DEF TypeOK, Finalize, ReleaseSlot

-----------------------------------------------------------------------------
(* The invariant is inductive.                                             *)

LEMMA InitInv == Init => IInv
  <1> SUFFICES ASSUME Init PROVE IInv
    OBVIOUS
  <1>1. TypeOK
    BY LimitAssumption DEF Init, TypeOK
  <1>2. /\ WorkOK /\ TrackedSubmitted /\ CancelledOnce /\ AnsweredIsStopped
        /\ AcceptedIsRecorded /\ ObservedBeforeWork
    BY DEF Init, WorkOK, TrackedSubmitted, CancelledOnce, AnsweredIsStopped,
       AcceptedIsRecorded, ObservedBeforeWork
  <1>3. SlotsNotLeaked /\ OvershootIsBounded
    <2> SUFFICES ASSUME NEW l \in Labs
                 PROVE  active[l] <= Cardinality(Holding(l))
                        /\ Cardinality(Holding(l)) <= active[l] + Cardinality(CancelledOf(l))
      BY DEF SlotsNotLeaked, OvershootIsBounded, CancelledOf
    <2>1. Holding(l) = {} /\ CancelledOf(l) = {}
      BY DEF Init, Holding, CancelledOf, InFlight
    <2> QED BY <2>1, FS_EmptySet DEF Init
  <1> QED BY <1>1, <1>2, <1>3 DEF IInv

LEMMA AdmitInv == ASSUME IInv, NEW j \in Jobs, Admit(j) PROVE IInv'
  <1> USE DEF IInv
  <1> DEFINE x == IF CredOf[j] \in observed THEN "accepted" ELSE "confirming"
  <1>1. CountsOK'
    <2>1. CASE Goto(j, "refused") /\ UNCHANGED active
      BY <2>1, CountsStay DEF Admit, Goto, InFlight, CountsOK
    <2>2. CASE Goto(j, x) /\ active' = [active EXCEPT ![LabOf[j]] = @ + 1]
      <3>1. x \in InFlight /\ pc[j] \notin InFlight
        BY DEF Admit, InFlight
      <3> HIDE DEF x
      <3> QED BY <2>2, <3>1, CountsAdmit DEF Admit, CountsOK
    <2> QED BY <2>1, <2>2 DEF Admit
  <1>2. active' \in [Labs -> Nat] /\ \A l \in Labs : active'[l] <= Limit
    BY JobAssumption, LimitAssumption DEF Admit, TypeOK
  <1>3. /\ pc[j] = "new"
        /\ \E y \in {"refused", "confirming", "accepted"} :
             pc' = [pc EXCEPT ![j] = y] /\ (y = "accepted" => CredOf[j] \in observed)
    BY DEF Admit, Goto
  <1>4. UNCHANGED <<tracked, observed, recorded, future, worker, cancelled, saved>>
    BY DEF Admit
  <1>5. TypeOK'
    BY <1>2, <1>3, <1>4 DEF TypeOK, InFlight
  <1>6. (WorkOK /\ TrackedSubmitted /\ CancelledOnce /\ AnsweredIsStopped
         /\ AcceptedIsRecorded /\ ObservedBeforeWork)'
    BY <1>3, <1>4 DEF TypeOK, WorkOK, TrackedSubmitted, CancelledOnce, AnsweredIsStopped,
       AcceptedIsRecorded, ObservedBeforeWork
  <1> QED BY <1>1, <1>5, <1>6 DEF CountsOK

\* How a request fails: a stream goes on to its error line, a run ends.
LEMMA FailInv ==
  ASSUME IInv, NEW j \in Jobs, pc[j] \in {"confirming", "accepted", "waiting"}, Fail(j),
         UNCHANGED <<observed, future, cancelled, saved>>,
         recorded \subseteq recorded', recorded' \subseteq Creds,
         worker'[j] # "running",
         worker' = worker \/ (pc[j] = "waiting" /\ worker' = [worker EXCEPT ![j] = IF @ = "running" THEN "stopped" ELSE @])
  PROVE  IInv'
  <1> USE DEF IInv
  <1>1. CASE j \in Streams
    <2>1. pc' = [pc EXCEPT ![j] = "ending"] /\ UNCHANGED <<active, tracked>>
      BY <1>1 DEF Fail, Goto
    <2>2. CountsOK'
      BY <2>1, CountsStay DEF InFlight, CountsOK
    <2>3. TypeOK'
      BY <2>1 DEF TypeOK, InFlight
    <2>4. (WorkOK /\ TrackedSubmitted /\ CancelledOnce /\ AnsweredIsStopped
         /\ AcceptedIsRecorded /\ ObservedBeforeWork)'
      BY <2>1 DEF TypeOK, WorkOK, TrackedSubmitted, CancelledOnce, AnsweredIsStopped,
       AcceptedIsRecorded, ObservedBeforeWork
    <2> QED BY <2>2, <2>3, <2>4 DEF CountsOK
  <1>2. CASE j \notin Streams
    <2>1. Goto(j, "done") /\ Finalize(j)
      BY <1>2 DEF Fail
    <2>2. CountsOK'
      BY <2>1, CountsFinalize DEF InFlight, CountsOK
    <2>3. TypeOK'
      BY <2>1, FinalizeType DEF Goto, TypeOK, InFlight
    <2>4. (WorkOK /\ TrackedSubmitted /\ CancelledOnce /\ AnsweredIsStopped
         /\ AcceptedIsRecorded /\ ObservedBeforeWork)'
      BY <2>1, FinalizeType DEF Goto, TypeOK, WorkOK, TrackedSubmitted, CancelledOnce, AnsweredIsStopped,
       AcceptedIsRecorded, ObservedBeforeWork
    <2> QED BY <2>2, <2>3, <2>4 DEF CountsOK
  <1> QED BY <1>1, <1>2

LEMMA ObservationFailsInv == ASSUME IInv, NEW j \in Jobs, ObservationFails(j) PROVE IInv'
  <1>1. worker[j] # "running"
    BY DEF IInv, ObservationFails, WorkOK
  <1>2. recorded \subseteq recorded' /\ recorded' \subseteq Creds
    BY JobAssumption DEF IInv, ObservationFails, TypeOK
  <1> QED BY <1>1, <1>2, FailInv DEF ObservationFails

\* The backend records the session, whether or not its answer arrives.
LEMMA ConfirmInv == ASSUME IInv, NEW j \in Jobs, AnswerLost(j) \/ Confirmed(j) PROVE IInv'
  <1> USE DEF IInv
  <1>1. /\ pc[j] = "confirming" /\ \E x \in {"confirming", "accepted"} : pc' = [pc EXCEPT ![j] = x]
        /\ recorded' = recorded \cup {CredOf[j]}
        /\ observed \subseteq observed' /\ observed' \subseteq observed \cup {CredOf[j]}
        /\ UNCHANGED <<active, tracked, future, worker, cancelled, saved>>
    BY DEF AnswerLost, Confirmed, Goto, TypeOK
  <1>2. CountsOK'
    BY <1>1, CountsStay DEF InFlight, CountsOK
  <1>3. TypeOK'
    <2>1. CredOf[j] \in Creds
      BY JobAssumption
    <2>2. observed' \subseteq Creds /\ recorded' \subseteq Creds
      BY <1>1, <2>1 DEF TypeOK
    <2> QED BY <1>1, <2>2 DEF TypeOK, InFlight
  <1>4. (WorkOK /\ TrackedSubmitted /\ CancelledOnce /\ AnsweredIsStopped
         /\ AcceptedIsRecorded /\ ObservedBeforeWork)'
    BY <1>1 DEF TypeOK, WorkOK, TrackedSubmitted, CancelledOnce, AnsweredIsStopped,
       AcceptedIsRecorded, ObservedBeforeWork
  <1> QED BY <1>2, <1>3, <1>4 DEF CountsOK

LEMMA TimesOutInv == ASSUME IInv, NEW j \in Jobs, TimesOut(j) PROVE IInv'
  <1>1. worker'[j] # "running" /\ worker' = [worker EXCEPT ![j] = IF @ = "running" THEN "stopped" ELSE @]
    BY DEF IInv, TimesOut, Stop, TypeOK
  <1> QED BY <1>1, FailInv DEF TimesOut, IInv, TypeOK

LEMMA SubmitInv == ASSUME IInv, NEW j \in Jobs, Submit(j) PROVE IInv'
  <1> USE DEF IInv
  <1>0. UNCHANGED <<observed, recorded>> /\ recorded \subseteq Creds
    BY DEF Submit, TypeOK
  <1>1. CASE Submitted(j) /\ UNCHANGED active
    <2>1. /\ pc[j] = "accepted" /\ pc' = [pc EXCEPT ![j] = "waiting"]
          /\ future' = [future EXCEPT ![j] = "running"] /\ worker' = [worker EXCEPT ![j] = "running"]
          /\ tracked' = tracked \cup {j} /\ UNCHANGED <<active, cancelled, saved>>
      BY <1>1 DEF Submit, Submitted, Goto
    <2>2. CountsOK'
      BY <2>1, CountsStay DEF InFlight, CountsOK
    <2>3. TypeOK'
      BY <1>0, <2>1 DEF TypeOK, InFlight
    <2>4. (WorkOK /\ TrackedSubmitted /\ CancelledOnce /\ AnsweredIsStopped
         /\ AcceptedIsRecorded /\ ObservedBeforeWork)'
      BY <1>0, <2>1 DEF TypeOK, WorkOK, TrackedSubmitted, CancelledOnce, AnsweredIsStopped,
       AcceptedIsRecorded, ObservedBeforeWork
    <2> QED BY <2>2, <2>3, <2>4 DEF CountsOK
  <1>2. CASE Fail(j) /\ UNCHANGED <<future, worker>>
    <2>1. worker[j] # "running" /\ pc[j] = "accepted"
      BY DEF Submit, WorkOK
    <2> QED BY <1>0, <1>2, <2>1, FailInv DEF Submit
  <1> QED BY <1>1, <1>2 DEF Submit

LEMMA PoolInv == ASSUME IInv, NEW j \in Jobs, Pool(j) PROVE IInv'
  <1> USE DEF IInv
  <1>1. /\ UNCHANGED <<active, tracked, observed, recorded, pc, cancelled, saved>>
        /\ worker[j] # "none" /\ worker' \in {worker, [worker EXCEPT ![j] = "stopped"]}
        /\ worker'[j] = "stopped"
        /\ \E outcome \in {"result", "exception"} : future' = [future EXCEPT ![j] = outcome]
    BY DEF Pool, FutureBreaks, WorkerEnds, TypeOK
  <1>2. TypeOK'
    BY <1>1 DEF TypeOK
  <1>3. CountsOK'
    BY <1>1 DEF CountsOK, SlotsNotLeaked, OvershootIsBounded, Holding, CancelledOf
  <1>4. (WorkOK /\ TrackedSubmitted /\ CancelledOnce /\ AnsweredIsStopped
         /\ AcceptedIsRecorded /\ ObservedBeforeWork)'
    BY <1>1 DEF TypeOK, WorkOK, TrackedSubmitted, CancelledOnce, AnsweredIsStopped,
       AcceptedIsRecorded, ObservedBeforeWork
  <1> QED BY <1>2, <1>3, <1>4 DEF CountsOK

\* A request whose worker has stopped, or whose stream the client left, ends.
LEMMA EndInv ==
  ASSUME IInv, NEW j \in Jobs, pc[j] \in InFlight, NEW x \in {"saving", "done", "left"},
         Goto(j, x), Finalize(j), saved' \subseteq Jobs,
         UNCHANGED <<observed, recorded, future, worker, cancelled>>,
         worker[j] # "running" \/ x = "left", x = "left" => MayDisconnect /\ j \in Streams
  PROVE  IInv'
  <1> USE DEF IInv
  <1>1. CountsOK'
    BY CountsFinalize DEF InFlight, CountsOK
  <1>2. TypeOK'
    BY FinalizeType DEF Goto, TypeOK, InFlight
  <1>3. (WorkOK /\ TrackedSubmitted /\ CancelledOnce /\ AnsweredIsStopped
         /\ AcceptedIsRecorded /\ ObservedBeforeWork)'
    BY FinalizeType DEF Goto, TypeOK, InFlight, WorkOK, TrackedSubmitted, CancelledOnce, AnsweredIsStopped,
       AcceptedIsRecorded, ObservedBeforeWork
  <1> QED BY <1>1, <1>2, <1>3 DEF CountsOK

LEMMA ResumeInv == ASSUME IInv, NEW j \in Jobs, Resume(j) PROVE IInv'
  <1> USE DEF IInv
  <1>1. worker[j] # "running" /\ pc[j] = "waiting"
    BY DEF Resume, WorkOK
  <1>2. CASE j \in Streams
    <2>1. /\ \E x \in {"sending", "ending"} : pc' = [pc EXCEPT ![j] = x]
          /\ UNCHANGED <<active, tracked, observed, recorded, future, worker, cancelled, saved>>
      BY <1>2 DEF Resume, Goto
    <2>2. CountsOK'
      BY <1>1, <2>1, CountsStay DEF InFlight, CountsOK
    <2>3. TypeOK'
      BY <1>1, <2>1 DEF TypeOK, InFlight
    <2>4. (WorkOK /\ TrackedSubmitted /\ CancelledOnce /\ AnsweredIsStopped
         /\ AcceptedIsRecorded /\ ObservedBeforeWork)'
      BY <1>1, <2>1 DEF TypeOK, WorkOK, TrackedSubmitted, CancelledOnce, AnsweredIsStopped,
       AcceptedIsRecorded, ObservedBeforeWork
    <2> QED BY <2>2, <2>3, <2>4 DEF CountsOK
  <1>3. CASE j \notin Streams
    <2>1. \E x \in {"saving", "done"} : Goto(j, x) /\ Finalize(j)
      BY <1>3 DEF Resume
    <2> QED BY <1>1, <2>1, EndInv DEF Resume, InFlight, TypeOK
  <1> QED BY <1>2, <1>3

LEMMA HistoryInv == ASSUME IInv, NEW j \in Jobs, SaveHistory(j) PROVE IInv'
  <1> USE DEF IInv
  <1>1. /\ pc[j] = "saving" /\ pc' = [pc EXCEPT ![j] = "done"] /\ saved' \subseteq Jobs
        /\ UNCHANGED <<active, tracked, observed, recorded, future, worker, cancelled>>
    BY DEF SaveHistory, Save, Goto, TypeOK
  <1>2. CountsOK'
    BY <1>1, CountsStay DEF InFlight, CountsOK
  <1>3. TypeOK'
    BY <1>1 DEF TypeOK, InFlight
  <1>4. (WorkOK /\ TrackedSubmitted /\ CancelledOnce /\ AnsweredIsStopped
         /\ AcceptedIsRecorded /\ ObservedBeforeWork)'
    BY <1>1 DEF TypeOK, WorkOK, TrackedSubmitted, CancelledOnce, AnsweredIsStopped,
       AcceptedIsRecorded, ObservedBeforeWork
  <1> QED BY <1>2, <1>3, <1>4 DEF CountsOK

LEMMA StreamInv ==
  ASSUME IInv, NEW j \in Jobs, SendResult(j) \/ EndStream(j) \/ Disconnect(j)
  PROVE  IInv'
  <1> USE DEF IInv
  <1>1. CASE SendResult(j) \/ EndStream(j)
    <2>1. worker[j] # "running"
      BY <1>1 DEF SendResult, EndStream, WorkOK
    <2> QED BY <1>1, <2>1, EndInv DEF SendResult, EndStream, Save, InFlight, TypeOK
  <1>2. CASE Disconnect(j)
    BY <1>2, EndInv DEF Disconnect, InFlight, TypeOK
  <1> QED BY <1>1, <1>2

LEMMA CancelInv == ASSUME IInv, NEW j \in Jobs, Cancel(j) PROVE IInv'
  <1> USE DEF IInv
  <1>1. /\ j \in tracked /\ j \notin cancelled /\ Finalize(j)
        /\ worker' = [worker EXCEPT ![j] = IF @ = "running" THEN "stopped" ELSE @]
        /\ cancelled' = cancelled \cup {j}
        /\ UNCHANGED <<observed, recorded, pc, future, saved>>
    BY DEF Cancel, Stop, CancelledOnce
  <1>2. CountsOK'
    BY <1>1, CountsCancel DEF CountsOK
  <1>3. TypeOK'
    BY <1>1, FinalizeType DEF TypeOK
  <1>4. future[j] # "none" /\ pc[j] \notin {"new", "refused", "confirming", "accepted"}
    BY <1>1 DEF TrackedSubmitted, TypeOK, InFlight
  <1>5. (WorkOK /\ TrackedSubmitted /\ CancelledOnce /\ AnsweredIsStopped
         /\ AcceptedIsRecorded /\ ObservedBeforeWork)'
    BY <1>1, <1>4, FinalizeType DEF TypeOK, WorkOK, TrackedSubmitted, CancelledOnce, AnsweredIsStopped,
       AcceptedIsRecorded, ObservedBeforeWork
  <1> QED BY <1>2, <1>3, <1>5 DEF CountsOK

LEMMA StutterInv == ASSUME IInv, UNCHANGED vars PROVE IInv'
  BY DEF vars, IInv, TypeOK, WorkOK, TrackedSubmitted, CancelledOnce, SlotsNotLeaked, OvershootIsBounded, Holding, CancelledOf,
         AnsweredIsStopped, AcceptedIsRecorded, ObservedBeforeWork

LEMMA NextInv == IInv /\ [Next]_vars => IInv'
  BY AdmitInv, ConfirmInv, ObservationFailsInv, TimesOutInv, SubmitInv, PoolInv, ResumeInv, HistoryInv, StreamInv,
     CancelInv, StutterInv DEF Next, Runner

-----------------------------------------------------------------------------
(* Theorems.                                                               *)

\* The inductive invariant holds throughout.
THEOREM Invariance == Spec => []IInv
  BY InitInv, NextInv, PTL DEF Spec

\* Type correctness; in particular no counter passes the limit.
THEOREM TypeCorrect == Spec => []TypeOK
  <1>1. IInv => TypeOK
    BY DEF IInv
  <1> QED BY <1>1, Invariance, PTL

\* No lab counts more slots than requests that hold one.
THEOREM SlotsCorrect == Spec => []SlotsNotLeaked
  <1>1. IInv => SlotsNotLeaked
    BY DEF IInv
  <1> QED BY <1>1, Invariance, PTL

\* Only cancellations give a slot back twice.
THEOREM OvershootCorrect == Spec => []OvershootIsBounded
  <1>1. IInv => OvershootIsBounded
    BY DEF IInv
  <1> QED BY <1>1, Invariance, PTL

\* An answered request, a stream included, has no process left.
THEOREM StoppedCorrect == Spec => []AnsweredIsStopped
  <1>1. IInv => AnsweredIsStopped
    BY DEF IInv
  <1> QED BY <1>1, Invariance, PTL

\* No work starts before the backend has recorded a session of its credential.
THEOREM ObservedCorrect == Spec => []ObservedBeforeWork
  <1>1. IInv => ObservedBeforeWork
    BY DEF IInv
  <1> QED BY <1>1, Invariance, PTL

-----------------------------------------------------------------------------
(* How far the limit is kept.  LimitHolds itself does not hold.            *)

\* A process runs for a request that holds a slot, or for a stream that was left.
LEMMA RunningHolds ==
  ASSUME IInv, NEW l \in Labs
  PROVE  /\ Running(l) \subseteq Holding(l) \cup LeftRunning(l)
         /\ LeftRunning(l) \subseteq Streams
         /\ LeftRunning(l) # {} => MayDisconnect
  <1>1. ASSUME NEW j \in Running(l)
        PROVE  j \in Holding(l) \cup LeftRunning(l)
    <2>1. j \in Jobs /\ LabOf[j] = l /\ worker[j] = "running"
      BY DEF Running
    <2>2. pc[j] \notin {"new", "refused", "saving", "done"}
      BY <2>1 DEF IInv, WorkOK, AnsweredIsStopped
    <2>3. pc[j] \in InFlight \cup {"left"}
      BY <2>1, <2>2 DEF IInv, TypeOK
    <2> QED BY <2>1, <2>3 DEF Holding, LeftRunning, Running
  <1>2. ASSUME NEW j \in LeftRunning(l)
        PROVE  MayDisconnect /\ j \in Streams
    BY DEF IInv, AnsweredIsStopped, LeftRunning, Running
  <1> QED BY <1>1, <1>2

\* No more than the cancelled jobs and the left streams exceed the limit of a lab.
THEOREM LimitBounded == Spec => []LimitButFor
  <1>1. ASSUME IInv, NEW l \in Labs
        PROVE  Cardinality(Running(l)) <=
                 Limit + Cardinality(CancelledOf(l)) + Cardinality(LeftRunning(l))
    <2> PICK R : R = Running(l)
      OBVIOUS
    <2> PICK H : H = Holding(l)
      OBVIOUS
    <2> PICK S : S = LeftRunning(l)
      OBVIOUS
    <2>1. /\ IsFiniteSet(H) /\ Cardinality(H) \in Nat
          /\ Cardinality(CancelledOf(l)) \in Nat /\ active[l] \in Nat /\ active[l] <= Limit
      BY <1>1, Counted DEF IInv
    <2>2. S \in SUBSET Jobs
      BY DEF LeftRunning, Running
    <2>3. IsFiniteSet(S) /\ Cardinality(S) \in Nat
      BY <2>2, FS_Subset, FS_CardinalityType, JobAssumption
    <2>4. R \in SUBSET (H \cup S)
      BY <1>1, RunningHolds
    <2>5. /\ IsFiniteSet(H \cup S) /\ Cardinality(H \cup S) <= Cardinality(H) + Cardinality(S)
      <3>1. IsFiniteSet(H \cap S) /\ Cardinality(H \cap S) \in Nat
        BY <2>1, FS_Intersection, FS_CardinalityType
      <3>2. /\ IsFiniteSet(H \cup S)
            /\ Cardinality(H \cup S) =
                 Cardinality(H) + Cardinality(S) - Cardinality(H \cap S)
        BY <2>1, <2>3, FS_Union
      <3> QED BY <2>1, <2>3, <3>1, <3>2
    <2>6. IsFiniteSet(R) /\ Cardinality(R) <= Cardinality(H \cup S)
      BY <2>4, <2>5, FS_Subset
    <2>7. Cardinality(R) \in Nat /\ Cardinality(H \cup S) \in Nat
      BY <2>5, <2>6, FS_CardinalityType
    <2>8. Cardinality(H) <= active[l] + Cardinality(CancelledOf(l))
      BY <1>1 DEF IInv, OvershootIsBounded, CancelledOf
    <2> QED BY <2>1, <2>3, <2>5, <2>6, <2>7, <2>8, LimitAssumption
  <1>2. IInv => LimitButFor
    BY <1>1 DEF LimitButFor
  <1> QED BY <1>2, Invariance, PTL

\* Cancelling and leaving are the only ways past the limit: where owners do not
\* cancel and clients stay, no lab runs more simulations than MAX_CONCURRENT_PER_MODEL.
THEOREM LimitKept ==
  ASSUME ~MayCancel, ~MayDisconnect
  PROVE  Spec => []LimitHolds
  <1>1. Init => cancelled = {}
    BY DEF Init
  <1>2. cancelled = {} /\ [Next]_vars => (cancelled = {})'
    <2> SUFFICES ASSUME cancelled = {}, [Next]_vars PROVE cancelled' = {}
      OBVIOUS
    <2>1. ASSUME NEW j \in Jobs, Runner(j) PROVE cancelled' = cancelled
      BY <2>1 DEF Runner, Admit, AnswerLost, Confirmed, ObservationFails, Submit, Resume,
         TimesOut, SaveHistory, SendResult, EndStream
    <2>2. ASSUME NEW j \in Jobs, Pool(j) PROVE cancelled' = cancelled
      BY <2>2 DEF Pool, FutureBreaks, WorkerEnds
    <2>3. ASSUME NEW j \in Jobs PROVE ~Disconnect(j) /\ ~Cancel(j)
      BY DEF Disconnect, Cancel
    <2> QED BY <2>1, <2>2, <2>3 DEF Next, vars
  <1>3. Spec => [](cancelled = {})
    BY <1>1, <1>2, PTL DEF Spec
  <1>4. ASSUME IInv, cancelled = {}, LimitButFor, NEW l \in Labs
        PROVE  Cardinality(Running(l)) <= Limit
    <2>1. CancelledOf(l) = {} /\ LeftRunning(l) = {}
      BY <1>4, RunningHolds DEF CancelledOf
    <2>2. Cardinality(Running(l)) <= Limit + 0 + 0
      BY <1>4, <2>1, FS_EmptySet DEF LimitButFor
    <2> QED BY <2>2, LimitAssumption
  <1>5. IInv /\ cancelled = {} /\ LimitButFor => LimitHolds
    BY <1>4 DEF LimitHolds, Running
  <1> QED BY <1>3, <1>5, Invariance, LimitBounded, PTL

-----------------------------------------------------------------------------
(* The slots of a lab as the other users of its counter see them.          *)

\* What a step of one request does to the slot it holds.
Moves(j) ==
  \/ SlotState(j)' = SlotState(j) /\ active' = active
  \/ /\ SlotState(j) = "new" /\ SlotState(j)' = "holding" /\ active[LabOf[j]] < Limit
     /\ active' = [active EXCEPT ![LabOf[j]] = @ + 1]
  \/ /\ SlotState(j) = "holding" /\ SlotState(j)' \in {"cancelled", "done"}
     /\ ReleaseSlot(LabOf[j])
  \/ /\ SlotState(j) = "cancelled" /\ SlotState(j)' = "twice"
     /\ ReleaseSlot(LabOf[j])

OthersStay(j) ==
  \A k \in Jobs \ {j} : pc'[k] = pc[k] /\ (k \in cancelled' <=> k \in cancelled)

LEMMA MovesImplement ==
  ASSUME TypeOK, NEW l \in Labs, NEW j \in Jobs, Moves(j), OthersStay(j)
  PROVE  [Slots(l)!Next]_(Slots(l)!vars)
  <1> DEFINE view == [k \in JobsOf(l) |-> SlotState(k)]
  <1>1. \A k \in Jobs \ {j} : SlotState(k)' = SlotState(k)
    BY DEF OthersStay, SlotState
  <1>2. CASE LabOf[j] # l \/ (SlotState(j)' = SlotState(j) /\ active' = active)
    <2>1. active'[l] = active[l]
      BY <1>2, JobAssumption DEF Moves, ReleaseSlot, TypeOK
    <2>2. \A k \in JobsOf(l) : SlotState(k)' = SlotState(k)
      BY <1>1, <1>2 DEF JobsOf
    <2>3. view' = view
      BY <2>2 DEF JobsOf
    <2> QED BY <2>1, <2>3 DEF Slots!vars
  <1>3. CASE LabOf[j] = l /\ ~(SlotState(j)' = SlotState(j) /\ active' = active)
    <2>1. j \in JobsOf(l)
      BY <1>3 DEF JobsOf
    <2>2. view' = [view EXCEPT ![j] = SlotState(j)']
      BY <1>1, <2>1 DEF JobsOf
    <2>3. view[j] = SlotState(j)
      BY <2>1
    <2>4. CASE /\ SlotState(j) = "new" /\ SlotState(j)' = "holding" /\ active[l] < Limit
               /\ active' = [active EXCEPT ![l] = @ + 1]
      <3>1. active'[l] = active[l] + 1
        BY <2>4 DEF TypeOK
      <3>2. Slots(l)!Take(j)
        BY <2>2, <2>3, <2>4, <3>1 DEF Slots!Take, Slots!Acquire
      <3> QED BY <2>1, <3>2 DEF Slots!Next
    <2>5. CASE ReleaseSlot(l) /\ SlotState(j) \in {"holding", "cancelled"}
      <3>1. Slots(l)!Release
        BY <2>5 DEF ReleaseSlot, Slots!Release, TypeOK
      <3>2. CASE SlotState(j) = "holding" /\ SlotState(j)' = "cancelled"
        <4>1. Slots(l)!Cancel(j)
          BY <2>2, <2>3, <3>1, <3>2 DEF Slots!Cancel
        <4> QED BY <2>1, <4>1 DEF Slots!Next
      <3>3. CASE \/ SlotState(j) = "holding" /\ SlotState(j)' = "done"
                 \/ SlotState(j) = "cancelled" /\ SlotState(j)' = "twice"
        <4>1. Slots(l)!GiveBack(j)
          BY <2>2, <2>3, <3>1, <3>3 DEF Slots!GiveBack
        <4> QED BY <2>1, <4>1 DEF Slots!Next
      <3> QED BY <1>3, <2>5, <3>2, <3>3 DEF Moves
    <2> QED BY <1>3, <2>4, <2>5 DEF Moves
  <1> QED BY <1>2, <1>3

\* A request that ends gives its slot back.
LEMMA EndMoves ==
  ASSUME TypeOK, NEW j \in Jobs, pc[j] \in InFlight, NEW x \in {"saving", "done", "left"},
         Goto(j, x), Finalize(j), cancelled' = cancelled
  PROVE  Moves(j) /\ OthersStay(j)
  <1>1. pc' = [pc EXCEPT ![j] = x] /\ pc'[j] = x /\ x \notin InFlight \cup {"new", "refused"}
    BY DEF Goto, TypeOK, InFlight
  <1>2. pc[j] \notin {"new", "refused"}
    BY DEF InFlight
  <1>3. OthersStay(j)
    BY <1>1 DEF OthersStay, TypeOK
  <1>4. ReleaseSlot(LabOf[j])
    BY DEF Finalize
  <1> QED BY <1>1, <1>2, <1>3, <1>4 DEF Moves, SlotState

\* A request that goes on keeps its slot.
LEMMA StayMoves ==
  ASSUME TypeOK, NEW j \in Jobs, NEW x, pc' = [pc EXCEPT ![j] = x],
         \/ x = pc[j]
         \/ x \in InFlight /\ pc[j] \in InFlight
         \/ x \in {"new", "refused"} /\ pc[j] \in {"new", "refused"}
         \/ x \in {"saving", "done"} /\ pc[j] \in {"saving", "done"},
         UNCHANGED <<active, cancelled>>
  PROVE  Moves(j) /\ OthersStay(j)
  <1>1. pc'[j] = x
    BY DEF TypeOK
  <1>2. SlotState(j)' = SlotState(j)
    BY <1>1 DEF SlotState, InFlight
  <1>3. OthersStay(j)
    BY DEF OthersStay, TypeOK
  <1> QED BY <1>2, <1>3 DEF Moves

LEMMA FailMoves ==
  ASSUME TypeOK, NEW j \in Jobs, pc[j] \in InFlight, Fail(j), cancelled' = cancelled
  PROVE  Moves(j) /\ OthersStay(j)
  <1>1. CASE j \in Streams
    BY <1>1, StayMoves DEF Fail, Goto, InFlight
  <1>2. CASE j \notin Streams
    BY <1>2, EndMoves DEF Fail
  <1> QED BY <1>1, <1>2

LEMMA StepMoves ==
  ASSUME IInv, NEW j \in Jobs, Runner(j) \/ Pool(j) \/ Disconnect(j) \/ Cancel(j)
  PROVE  Moves(j) /\ OthersStay(j)
  <1> USE DEF IInv
  <1>1. CASE Admit(j)
    <2>1. CASE Goto(j, "refused") /\ UNCHANGED active
      BY <1>1, <2>1, StayMoves DEF Admit, Goto
    <2>2. CASE ~(Goto(j, "refused") /\ UNCHANGED active)
      <3>1. /\ \E x \in {"accepted", "confirming"} : pc' = [pc EXCEPT ![j] = x]
            /\ active' = [active EXCEPT ![LabOf[j]] = @ + 1] /\ ~(active[LabOf[j]] >= Limit)
            /\ pc[j] = "new" /\ cancelled' = cancelled /\ j \notin cancelled
        BY <1>1, <2>2 DEF Admit, Goto, CancelledOnce
      <3>2. active[LabOf[j]] < Limit
        <4>1. LabOf[j] \in Labs
          BY JobAssumption
        <4>2. active[LabOf[j]] \in Nat
          BY <4>1 DEF TypeOK
        <4> QED BY <3>1, <4>2, LimitAssumption
      <3>3. pc'[j] \in InFlight /\ pc'[j] \notin {"new", "refused"}
        BY <3>1 DEF TypeOK, InFlight
      <3>4. OthersStay(j)
        BY <3>1 DEF OthersStay, TypeOK
      <3>5. SlotState(j) = "new" /\ SlotState(j)' = "holding"
        BY <3>1, <3>3 DEF SlotState, InFlight
      <3> QED BY <3>1, <3>2, <3>4, <3>5 DEF Moves
    <2> QED BY <2>1, <2>2
  <1>2. CASE AnswerLost(j) \/ Pool(j)
    <2>1. UNCHANGED <<active, pc, cancelled>>
      BY <1>2 DEF AnswerLost, Pool, FutureBreaks, WorkerEnds
    <2> QED BY <2>1 DEF Moves, OthersStay, SlotState
  <1>3. CASE Confirmed(j)
    BY <1>3, StayMoves DEF Confirmed, Goto, InFlight
  <1>4. CASE ObservationFails(j) \/ TimesOut(j)
    BY <1>4, FailMoves DEF ObservationFails, TimesOut, InFlight
  <1>5. CASE Submit(j)
    <2>1. pc[j] \in InFlight /\ cancelled' = cancelled
      BY <1>5 DEF Submit, InFlight
    <2>2. CASE Submitted(j) /\ UNCHANGED active
      BY <2>1, <2>2, StayMoves DEF Submitted, Goto, InFlight
    <2> QED BY <1>5, <2>1, <2>2, FailMoves DEF Submit
  <1>6. CASE Resume(j)
    <2>1. CASE j \in Streams
      BY <1>6, <2>1, StayMoves DEF Resume, Goto, InFlight
    <2>2. CASE j \notin Streams
      BY <1>6, <2>2, EndMoves DEF Resume, InFlight
    <2> QED BY <2>1, <2>2
  <1>7. CASE SaveHistory(j)
    BY <1>7, StayMoves DEF SaveHistory, Goto
  <1>8. CASE SendResult(j) \/ EndStream(j) \/ Disconnect(j)
    BY <1>8, EndMoves DEF SendResult, EndStream, Disconnect, InFlight
  <1>9. CASE Cancel(j)
    <2>1. /\ j \in tracked /\ pc' = pc /\ cancelled' = cancelled \cup {j}
          /\ ReleaseSlot(LabOf[j])
      BY <1>9 DEF Cancel, Finalize
    <2>2. pc[j] \in InFlight /\ pc[j] \notin {"new", "refused"} /\ j \notin cancelled
      BY <2>1 DEF TypeOK, CancelledOnce, InFlight
    <2>3. SlotState(j) = "holding" /\ SlotState(j)' = "cancelled"
      BY <2>1, <2>2 DEF SlotState
    <2>4. OthersStay(j)
      BY <2>1 DEF OthersStay
    <2> QED BY <2>1, <2>3, <2>4 DEF Moves
  <1> QED
    BY <1>1, <1>2, <1>3, <1>4, <1>5, <1>6, <1>7, <1>8, <1>9 DEF Runner

\* The requests of every lab take and give back its slots as LabSlots says, which
\* is how RealtimeSessions meets them at the counter they share.
THEOREM ImplementsSlotsCorrect == Spec => ImplementsSlots
  <1>1. Init => \A l \in Labs : Slots(l)!Init
    <2> SUFFICES ASSUME Init, NEW l \in Labs PROVE Slots(l)!Init
      OBVIOUS
    <2>1. \A k \in JobsOf(l) : SlotState(k) = "new"
      BY DEF Init, JobsOf, SlotState, InFlight
    <2> QED BY <2>1 DEF Init, Slots!Init
  <1>2. IInv /\ [Next]_vars => [\A l \in Labs : [Slots(l)!Next]_(Slots(l)!vars)]_vars
    <2> SUFFICES ASSUME IInv, Next, NEW l \in Labs
                 PROVE  [Slots(l)!Next]_(Slots(l)!vars)
      OBVIOUS
    <2>1. PICK j \in Jobs : Runner(j) \/ Pool(j) \/ Disconnect(j) \/ Cancel(j)
      BY DEF Next
    <2>2. Moves(j) /\ OthersStay(j)
      BY <2>1, StepMoves
    <2> QED BY <2>2, MovesImplement DEF IInv
  <1> QED BY <1>1, <1>2, Invariance, PTL DEF Spec, ImplementsSlots
=============================================================================
