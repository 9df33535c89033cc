------------------- MODULE ReservationOrchestrator_proofs -------------------
(***************************************************************************)
(* Proofs about the reservation automation for every number of             *)
(* reservations, set of hosts, mapping of labs to hosts and bound.         *)
(***************************************************************************)
EXTENDS ReservationOrchestrator, TLAPS

\* A dispatch is of a reservation, and its command is the one of its operation.
DispatchOK ==
  /\ scan.pc \notin {"idle", "loop"} => scan.cur \in Res
  /\ scan.pc \in {"wake", "prepare"} => scan.op = "start"
  /\ scan.pc = "release" => scan.op = "end"

\* The command of the dispatch succeeded.
Succeeded == scan.pc = "update" \/ (scan.pc = "record" /\ scan.ok)

\* What succeeded was done.
DoneAsReported ==
  Succeeded => /\ scan.op = "start" => scan.cur \in prepared
               /\ scan.op = "end" => scan.cur \in released

\* Ends are dispatched when no start is left in the scan.
StartsFirst == scan.pc \notin {"idle", "loop"} /\ scan.op = "end" => scan.starts = {}

\* A completed reservation is not about to be prepared.
NotPreparedAgain ==
  \A r \in Res : status[r] = "COMPLETED" =>
    /\ r \notin scan.starts
    /\ ~(scan.pc \in {"wake", "prepare"} /\ scan.cur = r)

\* From the release to the update nobody prepares the host for the released.
CleanSinceRelease ==
  Succeeded /\ scan.op = "end" /\ scan.cur \in Mapped => session[HostOf[scan.cur]] # scan.cur

IInv == /\ TypeOK
        /\ StatusIsEarned
        /\ CompletedIsClean
        /\ DispatchOK
        /\ DoneAsReported
        /\ StartsFirst
        /\ NotPreparedAgain
        /\ CleanSinceRelease

-----------------------------------------------------------------------------
(* Facts about the constants and the projection.                           *)

LEMMA HostFacts ==
  /\ \A r \in Mapped : r \in Res /\ HostOf[r] \in Hosts
  /\ Free \notin Res /\ ByHand \notin Res
  BY ResAssumption, HostAssumption DEF Mapped, Res, Free, ByHand

LEMMA IdleType == Idle \in ScanType
  BY DEF Idle, ScanType, Ops, Statuses, Free

LEMMA CandidatesFacts ==
  ASSUME IInv
  PROVE  /\ StartCandidates \subseteq Res /\ EndCandidates \subseteq Res
         /\ \A r \in StartCandidates : status[r] # "COMPLETED"
  BY DEF StartCandidates, EndCandidates

-----------------------------------------------------------------------------
(* The invariant is inductive.                                             *)

LEMMA InitInv == Init => IInv
  <1> SUFFICES ASSUME Init PROVE IInv
    OBVIOUS
  <1>1. TypeOK
    BY IdleType, BoundAssumption DEF Init, TypeOK, Idle, Commanding, Statuses, Future, Lapsed
  <1>2. StatusIsEarned /\ CompletedIsClean /\ NotPreparedAgain
    BY HostFacts DEF Init, StatusIsEarned, CompletedIsClean, NotPreparedAgain
  <1>3. DispatchOK /\ DoneAsReported /\ StartsFirst /\ CleanSinceRelease
    BY DEF Init, Idle, DispatchOK, DoneAsReported, StartsFirst, CleanSinceRelease, Succeeded
  <1> QED BY <1>1, <1>2, <1>3 DEF IInv

\* The parts of the invariant that speak of the scan, the stations and the
\* history follow when those are left alone and nothing becomes completed.
LEMMA ProjectionInv ==
  ASSUME IInv, TypeOK', UNCHANGED <<scan, session, prepared, released>>,
         \A r \in Res : status'[r] \in {status[r], "CONFIRMED", "CANCELLED"}
  PROVE  IInv'
  <1>1. (StatusIsEarned /\ CompletedIsClean /\ NotPreparedAgain)'
    BY HostFacts DEF IInv, StatusIsEarned, CompletedIsClean, NotPreparedAgain
  <1>2. (DispatchOK /\ DoneAsReported /\ StartsFirst /\ CleanSinceRelease)'
    BY DEF IInv, DispatchOK, DoneAsReported, StartsFirst, CleanSinceRelease, Succeeded
  <1> QED BY <1>1, <1>2 DEF IInv

LEMMA EnvironmentInv ==
  ASSUME IInv, NEW r \in Res,
         \/ Advance(r) \/ StartLapses(r) \/ Confirm(r) \/ Cancel(r)
         \/ \E op \in Ops : CooldownElapses(op, r)
  PROVE  IInv'
  <1> USE DEF IInv
  <1>1. CASE Advance(r)
    <2>1. phase' \in [Res -> Future..Lapsed]
      BY <1>1 DEF Advance, TypeOK, Future, Lapsed
    <2>2. TypeOK'
      BY <1>1, <2>1 DEF Advance, TypeOK
    <2> QED BY <1>1, <2>2, ProjectionInv DEF Advance
  <1>2. CASE StartLapses(r)
    <2>1. TypeOK'
      BY <1>2 DEF StartLapses, TypeOK
    <2> QED BY <1>2, <2>1, ProjectionInv DEF StartLapses
  <1>3. CASE Confirm(r)
    <2>1. TypeOK' /\ \A q \in Res : status'[q] \in {status[q], "CONFIRMED"}
      BY <1>3 DEF Confirm, TypeOK, Statuses
    <2> QED BY <1>3, <2>1, ProjectionInv DEF Confirm
  <1>4. CASE Cancel(r)
    <2>1. TypeOK' /\ \A q \in Res : status'[q] \in {status[q], "CANCELLED"}
      BY <1>4 DEF Cancel, TypeOK, Statuses
    <2> QED BY <1>4, <2>1, ProjectionInv DEF Cancel
  <1>5. ASSUME NEW op \in Ops, CooldownElapses(op, r) PROVE IInv'
    <2>1. TypeOK'
      BY <1>5 DEF CooldownElapses, TypeOK
    <2> QED BY <1>5, <2>1, ProjectionInv DEF CooldownElapses
  <1> QED BY <1>1, <1>2, <1>3, <1>4, <1>5

\* What an operator does by hand never prepares a host for a reservation.
LEMMA ManualInv ==
  ASSUME IInv, NEW r \in Res, ManualStart(r) \/ ManualEnd(r)
  PROVE  IInv'
  <1> USE DEF IInv
  <1>1. HostOf[r] \in Hosts
    BY HostFacts DEF ManualStart, ManualEnd
  <1>2. /\ UNCHANGED <<phase, missed, status, cooling, scan, crashes>>
        /\ prepared \subseteq prepared' /\ released \subseteq released'
        /\ prepared' \subseteq Res /\ released' \subseteq Res
    BY DEF ManualStart, ManualEnd, Released, TypeOK
  <1>3. \E x \in {Free, ByHand} : session' = [session EXCEPT ![HostOf[r]] = x]
    BY DEF ManualStart, ManualEnd, Released
  <1>4. TypeOK'
    BY <1>1, <1>2, <1>3 DEF TypeOK
  <1>5. \A q \in Mapped : session'[HostOf[q]] = q => session[HostOf[q]] = q
    BY <1>1, <1>3, HostFacts DEF TypeOK
  <1>6. (StatusIsEarned /\ CompletedIsClean /\ NotPreparedAgain)'
    BY <1>2, <1>5 DEF StatusIsEarned, CompletedIsClean, NotPreparedAgain
  <1>7. (DispatchOK /\ DoneAsReported /\ StartsFirst /\ CleanSinceRelease)'
    BY <1>2, <1>5 DEF DispatchOK, DoneAsReported, StartsFirst, CleanSinceRelease, Succeeded
  <1> QED BY <1>4, <1>6, <1>7

\* A scan that begins, ends or dies takes no start of a completed reservation
\* with it.
LEMMA ScanInv ==
  ASSUME IInv, ScanOnce \/ ScanEnds \/ Crash
  PROVE  IInv'
  <1> USE DEF IInv
  <1>1. /\ UNCHANGED <<phase, missed, status, cooling, session, prepared, released>>
        /\ crashes' \in 0..MaxCrashes
        /\ scan'.pc \in {"idle", "loop"} /\ scan'.starts \subseteq StartCandidates
        /\ scan' \in ScanType
    <2>1. CASE ScanOnce
      BY <2>1, CandidatesFacts DEF ScanOnce, Idle, ScanType, TypeOK, Ops, Free
    <2>2. CASE ScanEnds
      BY <2>2, IdleType DEF ScanEnds, Idle, TypeOK
    <2>3. CASE Crash
      <3>1. crashes' \in 0..MaxCrashes
        BY <2>3, BoundAssumption DEF Crash, TypeOK
      <3> QED BY <2>3, <3>1, IdleType DEF Crash, Idle
    <2> QED BY <2>1, <2>2, <2>3
  <1>2. TypeOK'
    BY <1>1 DEF TypeOK, Commanding
  <1>3. (StatusIsEarned /\ CompletedIsClean /\ NotPreparedAgain)'
    BY <1>1, CandidatesFacts DEF StatusIsEarned, CompletedIsClean, NotPreparedAgain
  <1>4. (DispatchOK /\ DoneAsReported /\ StartsFirst /\ CleanSinceRelease)'
    BY <1>1 DEF DispatchOK, DoneAsReported, StartsFirst, CleanSinceRelease, Succeeded
  <1> QED BY <1>2, <1>3, <1>4

LEMMA DispatchInv ==
  ASSUME IInv, NEW r \in Res, DispatchStart(r) \/ DispatchEnd(r)
  PROVE  IInv'
  <1> USE DEF IInv
  <1>1. /\ UNCHANGED <<phase, missed, status, cooling, session, prepared, released, crashes>>
        /\ scan' \in ScanType
        /\ scan'.cur = r /\ ~scan'.ok /\ scan'.starts \subseteq scan.starts
        /\ scan'.pc \in {"wake", "release", "record"}
        /\ scan'.pc # "record" => r \in Mapped
    <2>1. CASE DispatchStart(r)
      BY <2>1 DEF DispatchStart, ScanType, TypeOK, Ops
    <2>2. CASE DispatchEnd(r)
      BY <2>2 DEF DispatchEnd, ScanType, TypeOK, Ops
    <2> QED BY <2>1, <2>2
  <1>2. \/ scan'.op = "start" /\ scan'.pc # "release" /\ r \in scan.starts
        \/ scan'.op = "end" /\ scan'.pc # "wake" /\ scan'.starts = {}
    BY DEF DispatchStart, DispatchEnd, ScanType, TypeOK, IsFirst
  <1>3. TypeOK'
    BY <1>1 DEF TypeOK, Commanding
  <1>4. (StatusIsEarned /\ CompletedIsClean /\ NotPreparedAgain)'
    BY <1>1, <1>2 DEF StatusIsEarned, CompletedIsClean, NotPreparedAgain
  <1>5. (DispatchOK /\ DoneAsReported /\ StartsFirst /\ CleanSinceRelease)'
    BY <1>1, <1>2 DEF DispatchOK, DoneAsReported, StartsFirst, CleanSinceRelease, Succeeded
  <1> QED BY <1>3, <1>4, <1>5

LEMMA WakeInv ==
  ASSUME IInv, NEW b \in BOOLEAN, Wake(b)
  PROVE  IInv'
  <1> USE DEF IInv
  <1>1. /\ UNCHANGED <<phase, missed, status, cooling, session, prepared, released, crashes>>
        /\ scan' \in ScanType
        /\ scan'.cur = scan.cur /\ scan'.op = scan.op /\ scan'.starts = scan.starts
        /\ scan'.pc = "prepare" \/ (scan'.pc = "record" /\ ~scan'.ok)
    BY DEF Wake, Goto, Outcome, ScanType, TypeOK
  <1>2. TypeOK'
    BY <1>1 DEF TypeOK, Commanding, Wake
  <1>3. (StatusIsEarned /\ CompletedIsClean /\ NotPreparedAgain)'
    BY <1>1 DEF StatusIsEarned, CompletedIsClean, NotPreparedAgain, Wake
  <1>4. (DispatchOK /\ DoneAsReported /\ StartsFirst /\ CleanSinceRelease)'
    BY <1>1 DEF DispatchOK, DoneAsReported, StartsFirst, CleanSinceRelease, Succeeded, Wake
  <1> QED BY <1>2, <1>3, <1>4

LEMMA PrepareInv ==
  ASSUME IInv, NEW b \in BOOLEAN, Prepare(b)
  PROVE  IInv'
  <1> USE DEF IInv
  <1> DEFINE r == scan.cur
  <1>1. /\ r \in Mapped /\ r \in Res /\ HostOf[r] \in Hosts
        /\ scan.pc = "prepare" /\ scan.op = "start" /\ status[r] # "COMPLETED"
    BY HostFacts DEF Prepare, TypeOK, Commanding, DispatchOK, NotPreparedAgain
  <1>2. /\ UNCHANGED <<phase, missed, status, cooling, released, crashes>>
        /\ scan' \in ScanType
        /\ scan'.cur = r /\ scan'.op = "start" /\ scan'.starts = scan.starts
        /\ scan'.pc = "record" /\ scan'.ok = b
    BY <1>1 DEF Prepare, Outcome, ScanType, TypeOK
  <1>3. /\ prepared \subseteq prepared' /\ prepared' \subseteq Res
        /\ b => r \in prepared'
        /\ session' = session \/ session' = [session EXCEPT ![HostOf[r]] = r]
    BY <1>1 DEF Prepare, PreparedFor, TypeOK
  <1>4. TypeOK'
    BY <1>1, <1>2, <1>3 DEF TypeOK, Commanding
  <1>5. \A q \in Mapped : session'[HostOf[q]] = q => session[HostOf[q]] = q \/ q = r
    BY <1>1, <1>3, HostFacts DEF TypeOK
  <1>6. (StatusIsEarned /\ CompletedIsClean /\ NotPreparedAgain)'
    BY <1>1, <1>2, <1>3, <1>5 DEF StatusIsEarned, CompletedIsClean, NotPreparedAgain
  <1>7. (DispatchOK /\ DoneAsReported /\ StartsFirst /\ CleanSinceRelease)'
    BY <1>1, <1>2, <1>3 DEF DispatchOK, DoneAsReported, StartsFirst, CleanSinceRelease, Succeeded
  <1> QED BY <1>4, <1>6, <1>7

LEMMA ReleaseInv ==
  ASSUME IInv, NEW b \in BOOLEAN, Release(b)
  PROVE  IInv'
  <1> USE DEF IInv
  <1> DEFINE r == scan.cur
  <1>1. /\ r \in Mapped /\ r \in Res /\ HostOf[r] \in Hosts
        /\ scan.pc = "release" /\ scan.op = "end" /\ scan.starts = {}
    BY HostFacts DEF Release, TypeOK, Commanding, DispatchOK, StartsFirst
  <1>2. /\ UNCHANGED <<phase, missed, status, cooling, prepared, crashes>>
        /\ scan' \in ScanType
        /\ scan'.cur = r /\ scan'.op = "end" /\ scan'.starts = {}
        /\ scan'.pc = "record" /\ scan'.ok = b
    BY <1>1 DEF Release, Outcome, ScanType, TypeOK
  <1>3. /\ released \subseteq released' /\ released' \subseteq Res
        /\ b => r \in released' /\ session'[HostOf[r]] = Free
        /\ session' = session \/ session' = [session EXCEPT ![HostOf[r]] = Free]
    BY <1>1 DEF Release, Released, TypeOK
  <1>4. TypeOK'
    BY <1>1, <1>2, <1>3 DEF TypeOK, Commanding
  <1>5. \A q \in Mapped : session'[HostOf[q]] = q => session[HostOf[q]] = q
    BY <1>1, <1>3, HostFacts DEF TypeOK
  <1>6. (StatusIsEarned /\ CompletedIsClean /\ NotPreparedAgain)'
    BY <1>2, <1>3, <1>5 DEF StatusIsEarned, CompletedIsClean, NotPreparedAgain
  <1>7. (DispatchOK /\ DoneAsReported /\ StartsFirst /\ CleanSinceRelease)'
    BY <1>1, <1>2, <1>3, HostFacts
    DEF DispatchOK, DoneAsReported, StartsFirst, CleanSinceRelease, Succeeded
  <1> QED BY <1>4, <1>6, <1>7

LEMMA RecordInv ==
  ASSUME IInv, NEW b \in BOOLEAN, RecordOp(b)
  PROVE  IInv'
  <1> USE DEF IInv
  <1>1. /\ UNCHANGED <<phase, missed, status, session, prepared, released, crashes>>
        /\ scan' \in ScanType
        /\ scan'.cur = scan.cur /\ scan'.op = scan.op /\ scan'.starts = scan.starts
        /\ scan.pc = "record"
        /\ scan'.pc = "loop" \/ (scan'.pc = "update" /\ scan.ok)
    BY DEF RecordOp, Goto, ScanType, TypeOK
  <1>2. cooling' \subseteq Ops \X Res
    BY DEF RecordOp, TypeOK, ScanType, DispatchOK
  <1>3. TypeOK'
    BY <1>1, <1>2 DEF TypeOK, Commanding
  <1>4. (StatusIsEarned /\ CompletedIsClean /\ NotPreparedAgain)'
    BY <1>1 DEF StatusIsEarned, CompletedIsClean, NotPreparedAgain
  <1>5. (DispatchOK /\ DoneAsReported /\ StartsFirst /\ CleanSinceRelease)'
    BY <1>1 DEF DispatchOK, DoneAsReported, StartsFirst, CleanSinceRelease, Succeeded
  <1> QED BY <1>3, <1>4, <1>5

\* The update moves the status of one reservation, from the one it has, along
\* an allowed transition to the target of the operation.
LEMMA UpdateStep ==
  ASSUME IInv, NEW b \in BOOLEAN, UpdateStatus(b)
  PROVE  \/ status' = status
         \/ /\ Allowed(status[scan.cur], Target)
            /\ status' = [status EXCEPT ![scan.cur] = Target]
  BY DEF UpdateStatus, SetStatus

LEMMA UpdateInv ==
  ASSUME IInv, NEW b \in BOOLEAN, UpdateStatus(b)
  PROVE  IInv'
  <1> USE DEF IInv
  <1> DEFINE r == scan.cur
  <1>1. /\ UNCHANGED <<phase, missed, cooling, session, prepared, released, crashes>>
        /\ scan' \in ScanType /\ scan'.starts = scan.starts
        /\ scan.pc = "update" /\ scan'.pc = "loop" /\ r \in Res
    BY DEF UpdateStatus, Goto, ScanType, TypeOK, DispatchOK
  <1>2. status' \in [Res -> Statuses]
    BY <1>1, UpdateStep DEF TypeOK, Target, Statuses
  <1>3. \A q \in Res : \/ status'[q] = status[q]
                       \/ q = r /\ scan.op = "start" /\ status'[q] = "ACTIVE"
                       \/ q = r /\ scan.op = "end" /\ status'[q] = "COMPLETED"
    BY <1>1, UpdateStep DEF TypeOK, ScanType, Ops, Target
  <1>4. TypeOK'
    BY <1>1, <1>2 DEF TypeOK, Commanding
  <1>5. StatusIsEarned'
    BY <1>1, <1>3 DEF StatusIsEarned, DoneAsReported, Succeeded
  <1>6. CompletedIsClean'
    BY <1>1, <1>3, HostFacts DEF CompletedIsClean, CleanSinceRelease, Succeeded
  <1>7. NotPreparedAgain'
    BY <1>1, <1>3 DEF NotPreparedAgain, StartsFirst
  <1>8. (DispatchOK /\ DoneAsReported /\ StartsFirst /\ CleanSinceRelease)'
    BY <1>1 DEF DispatchOK, DoneAsReported, StartsFirst, CleanSinceRelease, Succeeded
  <1> QED BY <1>4, <1>5, <1>6, <1>7, <1>8

LEMMA StutterInv == ASSUME IInv, UNCHANGED vars PROVE IInv'
  BY DEF vars, IInv, TypeOK, StatusIsEarned, CompletedIsClean, DispatchOK, DoneAsReported,
         StartsFirst, NotPreparedAgain, CleanSinceRelease, Succeeded

LEMMA NextInv == IInv /\ [Next]_vars => IInv'
  BY EnvironmentInv, ManualInv, ScanInv, DispatchInv, WakeInv, PrepareInv, ReleaseInv,
     RecordInv, UpdateInv, StutterInv DEF Next

-----------------------------------------------------------------------------
(* Theorems.                                                               *)

\* The inductive invariant holds throughout.
THEOREM Invariance == Spec => []IInv
  BY InitInv, NextInv, PTL DEF Spec

\* Type correctness of the projection, the scan and the stations.
THEOREM TypeCorrect == Spec => []TypeOK
  <1>1. IInv => TypeOK
    BY DEF IInv
  <1> QED BY <1>1, Invariance, PTL

\* A status the worker wrote was earned by a command that succeeded.
THEOREM StatusCorrect == Spec => []StatusIsEarned
  <1>1. IInv => StatusIsEarned
    BY DEF IInv
  <1> QED BY <1>1, Invariance, PTL

\* No completed reservation leaves a station prepared for it.
THEOREM CleanCorrect == Spec => []CompletedIsClean
  <1>1. IInv => CompletedIsClean
    BY DEF IInv
  <1> QED BY <1>1, Invariance, PTL

\* One step moves the status of a reservation forward only.
LEMMA StatusStep ==
  ASSUME IInv, [Next]_vars
  PROVE  \A r \in Res : /\ status[r] \in Final => status'[r] = status[r]
                        /\ status[r] = "ACTIVE" => status'[r] \in {"ACTIVE"} \cup Final
  <1>1. ASSUME NEW b \in BOOLEAN, UpdateStatus(b)
        PROVE  \A r \in Res : /\ status[r] \in Final => status'[r] = status[r]
                              /\ status[r] = "ACTIVE" => status'[r] \in {"ACTIVE"} \cup Final
    BY <1>1, UpdateStep DEF IInv, TypeOK, Allowed, Target, Final
  <1>2. ASSUME NEW r \in Res, Confirm(r) \/ Cancel(r)
        PROVE  \A q \in Res : /\ status[q] \in Final => status'[q] = status[q]
                              /\ status[q] = "ACTIVE" => status'[q] \in {"ACTIVE"} \cup Final
    BY <1>2 DEF Confirm, Cancel, IInv, TypeOK, Final
  <1>3. \/ status' = status
        \/ \E b \in BOOLEAN : UpdateStatus(b)
        \/ \E r \in Res : Confirm(r) \/ Cancel(r)
    BY DEF Next, vars, ScanOnce, ScanEnds, Crash, Advance, StartLapses, ManualStart, ManualEnd,
           DispatchStart, DispatchEnd, CooldownElapses, Wake, Prepare, Release, RecordOp
  <1> QED BY <1>1, <1>2, <1>3

\* No scan overwrites a final status it did not see, however old its snapshot.
THEOREM ForwardCorrect == Spec => StatusMovesForward
  <1>1. IInv /\ [Next]_vars =>
          [\A r \in Res : /\ status[r] \in Final => status'[r] = status[r]
                          /\ status[r] = "ACTIVE" => status'[r] \in {"ACTIVE"} \cup Final]_vars
    BY StatusStep
  <1> QED BY <1>1, Invariance, PTL DEF Spec, StatusMovesForward
-----------------------------------------------------------------------------
(* Refinement of the lifecycle.                                            *)

\* Only what has a station is released.
ReleasedMapped == released \subseteq Mapped

LEMMA ReleasedStep == IInv /\ ReleasedMapped /\ [Next]_vars => ReleasedMapped'
  <1> SUFFICES ASSUME IInv, ReleasedMapped, [Next]_vars PROVE ReleasedMapped'
    OBVIOUS
  <1>1. \/ released' = released
        \/ \E r \in Mapped : released' = released \cup {r}
    <2>1. ASSUME NEW b \in BOOLEAN, Release(b)
          PROVE  scan.cur \in Mapped /\ released' \in {released, released \cup {scan.cur}}
      BY <2>1 DEF IInv, TypeOK, Commanding, Release, Released
    <2>2. ASSUME NEW r \in Res, ManualEnd(r)
          PROVE  r \in Mapped /\ released' = released \cup {r}
      BY <2>2 DEF ManualEnd, Released
    <2>3. \/ released' = released
          \/ \E b \in BOOLEAN : Release(b)
          \/ \E r \in Res : ManualEnd(r)
      BY DEF Next, vars, ScanOnce, ScanEnds, Crash, Advance, StartLapses, Confirm, Cancel,
             ManualStart, DispatchStart, DispatchEnd, CooldownElapses, Wake, Prepare,
             RecordOp, UpdateStatus
    <2> QED BY <2>1, <2>2, <2>3
  <1> QED BY <1>1 DEF ReleasedMapped

\* A command: what it leaves behind is a preparation or a release of the
\* lifecycle, or nothing.
LEMMA CommandRefines ==
  ASSUME IInv, NEW b \in BOOLEAN, Prepare(b) \/ Release(b)
  PROVE  [Lifecycle!Next]_Lifecycle!vars
  <1> DEFINE r == scan.cur
  <1>1. r \in Mapped /\ r \in Res /\ HostOf[r] \in Hosts /\ UNCHANGED status
    BY HostFacts DEF IInv, TypeOK, Commanding, Prepare, Release
  <1>2. CASE Prepare(b)
    <2>1. status[r] # "COMPLETED" /\ UNCHANGED released
      BY <1>1, <1>2 DEF IInv, Prepare, NotPreparedAgain
    <2>2. CASE PreparedFor(r)
      <3>1. Lifecycle!Prepare(r, r)
        BY <1>1, <2>1, <2>2 DEF PreparedFor, Lifecycle!Prepare
      <3> QED BY <1>1, <3>1 DEF Lifecycle!Next
    <2>3. CASE UNCHANGED <<session, prepared>>
      BY <1>1, <2>1, <2>3 DEF Lifecycle!vars
    <2> QED BY <1>2, <2>2, <2>3 DEF Prepare
  <1>3. CASE Release(b)
    <2>1. UNCHANGED prepared
      BY <1>3 DEF Release
    <2>2. CASE Released(r)
      <3>1. Lifecycle!Release(r)
        BY <1>1, <2>1, <2>2 DEF Released, Lifecycle!Release
      <3> QED BY <1>1, <3>1 DEF Lifecycle!Next
    <2>3. CASE UNCHANGED <<session, released>>
      BY <1>1, <2>1, <2>3 DEF Lifecycle!vars
    <2> QED BY <1>3, <2>2, <2>3 DEF Release
  <1> QED BY <1>2, <1>3

\* An operator's call of the same handlers.
LEMMA ManualRefines ==
  ASSUME IInv, NEW r \in Res, ManualStart(r) \/ ManualEnd(r)
  PROVE  Lifecycle!Next
  <1>1. HostOf[r] \in Hosts /\ UNCHANGED status
    BY HostFacts DEF ManualStart, ManualEnd
  <1>2. CASE ManualStart(r)
    <2>1. Lifecycle!Prepare(r, ByHand)
      BY <1>1, <1>2 DEF ManualStart, Lifecycle!Prepare
    <2> QED BY <2>1 DEF Lifecycle!Next
  <1>3. CASE ManualEnd(r)
    <2>1. Lifecycle!Release(r)
      BY <1>1, <1>3 DEF ManualEnd, Released, Lifecycle!Release
    <2> QED BY <2>1 DEF Lifecycle!Next
  <1> QED BY <1>2, <1>3

\* An update that changes anything activates a prepared reservation, or completes
\* a released one whose station is clean.
LEMMA UpdateRefines ==
  ASSUME IInv, ReleasedMapped, NEW b \in BOOLEAN, UpdateStatus(b)
  PROVE  [Lifecycle!Next]_Lifecycle!vars
  <1> DEFINE r == scan.cur
  <1>1. /\ r \in Res /\ Succeeded /\ scan.op \in Ops
        /\ UNCHANGED <<session, prepared, released>>
    BY DEF IInv, TypeOK, ScanType, DispatchOK, UpdateStatus, Succeeded
  <1>2. CASE status' = status
    BY <1>1, <1>2 DEF Lifecycle!vars
  <1>3. CASE Allowed(status[r], Target) /\ status' = [status EXCEPT ![r] = Target]
    <2>1. CASE scan.op = "start"
      <3>1. Target = "ACTIVE" /\ status[r] = "CONFIRMED" /\ r \in prepared
        BY <1>1, <1>3, <2>1 DEF Target, Allowed, IInv, DoneAsReported
      <3>2. Lifecycle!Activate(r)
        BY <1>1, <1>3, <3>1 DEF Lifecycle!Activate, Lifecycle!Move
      <3> QED BY <1>1, <3>2 DEF Lifecycle!Next
    <2>2. CASE scan.op = "end"
      <3>1. /\ Target = "COMPLETED" /\ status[r] \in {"CONFIRMED", "ACTIVE"}
            /\ r \in released
        BY <1>1, <1>3, <2>2 DEF Target, Allowed, IInv, DoneAsReported
      <3>2. r \in Mapped
        BY <3>1 DEF ReleasedMapped
      <3>3. HostOf[r] \in Hosts /\ session[HostOf[r]] # r
        BY <1>1, <2>2, <3>2, HostFacts DEF IInv, CleanSinceRelease
      <3>4. Lifecycle!Complete(r)
        BY <1>1, <1>3, <3>1, <3>3 DEF Lifecycle!Complete, Lifecycle!Move
      <3> QED BY <1>1, <3>4 DEF Lifecycle!Next
    <2> QED BY <1>1, <2>1, <2>2 DEF Ops
  <1> QED BY <1>2, <1>3, UpdateStep

\* The rest moves the projection as blockchain-services does, or nothing of it.
LEMMA OthersRefine ==
  ASSUME IInv,
         \/ \E r \in Res : \/ Advance(r) \/ StartLapses(r) \/ Confirm(r) \/ Cancel(r)
                           \/ DispatchStart(r) \/ DispatchEnd(r)
                           \/ \E op \in Ops : CooldownElapses(op, r)
         \/ \E b \in BOOLEAN : Wake(b) \/ RecordOp(b)
         \/ ScanOnce \/ ScanEnds \/ Crash \/ UNCHANGED vars
  PROVE  [Lifecycle!Next]_Lifecycle!vars
  <1>1. UNCHANGED <<session, prepared, released>>
    BY DEF Advance, StartLapses, Confirm, Cancel, DispatchStart, DispatchEnd, CooldownElapses,
           Wake, RecordOp, ScanOnce, ScanEnds, Crash, vars
  <1>2. ASSUME NEW r \in Res, Confirm(r) \/ Cancel(r)
        PROVE  Lifecycle!Next
    <2>1. Lifecycle!Confirm(r) \/ Lifecycle!Cancel(r)
      BY <1>1, <1>2 DEF Confirm, Cancel, Lifecycle!Confirm, Lifecycle!Cancel, Lifecycle!Move
    <2> QED BY <2>1 DEF Lifecycle!Next
  <1>3. CASE status' = status
    BY <1>1, <1>3 DEF Lifecycle!vars
  <1>4. status' = status \/ \E r \in Res : Confirm(r) \/ Cancel(r)
    BY DEF Advance, StartLapses, DispatchStart, DispatchEnd, CooldownElapses,
           Wake, RecordOp, ScanOnce, ScanEnds, Crash, vars
  <1> QED BY <1>2, <1>3, <1>4

\* The orchestrator implements the lifecycle, for every number of reservations and
\* every registry of hosts.
THEOREM ImplementsCorrect == Spec => ImplementsLifecycle
  <1>1. Init => Lifecycle!Init
    BY DEF Init, Lifecycle!Init
  <1>2. IInv /\ ReleasedMapped /\ [Next]_vars => [Lifecycle!Next]_Lifecycle!vars
    BY CommandRefines, ManualRefines, UpdateRefines, OthersRefine DEF Next
  <1>3. Init => ReleasedMapped
    BY DEF Init, ReleasedMapped
  <1> QED BY <1>1, <1>2, <1>3, ReleasedStep, Invariance, PTL DEF Spec, ImplementsLifecycle, Lifecycle!Spec
=============================================================================
