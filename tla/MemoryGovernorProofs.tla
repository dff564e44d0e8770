------------------------- MODULE MemoryGovernorProofs -------------------------
(* TypeOK and ResetOnlyWhenEmpty of MemoryGovernor for any threads, capacity  *)
(* and thresholds.  The argument: a removing thread owns the store's lock     *)
(* from the removal to its return, only an owner changes the number of        *)
(* sessions, so the count a removal reads is still true when it decides.      *)
EXTENDS MemoryGovernor, TLAPS

Removing == {"hook", "count", "bytes", "decide", "reset", "return"}

\* A thread past a removal owns the store's lock.
LockHeld == \A t \in Thread \ Sampler : th[t].pc \in Removing => store = t

\* A sampler only samples, and a worker never admits.
Roles == \A t \in Thread : /\ t \in Sampler => th[t].pc \in {"idle", "count", "bytes", "dead"}
                           /\ At(t, "create") => t = Loop

\* A pending admission has a place left.
PlaceLeft == \A t \in Thread : th[t].admit =>
                /\ t \notin Sampler /\ th[t].pc \in Removing /\ active < Capacity

\* The count a removal has read is the number of sessions there are.
CountIsCurrent == \A t \in Thread \ Sampler :
                    /\ th[t].pc \in {"bytes", "decide"} => th[t].n = active
                    /\ At(t, "reset") => active = 0

IInv == TypeOK /\ LockHeld /\ Roles /\ PlaceLeft /\ CountIsCurrent

\* Every pressure has a level.
LEMMA LevelType == ASSUME NEW p \in 0..MaxPressure PROVE Level(p) \in Levels
BY ThresholdAssumption DEF Level, Levels

\* At start no thread is under way and no session exists.
LEMMA InitIInv == Init => IInv
BY LevelType, StoreAssumption
DEF Init, IInv, TypeOK, LockHeld, Roles, PlaceLeft, CountIsCurrent, Idle, At, Pcs, Levels,
    Removing

\* Every step of every thread keeps the invariant.
LEMMA NextIInv == IInv /\ [Next]_vars => IInv'
<1> SUFFICES ASSUME IInv, [Next]_vars PROVE IInv'
  OBVIOUS
<1> USE StoreAssumption, ThreadAssumption
    DEF IInv, TypeOK, LockHeld, Roles, PlaceLeft, CountIsCurrent, At, Goto, Pcs, Removing,
        Thread
<1>1. CASE CreateSession
  BY <1>1 DEF CreateSession
<1>2. CASE create_session
  BY <1>2 DEF create_session
<1>3. CASE PressureChanges
  BY <1>3 DEF PressureChanges
<1>4. ASSUME NEW t \in Thread, Remove(t) PROVE IInv'
  BY <1>4 DEF Remove
<1>5. ASSUME NEW t \in Thread, Return(t) PROVE IInv'
  BY <1>5 DEF Return, Idle, Levels
<1>6. ASSUME NEW t \in Thread, BeginSample(t) PROVE IInv'
  <2>1. TypeOK'
    BY <1>6, LevelType DEF BeginSample, Sampling
  <2>2. LockHeld' /\ Roles'
    BY <1>6, LevelType DEF BeginSample, Sampling
  <2>3. PlaceLeft' /\ CountIsCurrent'
    BY <1>6, LevelType DEF BeginSample, Sampling
  <2> QED
    BY <2>1, <2>2, <2>3
<1>7. ASSUME NEW t \in Thread, active_count(t) PROVE IInv'
  BY <1>7 DEF active_count, Free
<1>8. ASSUME NEW t \in Thread, EndSample(t) PROVE IInv'
  <2>1. TypeOK'
    <3>1. last' \in Levels
      BY <1>8 DEF EndSample
    <3>2. CASE t \in Sampler
      <4>1. Idle \in [pc : Pcs, admit : BOOLEAN, again : BOOLEAN, level : Levels,
                      n : 0..Capacity]
        BY DEF Idle, Levels
      <4> QED
        BY <1>8, <3>1, <3>2, <4>1 DEF EndSample
    <3>3. CASE t \notin Sampler
      BY <1>8, <3>1, <3>3 DEF EndSample
    <3> QED
      BY <3>2, <3>3
  <2>2. LockHeld' /\ Roles'
    BY <1>8 DEF EndSample, Idle, Free, Levels
  <2>3. PlaceLeft' /\ CountIsCurrent'
    BY <1>8 DEF EndSample, Idle, Free, Levels
  <2> QED
    BY <2>1, <2>2, <2>3
<1>9. ASSUME NEW t \in Thread, Decide(t) PROVE IInv'
  BY <1>9 DEF Decide
<1>10. ASSUME NEW t \in Thread, Cleanup(t) PROVE IInv'
  <2>1. pressure' \in 0..MaxPressure
    BY <1>10, ThresholdAssumption DEF Cleanup
  <2>2. TypeOK'
    <3> DEFINE Local == [pc : Pcs, admit : BOOLEAN, again : BOOLEAN, level : Levels,
                         n : 0..Capacity]
               new == [th[t] EXCEPT !.pc = "hook", !.again = TRUE]
    <3>0. th[t] \in Local /\ "hook" \in Pcs
      OBVIOUS
    <3>1. new \in Local
      <4> HIDE DEF Pcs
      <4> QED
        BY <3>0
    <3>2. th' = [th EXCEPT ![t] = new]
      BY <1>10 DEF Cleanup
    <3>3. th' \in [Thread -> Local]
      BY <3>1, <3>2
    <3> QED
      BY <1>10, <2>1, <3>3 DEF Cleanup
  <2>3. LockHeld' /\ Roles'
    BY <1>10 DEF Cleanup
  <2>4. PlaceLeft' /\ CountIsCurrent'
    BY <1>10 DEF Cleanup
  <2> QED
    BY <2>2, <2>3, <2>4
<1>11. ASSUME NEW t \in Thread, SampleFails(t) PROVE IInv'
  <2> DEFINE Local == [pc : Pcs, admit : BOOLEAN, again : BOOLEAN, level : Levels,
                       n : 0..Capacity]
             new == IF t = Monitor THEN [Idle EXCEPT !.pc = "dead"] ELSE Idle
  <2>1. new \in Local /\ new.pc \in {"idle", "dead"} /\ new.admit = FALSE
    <3>1. CASE t = Monitor
      <4>1. new = [pc |-> "dead", admit |-> FALSE, again |-> FALSE, level |-> "ok", n |-> 0]
        BY <3>1 DEF Idle
      <4> HIDE DEF new
      <4> QED
        BY <4>1 DEF Levels
    <3>2. CASE t # Monitor
      BY <3>2 DEF Idle, Levels
    <3> QED
      BY <3>1, <3>2
  <2>2. th' = [th EXCEPT ![t] = new]
    BY <1>11 DEF SampleFails
  <2> HIDE DEF new
  <2>3. TypeOK'
    <3>1. th' \in [Thread -> Local]
      BY <2>1, <2>2
    <3> QED
      BY <1>11, <3>1 DEF SampleFails
  <2>4. LockHeld'
    BY <1>11, <2>1, <2>2 DEF SampleFails
  <2>5. Roles' /\ PlaceLeft' /\ CountIsCurrent'
    BY <1>11, <2>1, <2>2 DEF SampleFails, Sampling
  <2> QED
    BY <2>3, <2>4, <2>5
<1>12. CASE UNCHANGED vars
  BY <1>12 DEF vars
<1> QED
  BY <1>1, <1>2, <1>3, <1>4, <1>5, <1>6, <1>7, <1>8, <1>9, <1>10, <1>11, <1>12
  DEF Next, Advance

\* The invariant holds of every state the governor and the store reach.
LEMMA Inductive == Spec => []IInv
BY InitIInv, NextIInv, PTL DEF Spec

\* Every variable keeps its type and the store its capacity.
THEOREM GovernorTypeCorrect == Spec => []TypeOK
BY Inductive, PTL DEF IInv

\* The verifier is reset only when the store is empty: a session admitted after
\* the count was read cannot lose its cache to the cleanup.
THEOREM CleanupIsSafe == Spec => []ResetOnlyWhenEmpty
<1>1. IInv => ResetOnlyWhenEmpty
  BY DEF IInv, Roles, CountIsCurrent, ResetOnlyWhenEmpty, At
<1> QED
  BY <1>1, Inductive, PTL
===============================================================================
