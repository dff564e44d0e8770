---------------------------- MODULE MemoryGovernor ----------------------------
(* PrimaryMemoryGovernor (server/runtime_health.py) and the SessionStore      *)
(* operations it meets: admission on the event loop, removals with their hook *)
(* on the loop and in worker threads, and the samples taken by the monitor    *)
(* task and the health endpoint.  Two locks are involved: the store's, which  *)
(* is re-entrant and held through the removal hook, and the governor's, held  *)
(* through a sample, which asks the store for its counts.                     *)
EXTENDS Naturals

CONSTANTS Loop,       \* the event-loop thread
          Worker,     \* threads of append and generation coordinators
          Sampler,    \* threads of the monitor task and of health requests
          Monitor,    \* the sampler that is the monitor task
          Isolated,   \* TRUE: memory is reported by the decode worker
          None,       \* no owner
          Capacity,   \* SessionStore capacity
          Warning, Drain, Unhealthy,  \* thresholds
          MaxPressure \* bound: highest memory pressure considered

ASSUME ThresholdAssumption == /\ {Warning, Drain, Unhealthy, MaxPressure} \subseteq Nat
                              /\ Warning < Drain /\ Drain < Unhealthy
ASSUME StoreAssumption == Capacity \in Nat \ {0}
ASSUME ThreadAssumption == /\ None \notin {Loop} \cup Worker \cup Sampler
                           /\ Sampler \cap ({Loop} \cup Worker) = {}
                           /\ Monitor \in Sampler
ASSUME ModeAssumption == Isolated \in BOOLEAN

VARIABLES store,     \* owner of SessionStore._lock
          gov,       \* owner of PrimaryMemoryGovernor._lock
          active,    \* sessions in the store
          pressure,  \* what the memory providers would report now
          last,      \* level of the last sample
          th         \* per thread: where it is and the sample it holds

vars == <<store, gov, active, pressure, last, th>>

Thread == {Loop} \cup Worker \cup Sampler
Level(p) == CASE p >= Unhealthy -> "unhealthy" [] p >= Drain -> "drain"
              [] p >= Warning -> "warning" [] OTHER -> "ok"

\* admit: a create_session waits to insert its session; again: the sample is
\* the one after the cleanup.
Idle == [pc |-> "idle", admit |-> FALSE, again |-> FALSE, level |-> "ok", n |-> 0]

At(t, pc) == th[t].pc = pc
Goto(t, pc) == th' = [th EXCEPT ![t].pc = pc]
Free(lock, t) == lock \in {None, t}

-----------------------------------------------------------------------------
(* Sessions come and go.                                                     *)

\* CreateSession tests draining under the governor's lock.
CreateSession == /\ At(Loop, "idle") /\ gov = None
                 /\ Goto(Loop, IF last \in {"drain", "unhealthy"} THEN "idle" ELSE "create")
                 /\ UNCHANGED <<store, gov, active, pressure, last>>

\* Seeded bug: the capacity test is off by one.
CreateOverCapacity ==
  /\ At(Loop, "create") /\ store = None
  /\ IF active > Capacity
     THEN /\ th' = [th EXCEPT ![Loop].pc = "hook", ![Loop].admit = TRUE]
          /\ store' = Loop /\ active' = active - 1
     ELSE Goto(Loop, "idle") /\ active' = active + 1 /\ UNCHANGED store
  /\ UNCHANGED <<gov, pressure, last>>

\* create_session: at capacity one session is removed first, with its hook.
create_session ==
  /\ At(Loop, "create") /\ store = None
  /\ IF active >= Capacity
     THEN /\ th' = [th EXCEPT ![Loop].pc = "hook", ![Loop].admit = TRUE]
          /\ store' = Loop /\ active' = active - 1
     ELSE Goto(Loop, "idle") /\ active' = active + 1 /\ UNCHANGED store
  /\ UNCHANGED <<gov, pressure, last>>

\* Seeded bug: the store's lock is dropped before the hook runs.
RemoveUnlocked(t) ==
  /\ t \notin Sampler /\ At(t, "idle") /\ store = None /\ active > 0
  /\ Goto(t, "hook") /\ active' = active - 1
  /\ UNCHANGED <<store, gov, pressure, last>>

\* _remove_session from CloseSession, a cancel or a failed invariant; the
\* store's lock is kept through the hook.
Remove(t) == /\ t \notin Sampler /\ At(t, "idle") /\ store = None /\ active > 0
             /\ store' = t /\ active' = active - 1 /\ Goto(t, "hook")
             /\ UNCHANGED <<gov, pressure, last>>

\* The removing call returns and releases the store's lock.
Return(t) == /\ At(t, "return")
             /\ active' = IF th[t].admit THEN active + 1 ELSE active
             /\ store' = IF store = t THEN None ELSE store
             /\ th' = [th EXCEPT ![t] = Idle]
             /\ UNCHANGED <<gov, pressure, last>>

-----------------------------------------------------------------------------
(* sample, one step per lock operation.                                      *)

Sampling(t) == At(t, "hook") \/ (t \in Sampler /\ At(t, "idle"))

BeginSample(t) == /\ Sampling(t) /\ gov = None /\ gov' = t
                  /\ th' = [th EXCEPT ![t].pc = "count", ![t].level = Level(pressure)]
                  /\ UNCHANGED <<store, active, pressure, last>>

\* The decode worker does not answer: the sample raises.  It ends the monitor
\* task and a health request, and unwinds a removal (and the admission behind
\* it) that has already dropped its session.
SampleFails(t) == /\ Isolated /\ Sampling(t) /\ gov = None
                  /\ th' = [th EXCEPT ![t] = IF t = Monitor THEN [Idle EXCEPT !.pc = "dead"] ELSE Idle]
                  /\ store' = IF store = t THEN None ELSE store
                  /\ UNCHANGED <<gov, active, pressure, last>>

active_count(t) == /\ At(t, "count") /\ Free(store, t)
                   /\ th' = [th EXCEPT ![t].pc = "bytes", ![t].n = active]
                   /\ UNCHANGED <<store, gov, active, pressure, last>>

\* Seeded bug: the snapshot is published only when the level has gone up.
EndSampleLatched(t) ==
  /\ At(t, "bytes") /\ Free(store, t)
  /\ gov' = None /\ last' = IF th[t].level = "ok" THEN last ELSE th[t].level
  /\ IF t \in Sampler THEN th' = [th EXCEPT ![t] = Idle]
     ELSE Goto(t, IF th[t].again THEN "return" ELSE "decide")
  /\ UNCHANGED <<store, active, pressure>>

\* total_kv_live_bytes, then the snapshot is published.
EndSample(t) ==
  /\ At(t, "bytes") /\ Free(store, t)
  /\ gov' = None /\ last' = th[t].level
  /\ IF t \in Sampler THEN th' = [th EXCEPT ![t] = Idle]
     ELSE Goto(t, IF th[t].again THEN "return" ELSE "decide")
  /\ UNCHANGED <<store, active, pressure>>

-----------------------------------------------------------------------------
(* on_session_removed after its first sample.                                *)

Decide(t) == /\ At(t, "decide")
             /\ Goto(t, IF th[t].n > 0 \/ th[t].level = "ok" THEN "return" ELSE "reset")
             /\ UNCHANGED <<store, gov, active, pressure, last>>

\* verifier.reset(), garbage collection, clear_cache, and the second sample.
Cleanup(t) == /\ At(t, "reset")
              /\ th' = [th EXCEPT ![t] = [@ EXCEPT !.pc = "hook", !.again = TRUE]]
              /\ pressure' \in 0..pressure
              /\ UNCHANGED <<store, gov, active, last>>

-----------------------------------------------------------------------------
\* Models run, load and free memory.
PressureChanges == /\ pressure' \in 0..MaxPressure
                   /\ UNCHANGED <<store, gov, active, last, th>>

Init == /\ store = None /\ gov = None /\ active = 0 /\ pressure \in 0..MaxPressure
        /\ last = Level(pressure) /\ th = [t \in Thread |-> Idle]

Advance(t) == \/ Return(t) \/ BeginSample(t) \/ active_count(t) \/ EndSample(t)
              \/ Decide(t) \/ Cleanup(t)

Next == \/ CreateSession \/ create_session \/ PressureChanges
        \/ \E t \in Thread : Remove(t) \/ Advance(t) \/ SampleFails(t)

Spec == Init /\ [][Next]_vars

\* A thread that can go on is scheduled, and a contended lock is handed to each
\* waiter in the end.
FairSpec == Spec /\ \A t \in Thread : SF_vars(Advance(t))

-----------------------------------------------------------------------------
Pcs == {"idle", "create", "hook", "count", "bytes", "decide", "reset", "return", "dead"}
Levels == {"ok", "warning", "drain", "unhealthy"}

\* Every variable has its type, and the store stays within its capacity.
TypeOK ==
  /\ store \in Thread \cup {None} /\ gov \in Thread \cup {None}
  /\ active \in 0..Capacity /\ pressure \in 0..MaxPressure /\ last \in Levels
  /\ th \in [Thread -> [pc : Pcs, admit : BOOLEAN, again : BOOLEAN, level : Levels,
                        n : 0..Capacity]]

\* The verifier is reset only when no session is left that could own its
\* cache, although the count it decides on was read two locks earlier.
ResetOnlyWhenEmpty == \A t \in Thread : At(t, "reset") => active = 0

\* The monitor has the governor's lock and waits for the store's, whose owner
\* waits for the governor's.
Deadlocked == gov \in Sampler /\ store # None /\ At(store, "hook")

\* A drain is lifted once the memory is free again, although admission reads
\* only the last sample: unless the pressure is back, the monitor has died of
\* a failed sample, or the two locks have stopped it.
AdmissionResumes ==
  last \in {"drain", "unhealthy"}
     ~> last \notin {"drain", "unhealthy"} \/ pressure >= Drain \/ At(Monitor, "dead") \/ Deadlocked

\* "When the final active session is removed under memory pressure, cleanup
\* runs": a removal gets through its hook and returns.
RemovalsFinish == \A t \in Thread \ Sampler : At(t, "hook") ~> At(t, "idle")
===============================================================================
