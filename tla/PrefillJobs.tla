----------------------------- MODULE PrefillJobs -----------------------------
(* PrefillJobStore (inference_engine/distributed/prefill_worker.py) on top of *)
(* the worker's snapshot cache: idempotent submission, a bounded queue, the   *)
(* executor threads that reserve, compute and publish, cancellation and       *)
(* deadlines that race them, and the collection of finished jobs.             *)
EXTENDS PrefixCache

CONSTANTS Request,   \* idempotency keys (tenant_id, request_id)
          ChainOf,   \* block hashes of a request's prompt
          Estimate,  \* estimate_final_snapshot_bytes of a request's prompt
          MaxJobs,   \* max_jobs
          Workers,   \* max_concurrent_jobs
          Exports    \* what engines return: the "final" snapshot, or "all" boundaries

ASSUME RequestAssumption == /\ ChainOf \in [Request -> Chains]
                            /\ Estimate \in [Request -> Nat \ {0}]
ASSUME QueueAssumption == MaxJobs \in Nat \ {0} /\ Workers \in Nat \ {0}
ASSUME ExportAssumption == Exports \in SUBSET {"final", "all"} \ {{}}

VARIABLES jobs,      \* _jobs, each with the place of its _run
          requests,  \* _requests
          queue      \* the executor's work queue

vars == <<cache, jobs, requests, queue>>

\* left counts the boundaries a publication has still to look at.
NoJob == [state |-> "none", pc |-> "none", req |-> None, cancelled |-> FALSE, acked |-> FALSE,
          left |-> 0]
Known == {j \in Job : jobs[j].state # "none"}
Ended == {"COMPLETED", "FAILED", "CANCELLED"}
Active(js) == {j \in Job : js[j].state \in {"QUEUED", "RUNNING"}}
Finished == {j \in Known : jobs[j].pc = "over"}  \* finished_at is set

Chain(j) == ChainOf[jobs[j].req]
Final(j) == Chain(j)[Len(Chain(j))]

\* A thread inside publish_and_lease's loop holds the lock of the cache.
Unlocked == \A j \in Job : jobs[j].pc # "boundaries"

\* No two jobs can both hold reservations and keep boundaries: there is one
\* executor thread, which is all start_prefill_worker_node.py accepts, or the
\* engines return final snapshots only.
OneWriter == Workers = 1 \/ "all" \notin Exports

-----------------------------------------------------------------------------
(* The public methods, each under _lock.                                     *)

\* _gc_locked: any finished jobs may have outlived their TTL; beyond that the
\* table is cut to twice max_jobs.  gone is what it collects.
Collected(gone) ==
  /\ gone \subseteq Finished
  /\ LET over == Cardinality(Known) - 2 * MaxJobs IN
     Cardinality(gone) >= Min({over, Cardinality(Finished)})

\* Seeded bug: a collected job leaves its idempotency key behind.
RequestsKept(gone) == requests

RequestsAfter(gone) == [q \in Request |-> IF requests[q] \in gone THEN None ELSE requests[q]]
JobsAfter(gone) == [j \in Job |-> IF j \in gone THEN NoJob ELSE jobs[j]]

\* A known key returns the existing job.
Resubmit == \E q \in Request, gone \in SUBSET Job :
              /\ Collected(gone) /\ requests[q] \notin gone \cup {None}
              /\ jobs' = JobsAfter(gone) /\ requests' = RequestsAfter(gone)
              /\ UNCHANGED <<cache, queue>>

submit == \E q \in Request, gone \in SUBSET Job, j \in Job :
            /\ Collected(gone) /\ requests[q] \in gone \cup {None}
            /\ Cardinality(Active(jobs)) < MaxJobs
            /\ Estimate[q] <= cache.max
            /\ j \in gone \/ jobs[j] = NoJob
            /\ cache.leases[j] = NoLease  \* a fresh id has no lease yet
            /\ jobs' = [JobsAfter(gone) EXCEPT ![j] = [NoJob EXCEPT
                          !.state = "QUEUED", !.pc = "queued", !.req = q]]
            /\ requests' = [RequestsAfter(gone) EXCEPT ![q] = j]
            /\ queue' = Append(queue, j)
            /\ UNCHANGED cache

get == \E gone \in SUBSET Job : /\ gone # {} /\ Collected(gone)
                                /\ jobs' = JobsAfter(gone) /\ requests' = RequestsAfter(gone)
                                /\ UNCHANGED <<cache, queue>>

\* A future still queued is cancelled outright, and the executor will skip it;
\* a running one is told.
cancel == \E gone \in SUBSET Job : \E j \in Known \ gone :
            /\ Collected(gone) /\ jobs[j].state \notin Ended
            /\ LET told == [jobs[j] EXCEPT !.cancelled = TRUE, !.acked = TRUE]
                   queued == jobs[j].pc = "queued"
               IN /\ queued => Unlocked
                  /\ jobs' = [JobsAfter(gone) EXCEPT ![j] =
                               IF queued THEN [told EXCEPT !.state = "CANCELLED", !.pc = "over"]
                               ELSE told]
                  /\ cache' = IF queued THEN Release(cache, j) ELSE cache
                  /\ queue' = IF queued THEN Dropping(queue, {j}) ELSE queue
            /\ requests' = RequestsAfter(gone)

-----------------------------------------------------------------------------
(* _run, on an executor thread.                                              *)

At(j, pc) == jobs[j].pc = pc
Step(j, pc) == jobs' = [jobs EXCEPT ![j].pc = pc]
End(j, state) == jobs' = [jobs EXCEPT ![j].state = state, ![j].pc = "finally"]

Busy == {k \in Job : jobs[k].pc \notin {"none", "queued", "over"}}

\* Seeded bug: the executor serves the newest future first.
PickUpNewest(j) ==
  /\ At(j, "queued") /\ Step(j, "picked") /\ Cardinality(Busy) < Workers
  /\ queue # <<>> /\ j = queue[Len(queue)] /\ queue' = Dropping(queue, {j})
  /\ UNCHANGED <<cache, requests>>

\* A free executor thread takes the oldest future; from here future.cancel()
\* fails.
PickUp(j) == /\ At(j, "queued") /\ Step(j, "picked") /\ Cardinality(Busy) < Workers
             /\ queue # <<>> /\ j = Head(queue) /\ queue' = Tail(queue)
             /\ UNCHANGED <<cache, requests>>

Begin(j) == /\ At(j, "picked")
            /\ jobs' = IF jobs[j].cancelled
                       THEN [jobs EXCEPT ![j].state = "CANCELLED", ![j].pc = "over"]
                       ELSE [jobs EXCEPT ![j].state = "RUNNING", ![j].pc = "reserve"]
            /\ jobs[j].cancelled => Unlocked
            /\ cache' = IF jobs[j].cancelled THEN Release(cache, j) ELSE cache
            /\ UNCHANGED <<requests, queue>>

\* The deadline, passed at the start or by the timer later.
DeadlinePasses(j) == /\ jobs[j].state = "RUNNING" /\ ~jobs[j].cancelled
                     /\ jobs' = [jobs EXCEPT ![j].cancelled = TRUE]
                     /\ UNCHANGED <<cache, requests, queue>>

ReserveCapacity(j) ==
  /\ At(j, "reserve") /\ Unlocked
  /\ cache' = Reserve(cache, j, Estimate[jobs[j].req])
  /\ IF cache'.res[j] > 0 THEN Step(j, "compute") ELSE End(j, "FAILED")
  /\ UNCHANGED <<requests, queue>>

compute_prefill(j) == /\ At(j, "compute")
                      /\ IF jobs[j].cancelled THEN End(j, "CANCELLED") ELSE Step(j, "publish")
                      /\ UNCHANGED <<cache, requests, queue>>

EngineFails(j) == /\ At(j, "compute") /\ End(j, "FAILED")
                  /\ UNCHANGED <<cache, requests, queue>>

\* publish_and_lease; a refusal for capacity has already evicted.  With all the
\* boundaries at hand it goes on to the loop over them, the longest first.
Publish(j) ==
  /\ At(j, "publish") /\ Unlocked
  /\ \E p \in Payload :
       IF Size[Final(j)] > cache.res[j] THEN End(j, "FAILED") /\ UNCHANGED cache
       ELSE IF ~Publishable(cache, j, Final(j)) \/ Collides(Cleared(cache, Final(j)), Final(j), p)
       THEN End(j, "FAILED") /\ cache' = Cleared(cache, Final(j))
       ELSE /\ cache' = PublishAndLease(cache, j, Final(j), p)
            /\ \/ /\ "final" \in Exports \/ Len(Chain(j)) = 1
                  /\ Step(j, "complete")
               \/ /\ "all" \in Exports /\ Len(Chain(j)) > 1
                  /\ jobs' = [jobs EXCEPT ![j].pc = "boundaries", ![j].left = Len(Chain(j)) - 1]
  /\ UNCHANGED <<requests, queue>>

\* A block that collides fails the job, whose final snapshot stays published.
Boundary(j) ==
  /\ At(j, "boundaries")
  /\ LET h == Chain(j)[jobs[j].left] IN \E p \in Payload :
       IF Size[h] + cache.used <= cache.max /\ Collides(cache, h, p)
       THEN End(j, "FAILED") /\ UNCHANGED cache
       ELSE /\ cache' = KeepBoundary(cache, h, p)
            /\ jobs' = [jobs EXCEPT ![j].left = @ - 1,
                                    ![j].pc = IF jobs[j].left = 1 THEN "complete" ELSE @]
  /\ UNCHANGED <<requests, queue>>

\* Seeded bug: the last test of the cancel event is not under the lock.
CompleteUnchecked(j) == /\ At(j, "complete") /\ End(j, "COMPLETED")
                        /\ UNCHANGED <<cache, requests, queue>>

Complete(j) == /\ At(j, "complete")
               /\ End(j, IF jobs[j].cancelled THEN "CANCELLED" ELSE "COMPLETED")
               /\ UNCHANGED <<cache, requests, queue>>

\* Seeded bug: the finally block keeps the reservation.
FinallyKeepsReservation(j) == At(j, "finally") /\ Step(j, "over") /\ UNCHANGED <<cache, requests, queue>>

Finally(j) == /\ At(j, "finally") /\ Step(j, "over") /\ Unlocked
              /\ cache' = Release(cache, j) /\ UNCHANGED <<requests, queue>>

-----------------------------------------------------------------------------
Init == /\ CacheInit /\ jobs = [j \in Job |-> NoJob]
        /\ requests = [q \in Request |-> None] /\ queue = <<>>

Run(j) == \/ PickUp(j) \/ Begin(j) \/ ReserveCapacity(j) \/ compute_prefill(j)
          \/ EngineFails(j) \/ Publish(j) \/ Boundary(j) \/ Complete(j) \/ Finally(j)

Next == \/ submit \/ Resubmit \/ get \/ cancel
        \/ \E j \in Job : Run(j) \/ DeadlinePasses(j)
        \/ Unlocked /\ CacheCalls /\ UNCHANGED <<jobs, requests, queue>>

Spec == Init /\ [][Next]_vars

\* A free executor thread takes the oldest future, and the engine's compute
\* returns.
FairSpec == Spec /\ \A j \in Job : WF_vars(Run(j))

-----------------------------------------------------------------------------
Pcs == {"none", "queued", "picked", "reserve", "compute", "publish", "boundaries",
        "complete", "finally", "over"}

\* Every variable has its type.
TypeOK ==
  /\ cache.max \in Nat /\ cache.used \in Nat /\ cache.lru \in Seq(Hash)
  /\ cache.content \in [Hash -> Payload \cup {None}] /\ cache.res \in [Job -> Nat]
  /\ cache.leases \in [LeaseIds -> [h : Hash \cup {None}, live : BOOLEAN]]
  /\ jobs \in [Job -> [state : Ended \cup {"none", "QUEUED", "RUNNING"}, pc : Pcs,
                       req : Request \cup {None}, cancelled : BOOLEAN, acked : BOOLEAN,
                       left : Nat]]
  /\ requests \in [Request -> Job \cup {None}] /\ queue \in Seq(Job)

\* submit's lookup of an idempotency key always finds its job, and a job in
\* the table is found by its key: retries neither crash nor compute twice.
RequestsFindTheirJobs ==
  /\ \A q \in Request : requests[q] # None => jobs[requests[q]].req = q
  /\ \A j \in Known : requests[jobs[j].req] = j

\* A cancel that was acknowledged is final: the job is never reported
\* COMPLETED, however late in its publication the cancel came.
CancelIsFinal == \A j \in Known : jobs[j].acked => jobs[j].state # "COMPLETED"

\* Only a job that is still running holds cache capacity.
NoLeakedReservation ==
  \A j \in Job : cache.res[j] > 0 => jobs[j].state = "RUNNING" \/ jobs[j].pc = "finally"

\* Every submitted job is eventually completed, failed or cancelled, those that
\* queue behind others for the executor's only thread included.
JobsEnd == \A j \in Job : jobs[j].state = "QUEUED" ~> jobs[j].state \in Ended \cup {"none"}
=============================================================================
