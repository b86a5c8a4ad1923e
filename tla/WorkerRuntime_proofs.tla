-------------------------- MODULE WorkerRuntime_proofs --------------------------
(***************************************************************************)
(* Theorems about the worker runtime.  Whatever run_once, its threads and  *)
(* the faults do, a step of the runtime is a step of the analysis-job      *)
(* service or leaves the service alone; so the runtime implements the      *)
(* service and inherits its invariant.                                     *)
(***************************************************************************)
EXTENDS WorkerRuntime, JobsLifecycle_proofs

\* A frame that publishes or finalizes has a result worth finalizing: the other
\* outcomes have left run_once by the branches before.
Publishing == {"publish", "published", "finalize"}
Frames == {f \in Worker : f.pc \in Publishing => f.outcome \in Finished}

RuntimeInv ==
    /\ JobsInv
    /\ RuntimeTypeOK
    /\ worker \in [Workers -> Frames]

Running == {"work", "returned", "branch", "publish", "published", "finalize",
            "ack", "fail", "discard", "raised", "leave", "escape"}

LEMMA BusyIsRunning ==
    ASSUME RuntimeTypeOK, NEW w \in Workers
    PROVE  /\ Busy(w) <=> worker[w].pc \in Running
           /\ Busy(w) <=> client[w].pc = "held"
  BY DEF RuntimeTypeOK, Busy, Idle, Running, Worker

\* A busy worker's keys lie in the keyspace of its run.
LEMMA KeyType ==
    ASSUME RuntimeInv, NEW w \in Workers, Busy(w), NEW a \in Artifacts
    PROVE  KeyOf(w, a) \in Keyspace
  <1>1. client[w].run \in Runs
    BY BusyIsRunning DEF RuntimeInv, JobsInv, HeldRuns
  <1>2. worker[w].attempt \in Nat
    BY DEF RuntimeInv, RuntimeTypeOK, Worker
  <1> QED
    BY <1>1, <1>2 DEF KeyOf, ObjectKey, Keyspace

\* A step inside the frame: the service is not called.
LEMMA LocalStep ==
    ASSUME RuntimeInv, UNCHANGED vars, NEW w \in Workers, NEW f \in Frames,
           worker' = [worker EXCEPT ![w] = f],
           f.pc \in Running <=> Busy(w),
           objects' \subseteq Keyspace, bundle' \in [Runs -> SUBSET Keyspace]
    PROVE  [Next]_vars /\ RuntimeInv'
  <1>1. UNCHANGED client /\ TypeOK'
    <2>1. TypeOK /\ HeldRuns
      BY DEF RuntimeInv, JobsInv
    <2>2. [Next]_vars
      OBVIOUS
    <2> QED
      BY <2>1, <2>2, TypeNext DEF vars, clientVars
  <1>2. worker' \in [Workers -> Worker] /\ worker' \in [Workers -> Frames]
    BY DEF RuntimeInv, RuntimeTypeOK, Frames
  <1>3. ASSUME NEW v \in Workers PROVE Busy(v)' <=> client'[v].pc = "held"
    <2>1. Busy(v) <=> client[v].pc = "held"
      BY BusyIsRunning DEF RuntimeInv
    <2>2. worker'[v] = IF v = w THEN f ELSE worker[v]
      BY DEF RuntimeInv, RuntimeTypeOK
    <2>3. Busy(w)' <=> f.pc \in Running
      <3>1. worker'[w] = f
        BY DEF RuntimeInv, RuntimeTypeOK
      <3> QED
        BY <3>1 DEF Busy, Idle, Running, Worker, Frames
    <2> QED
      BY <1>1, <2>1, <2>2, <2>3 DEF Busy
  <1>4. JobsInv'
    BY JobsNext DEF RuntimeInv
  <1> QED
    BY <1>1, <1>2, <1>3, <1>4 DEF RuntimeInv, RuntimeTypeOK

\* A step that calls the service: `held` says whether the client holds the run
\* afterwards.
LEMMA ServiceStep ==
    ASSUME RuntimeInv, Next, NEW w \in Workers, NEW f \in Frames,
           worker' = [worker EXCEPT ![w] = f],
           f.pc \in Running <=> client'[w].pc = "held",
           \A v \in Workers \ {w} : client'[v].pc = client[v].pc,
           objects' \subseteq Keyspace, bundle' \in [Runs -> SUBSET Keyspace]
    PROVE  [Next]_vars /\ RuntimeInv'
  <1>1. TypeOK'
    BY TypeNext DEF RuntimeInv, JobsInv
  <1>2. worker' \in [Workers -> Worker] /\ worker' \in [Workers -> Frames]
    BY DEF RuntimeInv, RuntimeTypeOK, Frames
  <1>3. ASSUME NEW v \in Workers PROVE Busy(v)' <=> client'[v].pc = "held"
    <2>1. Busy(v) <=> client[v].pc = "held"
      BY BusyIsRunning DEF RuntimeInv
    <2>2. worker'[v] = IF v = w THEN f ELSE worker[v]
      BY DEF RuntimeInv, RuntimeTypeOK
    <2> QED
      BY <2>1, <2>2 DEF Busy, Idle, Running, Worker, Frames
  <1>4. JobsInv'
    BY JobsNext DEF RuntimeInv
  <1> QED
    BY <1>1, <1>2, <1>3, <1>4 DEF RuntimeInv, RuntimeTypeOK

LEMMA GotoStep ==
    ASSUME RuntimeInv, UNCHANGED <<vars, bundle>>, NEW w \in Workers, Busy(w),
           NEW l \in Running, Goto(w, l),
           l \in Publishing => worker[w].outcome \in Finished, objects' \subseteq Keyspace
    PROVE  [Next]_vars /\ RuntimeInv'
  <1> DEFINE f == [worker[w] EXCEPT !.pc = l]
  <1>1. f \in Frames /\ f.pc \in Running
    BY DEF RuntimeInv, RuntimeTypeOK, Worker, Running, Frames, Publishing
  <1>2. worker' = [worker EXCEPT ![w] = f]
    BY DEF Goto
  <1>3. bundle' \in [Runs -> SUBSET Keyspace]
    BY DEF RuntimeInv, RuntimeTypeOK
  <1> HIDE DEF f
  <1> QED
    BY <1>1, <1>2, <1>3, LocalStep

LEMMA DiscardStep ==
    ASSUME RuntimeInv, UNCHANGED <<vars, bundle>>, NEW w \in Workers, Busy(w),
           NEW l \in {"leave", "raised"}, DiscardThen(w, l), objects' \subseteq Keyspace
    PROVE  [Next]_vars /\ RuntimeInv'
  <1> DEFINE f == [worker[w] EXCEPT !.pc = "discard", !.then = l]
  <1>1. f \in Frames /\ f.pc \in Running
    BY DEF RuntimeInv, RuntimeTypeOK, Worker, Running, Frames, Publishing
  <1>2. worker' = [worker EXCEPT ![w] = f]
    BY DEF DiscardThen
  <1>3. bundle' \in [Runs -> SUBSET Keyspace]
    BY DEF RuntimeInv, RuntimeTypeOK
  <1> HIDE DEF f
  <1> QED
    BY <1>1, <1>2, <1>3, LocalStep

\* The steps of run_once and of its threads that do not call the service.
LEMMA FrameSteps ==
    ASSUME RuntimeInv, NEW w \in Workers,
           \/ \E o \in Outcomes : ProcessorReturns(w, o)
           \/ ProcessorRaises(w) \/ AbandonReturned(w)
           \/ \E a \in Artifacts : PutArtifact(w, a)
           \/ PublicationFails(w) \/ AllPut(w) \/ AbandonPublished(w)
           \/ FinalizeRejected(w)
           \/ Unwind(w) \/ TransitionRejected(w)
           \/ \E k \in worker[w].staged : DiscardOne(w, k)
           \/ Discarded(w)
           \/ RenewFails(w) \/ WatchCancel(w)
    PROVE  [Next]_vars /\ RuntimeInv'
  <1>0. /\ worker \in [Workers -> Worker] /\ worker[w] \in Worker /\ worker[w] \in Frames
        /\ objects \subseteq Keyspace /\ bundle \in [Runs -> SUBSET Keyspace]
    BY DEF RuntimeInv, RuntimeTypeOK
  <1>b. Busy(w) <=> worker[w].pc \in Running
    BY BusyIsRunning DEF RuntimeInv
  <1>1. ASSUME NEW o \in Outcomes, ProcessorReturns(w, o) PROVE [Next]_vars /\ RuntimeInv'
    <2> DEFINE f == [worker[w] EXCEPT !.pc = "returned", !.outcome = o]
    <2>1. f \in Frames /\ f.pc \in Running /\ Busy(w)
      BY <1>0, <1>1, <1>b, RuntimeAssumption DEF Worker, Running, Frames, Publishing, ProcessorReturns, At
    <2>2. worker' = [worker EXCEPT ![w] = f]
      BY <1>1 DEF ProcessorReturns
    <2> HIDE DEF f
    <2> QED
      BY <1>0, <1>1, <2>1, <2>2, LocalStep DEF ProcessorReturns
  <1>2. ASSUME AllPut(w) PROVE [Next]_vars /\ RuntimeInv'
    BY <1>0, <1>2, <1>b, GotoStep DEF AllPut, At, Running, Frames, Publishing
  <1>3. ASSUME ProcessorRaises(w) \/ AbandonReturned(w) \/ AbandonPublished(w)
               \/ FinalizeRejected(w)
        PROVE  [Next]_vars /\ RuntimeInv'
    <2>1. worker[w].pc \in Running /\ UNCHANGED <<vars, objects, bundle>>
      BY <1>3 DEF ProcessorRaises, AbandonReturned, AbandonPublished, FinalizeRejected, At,
         Running
    <2>2. DiscardThen(w, "leave") \/ DiscardThen(w, "raised")
      BY <1>3 DEF ProcessorRaises, AbandonReturned, AbandonPublished, FinalizeRejected
    <2> QED
      BY <1>0, <1>b, <2>1, <2>2, DiscardStep
  <1>5. ASSUME NEW a \in Artifacts, PutArtifact(w, a) PROVE [Next]_vars /\ RuntimeInv'
    <2> DEFINE f == [worker[w] EXCEPT !.staged = @ \cup {KeyOf(w, a)}]
    <2>1. Busy(w) /\ worker[w].pc \in Running
      BY <1>5, <1>b DEF PutArtifact, At, Running
    <2>2. KeyOf(w, a) \in Keyspace
      BY <2>1, KeyType
    <2>3. f \in Frames /\ f.pc \in Running
      BY <1>0, <2>1, <2>2 DEF Worker, Frames
    <2>4. worker' = [worker EXCEPT ![w] = f] /\ objects' \subseteq Keyspace
      BY <1>0, <1>5, <2>2 DEF PutArtifact
    <2> HIDE DEF f
    <2> QED
      BY <1>0, <1>5, <2>1, <2>3, <2>4, LocalStep DEF PutArtifact
  <1>6. ASSUME PublicationFails(w) PROVE [Next]_vars /\ RuntimeInv'
    <2>1. Busy(w)
      BY <1>6, <1>b DEF PublicationFails, At, Running
    <2>2. objects' \subseteq Keyspace
      BY <1>0, <1>6, <2>1, KeyType DEF PublicationFails
    <2> QED
      BY <1>6, <2>1, <2>2, DiscardStep DEF PublicationFails
  <1>7. ASSUME Unwind(w) PROVE [Next]_vars /\ RuntimeInv'
    <2>1. Busy(w) /\ UNCHANGED <<vars, objects, bundle>> /\ (Goto(w, "leave") \/ Goto(w, "fail"))
      BY <1>7, <1>b DEF Unwind, At, Running
    <2> QED
      BY <1>0, <2>1, GotoStep DEF Running, Publishing
  <1>8. ASSUME TransitionRejected(w) PROVE [Next]_vars /\ RuntimeInv'
    <2>1. Busy(w) /\ UNCHANGED <<vars, objects, bundle>> /\ Goto(w, "leave")
      BY <1>8, <1>b DEF TransitionRejected, At, Running
    <2> QED
      BY <1>0, <2>1, GotoStep DEF Running, Publishing
  <1>9. ASSUME NEW k \in worker[w].staged, DiscardOne(w, k) PROVE [Next]_vars /\ RuntimeInv'
    <2> DEFINE f == [worker[w] EXCEPT !.staged = @ \ {k}]
    <2>1. Busy(w) /\ worker[w].pc \in Running
      BY <1>9, <1>b DEF DiscardOne, At, Running
    <2>2. f \in Frames /\ f.pc \in Running
      BY <1>0, <2>1 DEF Worker, Frames
    <2>3. worker' = [worker EXCEPT ![w] = f] /\ objects' \subseteq Keyspace
      BY <1>0, <1>9 DEF DiscardOne
    <2> HIDE DEF f
    <2> QED
      BY <1>0, <1>9, <2>1, <2>2, <2>3, LocalStep DEF DiscardOne
  <1>10. ASSUME Discarded(w) PROVE [Next]_vars /\ RuntimeInv'
    <2>1. Busy(w) /\ worker[w].then \in Running /\ worker[w].then \notin Publishing
      BY <1>0, <1>10, <1>b DEF Discarded, At, Running, Publishing, Worker
    <2> QED
      BY <1>0, <1>10, <2>1, GotoStep DEF Discarded
  <1>11. ASSUME RenewFails(w) PROVE [Next]_vars /\ RuntimeInv'
    <2> DEFINE f == [worker[w] EXCEPT !.leaseLost = TRUE]
    <2>1. f \in Frames /\ f.pc \in Running /\ Busy(w)
      BY <1>0, <1>11, <1>b DEF Worker, Frames, RenewFails
    <2>2. worker' = [worker EXCEPT ![w] = f]
      BY <1>11 DEF RenewFails
    <2> HIDE DEF f
    <2> QED
      BY <1>0, <1>11, <2>1, <2>2, LocalStep DEF RenewFails
  <1>12. ASSUME WatchCancel(w) PROVE [Next]_vars /\ RuntimeInv'
    <2> DEFINE f == [worker[w] EXCEPT !.cancelEvent = TRUE]
    <2>1. f \in Frames /\ f.pc \in Running /\ Busy(w)
      BY <1>0, <1>12, <1>b DEF Worker, Frames, WatchCancel
    <2>2. worker' = [worker EXCEPT ![w] = f]
      BY <1>12 DEF WatchCancel
    <2> HIDE DEF f
    <2> QED
      BY <1>0, <1>12, <2>1, <2>2, LocalStep DEF WatchCancel
  <1> QED
    BY <1>1, <1>2, <1>3, <1>5, <1>6, <1>7, <1>8, <1>9, <1>10, <1>11, <1>12

\* The steps of a worker process outside the frame of run_once.
LEMMA ProcessSteps ==
    ASSUME RuntimeInv, NEW w \in Workers,
           \/ \E taken \in SUBSET Expired : Poll(w, taken)
           \/ NothingQueued(w)
           \/ \E r \in Runs : StartRun(w, r)
           \/ Leave(w) \/ EndProcess(w) \/ Crash(w) \/ RequestShutdown(w) \/ Stop(w)
           \/ Restart(w)
    PROVE  [Next]_vars /\ RuntimeInv'
  <1>0. /\ worker \in [Workers -> Worker] /\ worker[w] \in Worker /\ worker[w] \in Frames
        /\ objects \subseteq Keyspace /\ bundle \in [Runs -> SUBSET Keyspace]
        /\ client \in [Workers -> Client]
    BY DEF RuntimeInv, RuntimeTypeOK, TypeOK
  <1>b. /\ Busy(w) <=> worker[w].pc \in Running
        /\ Busy(w) <=> client[w].pc = "held"
    BY BusyIsRunning DEF RuntimeInv
  <1>p. /\ NewProcess \in Frames /\ NewProcess.pc \notin Running
        /\ "poll" \notin Running /\ "down" \notin Running
    BY DEF NewProcess, Worker, Frames, Publishing, Running, Idle, Outcome
  <1>stay. worker' = worker => worker' = [worker EXCEPT ![w] = worker[w]]
    BY <1>0
  <1>1. ASSUME NEW taken \in SUBSET Expired, Poll(w, taken) PROVE [Next]_vars /\ RuntimeInv'
    <2>1. Next
      BY <1>1 DEF Poll, Next, ClientNext
    <2>2. client'[w].pc = "reclaimed" /\ \A v \in Workers \ {w} : client'[v].pc = client[v].pc
      BY <1>0, <1>1 DEF Poll, Reclaim, Client
    <2>3. worker[w].pc = "poll" /\ UNCHANGED runtimeVars
      BY <1>1 DEF Poll, At
    <2> QED
      BY <1>0, <1>p, <1>stay, <2>1, <2>2, <2>3, ServiceStep DEF runtimeVars
  <1>2. ASSUME NothingQueued(w) PROVE [Next]_vars /\ RuntimeInv'
    <2>1. Next
      BY <1>2 DEF NothingQueued, Next, ClientNext
    <2>2. client'[w].pc = "idle" /\ \A v \in Workers \ {w} : client'[v].pc = client[v].pc
      BY <1>0, <1>2 DEF NothingQueued, NoJob, IdleClient
    <2>3. worker[w].pc = "poll" /\ UNCHANGED runtimeVars
      BY <1>2 DEF NothingQueued, At
    <2> QED
      BY <1>0, <1>p, <1>stay, <2>1, <2>2, <2>3, ServiceStep DEF runtimeVars
  <1>3. ASSUME NEW r \in Runs, StartRun(w, r) PROVE [Next]_vars /\ RuntimeInv'
    <2> DEFINE f == [NewProcess EXCEPT !.pc = "work", !.attempt = NextAttempt(r),
                                       !.shutdown = worker[w].shutdown]
    <2>1. Next
      BY <1>3 DEF StartRun, Next, ClientNext
    <2>2. client'[w].pc = "held" /\ \A v \in Workers \ {w} : client'[v].pc = client[v].pc
      BY <1>0, <1>3 DEF StartRun, Claim
    <2>3. NextAttempt(r) \in Nat
      BY DEF RuntimeInv, JobsInv, TypeOK, NextAttempt
    <2>4. f \in Frames /\ f.pc \in Running
      BY <1>0, <2>3 DEF NewProcess, Worker, Frames, Publishing, Running, Outcome
    <2>5. worker' = [worker EXCEPT ![w] = f]
      BY <1>3 DEF StartRun
    <2> HIDE DEF f
    <2> QED
      BY <1>0, <1>3, <2>1, <2>2, <2>4, <2>5, ServiceStep DEF StartRun
  <1>drop. ASSUME Drop(w), NEW f \in Frames, f.pc \notin Running,
                  worker' = [worker EXCEPT ![w] = f], UNCHANGED <<objects, bundle>>
           PROVE  [Next]_vars /\ RuntimeInv'
    <2>1. Next
      BY <1>drop DEF Next, ClientNext
    <2>2. client'[w].pc = "idle" /\ \A v \in Workers \ {w} : client'[v].pc = client[v].pc
      BY <1>0, <1>drop DEF Drop, IdleClient
    <2> QED
      BY <1>0, <1>drop, <2>1, <2>2, ServiceStep
  <1>4. ASSUME Leave(w) PROVE [Next]_vars /\ RuntimeInv'
    <2> DEFINE f == [NewProcess EXCEPT !.shutdown = worker[w].shutdown]
    <2>1. f \in Frames /\ f.pc \notin Running
      BY <1>0, <1>p DEF Worker, Frames, Publishing, NewProcess
    <2>2. Drop(w) /\ worker' = [worker EXCEPT ![w] = f] /\ UNCHANGED <<objects, bundle>>
      BY <1>4 DEF Leave
    <2> HIDE DEF f
    <2> QED
      BY <2>1, <2>2, <1>drop
  <1>5. ASSUME EndProcess(w) \/ Crash(w) PROVE [Next]_vars /\ RuntimeInv'
    <2> DEFINE f == [NewProcess EXCEPT !.pc = "down"]
    <2>1. f \in Frames /\ f.pc \notin Running
      BY <1>0, <1>p DEF Worker, Frames, Publishing, NewProcess, Idle
    <2>2. Drop(w) /\ worker' = [worker EXCEPT ![w] = f] /\ UNCHANGED <<objects, bundle>>
      BY <1>5 DEF EndProcess, Crash
    <2> HIDE DEF f
    <2> QED
      BY <2>1, <2>2, <1>drop
  <1>6. ASSUME RequestShutdown(w) PROVE [Next]_vars /\ RuntimeInv'
    <2> DEFINE f == [worker[w] EXCEPT !.shutdown = TRUE]
    <2>1. f \in Frames /\ (f.pc \in Running <=> Busy(w))
      BY <1>0, <1>b DEF Worker, Frames
    <2>2. worker' = [worker EXCEPT ![w] = f]
      BY <1>6 DEF RequestShutdown
    <2> HIDE DEF f
    <2> QED
      BY <1>0, <1>6, <2>1, <2>2, LocalStep DEF RequestShutdown
  <1>7. ASSUME Stop(w) PROVE [Next]_vars /\ RuntimeInv'
    <2> DEFINE f == [worker[w] EXCEPT !.pc = "down"]
    <2>1. f \in Frames /\ f.pc \notin Running /\ ~Busy(w)
      BY <1>0, <1>7, <1>p, <1>b DEF Worker, Frames, Publishing, Idle, Stop, At
    <2>2. worker' = [worker EXCEPT ![w] = f]
      BY <1>7 DEF Stop, Goto
    <2> HIDE DEF f
    <2> QED
      BY <1>0, <1>7, <2>1, <2>2, LocalStep DEF Stop
  <1>8. ASSUME Restart(w) PROVE [Next]_vars /\ RuntimeInv'
    <2>1. worker' = [worker EXCEPT ![w] = NewProcess] /\ ~Busy(w)
      BY <1>8, <1>p, <1>b DEF Restart, At
    <2> QED
      BY <1>0, <1>8, <1>p, <2>1, LocalStep DEF Restart
  <1> QED
    BY <1>1, <1>2, <1>3, <1>4, <1>5, <1>6, <1>7, <1>8

\* The steps of run_once and of its heartbeat that call the service.
LEMMA CallSteps ==
    ASSUME RuntimeInv, NEW w \in Workers,
           \/ ReloadRun(w) \/ BeginFinalize(w)
           \/ Branch(w) \/ UnsafeManifest(w) \/ DatabaseFails(w)
           \/ FinalizeRun(w) \/ CommitReplyLost(w)
           \/ AcknowledgeCancel(w) \/ FailRun(w) \/ Renew(w)
    PROVE  [Next]_vars /\ RuntimeInv'
  <1>0. /\ worker \in [Workers -> Worker] /\ worker[w] \in Worker /\ worker[w] \in Frames
        /\ objects \subseteq Keyspace /\ bundle \in [Runs -> SUBSET Keyspace]
        /\ client \in [Workers -> Client]
    BY DEF RuntimeInv, RuntimeTypeOK, TypeOK
  <1>b. /\ Busy(w) <=> worker[w].pc \in Running
        /\ Busy(w) <=> client[w].pc = "held"
    BY BusyIsRunning DEF RuntimeInv
  <1>goto. \A l \in Running : Goto(w, l) /\ (l \in Publishing => worker[w].outcome \in Finished) =>
             \E f \in Frames : f.pc \in Running /\ worker' = [worker EXCEPT ![w] = f]
    <2> SUFFICES ASSUME NEW l \in Running, Goto(w, l),
                        l \in Publishing => worker[w].outcome \in Finished
                 PROVE  \E f \in Frames : f.pc \in Running /\ worker' = [worker EXCEPT ![w] = f]
      OBVIOUS
    <2> DEFINE f == [worker[w] EXCEPT !.pc = l]
    <2>1. f \in Frames /\ f.pc \in Running
      BY <1>0 DEF Worker, Running, Frames, Publishing
    <2>2. worker' = [worker EXCEPT ![w] = f]
      BY DEF Goto
    <2> HIDE DEF f
    <2> QED
      BY <2>1, <2>2
  <1>discard. \A l \in {"leave", "raised"} : DiscardThen(w, l) =>
             \E f \in Frames : f.pc \in Running /\ worker' = [worker EXCEPT ![w] = f]
    <2> SUFFICES ASSUME NEW l \in {"leave", "raised"}, DiscardThen(w, l)
                 PROVE  \E f \in Frames : f.pc \in Running /\ worker' = [worker EXCEPT ![w] = f]
      OBVIOUS
    <2> DEFINE f == [worker[w] EXCEPT !.pc = "discard", !.then = l]
    <2>1. f \in Frames /\ f.pc \in Running
      BY <1>0 DEF Worker, Running, Frames, Publishing
    <2>2. worker' = [worker EXCEPT ![w] = f]
      BY DEF DiscardThen
    <2> HIDE DEF f
    <2> QED
      BY <2>1, <2>2
  <1>end. ASSUME client[w].pc = "held", NEW r, NEW outcome, EndRun(w, r, outcome)
          PROVE  client'[w].pc = "held" /\ \A v \in Workers \ {w} : client'[v].pc = client[v].pc
    BY <1>0, <1>end DEF EndRun, Client
  <1>1. ASSUME ReloadRun(w) \/ BeginFinalize(w) PROVE [Next]_vars /\ RuntimeInv'
    <2>1. Refresh(w) /\ UNCHANGED <<objects, bundle>>
      BY <1>1 DEF ReloadRun, BeginFinalize
    <2>2. Next
      BY <2>1 DEF Next, ClientNext
    <2>3. client'[w].pc = "held" /\ \A v \in Workers \ {w} : client'[v].pc = client[v].pc
      BY <1>0, <2>1 DEF Refresh, Client
    <2>4. PICK f \in Frames : f.pc \in Running /\ worker' = [worker EXCEPT ![w] = f]
      BY <1>0, <1>1, <1>goto DEF ReloadRun, BeginFinalize, At, Running, Frames, Publishing
    <2> QED
      BY <1>0, <2>1, <2>2, <2>3, <2>4, ServiceStep
  \* The row object is read again, or the branch needs no read.
  <1>1a. ASSUME Branch(w) \/ UnsafeManifest(w) \/ DatabaseFails(w) PROVE [Next]_vars /\ RuntimeInv'
    <2>1. (Reload(w) \/ UNCHANGED vars) /\ UNCHANGED <<objects, bundle>>
      BY <1>1a DEF Branch, UnsafeManifest, DatabaseFails, HandleExpired
    <2>2. Busy(w)
      BY <1>1a, <1>b DEF Branch, UnsafeManifest, DatabaseFails, At, Running
    <2>3. PICK f \in Frames : f.pc \in Running /\ worker' = [worker EXCEPT ![w] = f]
      <3>1. CASE Branch(w)
        <4>1. NextStep(w) \in Running
              /\ (NextStep(w) \in Publishing => worker[w].outcome \in Finished)
          BY <1>0 DEF NextStep, Running, Publishing, Finished, Worker, Outcome
        <4> QED
          BY <3>1, <4>1, <1>goto DEF Branch
      <3>2. CASE UnsafeManifest(w) \/ DatabaseFails(w)
        <4>1. DiscardThen(w, "raised") \/ Goto(w, "escape")
          BY <3>2 DEF UnsafeManifest, DatabaseFails, HandleExpired
        <4> QED
          BY <4>1, <1>goto, <1>discard DEF Running, Publishing
      <3> QED
        BY <1>1a, <3>1, <3>2
    <2>4. CASE UNCHANGED vars
      BY <1>0, <2>1, <2>2, <2>3, <2>4, LocalStep
    <2>5. CASE Reload(w)
      <3>1. Next
        BY <2>5 DEF Next, ClientNext
      <3>2. client'[w].pc = "held" /\ \A v \in Workers \ {w} : client'[v].pc = client[v].pc
        BY <1>0, <2>5 DEF Reload, Client
      <3> QED
        BY <1>0, <2>1, <2>3, <3>1, <3>2, ServiceStep
    <2> QED
      BY <2>1, <2>4, <2>5
  <1>2. ASSUME FinalizeRun(w) \/ CommitReplyLost(w) PROVE [Next]_vars /\ RuntimeInv'
    <2>1. Finalize(w, worker[w].outcome) /\ UNCHANGED objects
          /\ bundle' = [bundle EXCEPT ![client[w].run] = @ \cup worker[w].staged]
      BY <1>2 DEF FinalizeRun, CommitReplyLost, CommitBundle
    <2>2. Next
      <3>1. worker[w].outcome \in {"COMPLETE", "PARTIAL"}
        BY <1>0, <1>2 DEF FinalizeRun, CommitReplyLost, CommitBundle, At, Frames,
           Publishing, Finished
      <3> QED
        BY <2>1, <3>1 DEF Next, ClientNext
    <2>3. client'[w].pc = "held" /\ \A v \in Workers \ {w} : client'[v].pc = client[v].pc
      BY <2>1, <1>end DEF Finalize
    <2>4. PICK f \in Frames : f.pc \in Running /\ worker' = [worker EXCEPT ![w] = f]
      BY <1>2, <1>goto, <1>discard DEF FinalizeRun, CommitReplyLost, Running, Publishing
    <2>5. bundle' \in [Runs -> SUBSET Keyspace]
      BY <1>0, <2>1 DEF Worker, Frames
    <2> QED
      BY <1>0, <2>1, <2>2, <2>3, <2>4, <2>5, ServiceStep
  <1>3. ASSUME AcknowledgeCancel(w) PROVE [Next]_vars /\ RuntimeInv'
    <2>1. Acknowledge(w) /\ UNCHANGED <<objects, bundle>>
      BY <1>3 DEF AcknowledgeCancel
    <2>2. Next
      BY <2>1 DEF Next, ClientNext
    <2>3. client'[w].pc = "held" /\ \A v \in Workers \ {w} : client'[v].pc = client[v].pc
      BY <2>1, <1>end DEF Acknowledge
    <2>4. PICK f \in Frames : f.pc \in Running /\ worker' = [worker EXCEPT ![w] = f]
      BY <1>3, <1>goto DEF AcknowledgeCancel, Running, Publishing
    <2> QED
      BY <1>0, <2>1, <2>2, <2>3, <2>4, ServiceStep
  <1>4. ASSUME FailRun(w) PROVE [Next]_vars /\ RuntimeInv'
    <2>1. Fail(w) /\ UNCHANGED <<objects, bundle>>
      BY <1>4 DEF FailRun
    <2>2. Next
      BY <2>1 DEF Next, ClientNext
    <2>3. client'[w].pc = "held" /\ \A v \in Workers \ {w} : client'[v].pc = client[v].pc
      BY <2>1, <1>end DEF Fail
    <2>4. PICK f \in Frames : f.pc \in Running /\ worker' = [worker EXCEPT ![w] = f]
      BY <1>4, <1>goto DEF FailRun, Running, Publishing
    <2> QED
      BY <1>0, <2>1, <2>2, <2>3, <2>4, ServiceStep
  <1>5. ASSUME Renew(w) PROVE [Next]_vars /\ RuntimeInv'
    <2>1. client[w].run \in Runs
      BY <1>5, <1>b DEF Renew, RuntimeInv, JobsInv, HeldRuns
    <2>2. client[w].token = leaseToken[client[w].run]
      BY <1>5 DEF Renew, Heartbeat, RequireLease, LeaseHeld, RowOf
    <2>3. Next
      BY <1>5, <2>1, <2>2 DEF Renew, Next, ClientNext
    <2>4. UNCHANGED client /\ UNCHANGED runtimeVars /\ Busy(w)
      BY <1>5 DEF Renew, Heartbeat, clientVars
    <2>5. worker' = [worker EXCEPT ![w] = worker[w]]
      BY <1>0, <2>4 DEF runtimeVars
    <2> QED
      BY <1>0, <1>b, <2>3, <2>4, <2>5, ServiceStep DEF runtimeVars
  <1> QED
    BY <1>1, <1>1a, <1>2, <1>3, <1>4, <1>5

\* What a step that may read the row object again leaves alone, and where it goes.
LEMMA Rereads ==
    ASSUME RuntimeInv, NEW w \in Workers,
           Branch(w) \/ UnsafeManifest(w) \/ DatabaseFails(w)
    PROVE  /\ Busy(w) /\ UNCHANGED <<status, attempt, cancelRequested, objects, bundle>>
           /\ \A v \in Workers \ {w} : worker'[v] = worker[v] /\ client'[v] = client[v]
           /\ client'[w].run = client[w].run /\ client'[w].token = client[w].token
           /\ worker'[w].attempt = worker[w].attempt /\ worker'[w].staged = worker[w].staged
           /\ worker[w].pc \in {"branch", "finalize", "ack", "fail"}
           /\ \/ worker'[w].pc = "discard"
              \/ worker'[w].pc = "escape" /\ "outage" \in Faults
              \/ worker[w].pc = "branch" /\ worker'[w].pc \in {"leave", "fail", "ack", "publish"}
  <1>0. /\ worker \in [Workers -> Worker] /\ worker[w] \in Worker
        /\ client \in [Workers -> Client]
    BY DEF RuntimeInv, RuntimeTypeOK, TypeOK
  <1>1. (Reload(w) \/ UNCHANGED vars) /\ UNCHANGED <<objects, bundle>>
    BY DEF Branch, UnsafeManifest, DatabaseFails, HandleExpired
  <1>2. /\ UNCHANGED <<status, attempt, cancelRequested>>
        /\ \A v \in Workers \ {w} : client'[v] = client[v]
        /\ client'[w].run = client[w].run /\ client'[w].token = client[w].token
    <2>1. CASE Reload(w)
      BY <1>0, <2>1 DEF Reload, Client
    <2>2. CASE UNCHANGED vars
      BY <2>2 DEF vars, clientVars
    <2> QED
      BY <1>1, <2>1, <2>2
  <1>3. worker[w].pc \in {"branch", "finalize", "ack", "fail"}
    BY DEF Branch, UnsafeManifest, DatabaseFails, At
  <1>4. Busy(w)
    BY <1>3 DEF Busy, Idle
  <1>5. \/ DiscardThen(w, "raised")
        \/ Goto(w, "escape") /\ "outage" \in Faults
        \/ worker[w].pc = "branch" /\ \E l \in {"leave", "fail", "ack", "publish"} : Goto(w, l)
    <2>1. NextStep(w) \in {"leave", "fail", "ack", "publish"}
      BY DEF NextStep
    <2> QED
      BY <2>1 DEF Branch, UnsafeManifest, DatabaseFails, HandleExpired, At
  <1>6. /\ \A v \in Workers \ {w} : worker'[v] = worker[v]
        /\ worker'[w].attempt = worker[w].attempt /\ worker'[w].staged = worker[w].staged
        /\ \/ worker'[w].pc = "discard"
           \/ worker'[w].pc = "escape" /\ "outage" \in Faults
           \/ worker[w].pc = "branch" /\ worker'[w].pc \in {"leave", "fail", "ack", "publish"}
    BY <1>0, <1>5 DEF DiscardThen, Goto, Worker
  <1> QED
    BY <1>1, <1>2, <1>3, <1>4, <1>6

-----------------------------------------------------------------------------
LEMMA RuntimeInit == WorkerInit => RuntimeInv
  <1> SUFFICES ASSUME WorkerInit PROVE RuntimeInv
    OBVIOUS
  <1>1. JobsInv /\ TypeOK
    BY JobsInit DEF WorkerInit, JobsInv
  <1>2. NewProcess \in Frames /\ NewProcess \in Worker
    BY DEF NewProcess, Frames, Publishing, Worker, Idle, Outcome
  <1>3. \A w \in Workers : Busy(w) <=> client[w].pc = "held"
    BY DEF WorkerInit, Init, NoRuns, Busy, Idle, NewProcess, IdleClient
  <1> QED
    BY <1>1, <1>2, <1>3 DEF WorkerInit, RuntimeInv, RuntimeTypeOK

\* API requests and the clock leave every client where it is.
LEMMA ServiceSteps ==
    ASSUME RuntimeInv, ServiceNext
    PROVE  [Next]_vars /\ RuntimeInv'
  <1>1. Next
    BY DEF ServiceNext, Next
  <1>2. UNCHANGED client
    BY DEF ServiceNext, CreateNext, BeginCreate, CheckCreate, InsertRun, InsertConflict,
       ResolveConflict, CancelQueued, CancelRunning, Tick, clientVars
  <1>3. UNCHANGED <<worker, objects, bundle>>
    BY DEF ServiceNext, runtimeVars
  <1>4. JobsInv'
    BY <1>1, JobsNext DEF RuntimeInv
  <1> QED
    BY <1>1, <1>2, <1>3, <1>4 DEF RuntimeInv, RuntimeTypeOK, JobsInv, Busy

LEMMA RuntimeStep == RuntimeInv /\ [RuntimeNext]_allVars => [Next]_vars /\ RuntimeInv'
  <1> SUFFICES ASSUME RuntimeInv, [RuntimeNext]_allVars PROVE [Next]_vars /\ RuntimeInv'
    OBVIOUS
  <1>1. CASE UNCHANGED allVars
    <2>1. UNCHANGED vars /\ UNCHANGED <<worker, objects, bundle>>
      BY <1>1 DEF allVars, runtimeVars
    <2>2. JobsInv'
      BY <2>1, JobsNext DEF RuntimeInv
    <2> QED
      BY <2>1, <2>2 DEF RuntimeInv, RuntimeTypeOK, JobsInv, Busy, vars, clientVars
  <1>2. ASSUME NEW w \in Workers, WorkerNext(w) PROVE [Next]_vars /\ RuntimeInv'
    BY <1>2, FrameSteps, ProcessSteps, CallSteps DEF WorkerNext, Advance, Threads
  <1> QED
    BY <1>1, <1>2, ServiceSteps DEF RuntimeNext

\* The frames of run_once, the keys and the Artifact rows are well formed, and a
\* worker is inside its try block exactly while its client holds a claim.
THEOREM RuntimeTypeCorrect == RuntimeSpec => []RuntimeTypeOK
  <1>1. RuntimeInv => RuntimeTypeOK
    BY DEF RuntimeInv
  <1> QED
    BY <1>1, RuntimeInit, RuntimeStep, PTL DEF RuntimeSpec

\* The runtime implements the service: each of its steps is a transaction of the
\* service or leaves every row, session, request and client alone, so all that is
\* proved of Spec holds of the workers that run it.
THEOREM RuntimeImplementsJobs == RuntimeSpec => Spec
  <1>1. WorkerInit => Init
    BY DEF WorkerInit
  <1> QED
    BY <1>1, RuntimeInit, RuntimeStep, PTL DEF RuntimeSpec, Spec

-----------------------------------------------------------------------------
(***************************************************************************)
(* Attempts.  The token of a claim numbers the attempt: it fences the keys *)
(* the frame publishes, so what an earlier attempt left behind is told     *)
(* apart from what the final one lists.                                    *)
(***************************************************************************)
FrameInv(w) ==
    Busy(w) =>
        /\ worker[w].attempt = client[w].token
        /\ client[w].token <= issued[client[w].run]
        /\ \A k \in worker[w].staged :
              k.run = client[w].run /\ k.attempt = worker[w].attempt
        /\ At(w, "finalize") => ~client[w].stale

TokensDisjoint ==
    \A v, w \in Workers :
        /\ Busy(v) /\ Busy(w)
        /\ client[v].run = client[w].run /\ client[v].token = client[w].token
        => v = w

NoLateFinish == \A r \in Runs : cancelRequested[r] => status[r] \notin Finished

AttemptInv ==
    /\ \A w \in Workers : FrameInv(w)
    /\ TokensDisjoint
    /\ NoLateFinish
    /\ BundleFromFinalAttempt

\* The frame of v goes on with the claim it had.
Continues(v) ==
    /\ Busy(v)
    /\ client'[v].run = client[v].run /\ client'[v].token = client[v].token
    /\ worker'[v].attempt = worker[v].attempt
    /\ \A k \in worker'[v].staged :
          k \in worker[v].staged \/ (k.run = client[v].run /\ k.attempt = worker[v].attempt)
    /\ worker'[v].pc = "finalize" => ~client'[v].stale

\* Tokens are never taken back.
LEMMA IssuedGrows ==
    ASSUME JobsInv, [Next]_vars, NEW x \in Runs
    PROVE  issued[x] \in Nat /\ issued'[x] \in Nat /\ issued'[x] >= issued[x]
  <1>0. TypeOK /\ TypeOK'
    BY TypeNext DEF JobsInv
  <1>1. issued[x] \in Nat /\ issued'[x] \in Nat
    BY <1>0 DEF TypeOK
  <1>2. ASSUME NEW w \in Workers, NEW r \in Runs, Claim(w, r) PROVE issued'[x] >= issued[x]
    BY <1>0, <1>1, <1>2 DEF Claim, TypeOK
  <1>3. UNCHANGED issued \/ \E w \in Workers, r \in Runs : Claim(w, r)
    BY RowCases DEF rowVars, InsertRun, Reclaim, Heartbeat, Ends, EndRun, CancelQueued, Tick
  <1> QED
    BY <1>1, <1>2, <1>3

\* What holds of every frame and every pair of frames is kept when no frame begins.
LEMMA FramesKept ==
    ASSUME RuntimeInv, AttemptInv, [Next]_vars,
           \A v \in Workers : Busy(v)' => Continues(v)
    PROVE  (\A v \in Workers : FrameInv(v)') /\ TokensDisjoint'
  <1>1. ASSUME NEW v \in Workers PROVE FrameInv(v)'
    <2> SUFFICES ASSUME Busy(v)' PROVE FrameInv(v)'
      BY DEF FrameInv
    <2>1. Continues(v) /\ FrameInv(v)
      BY DEF AttemptInv
    <2>2. client[v].run \in Runs
      BY <2>1, BusyIsRunning DEF Continues, RuntimeInv, JobsInv, HeldRuns
    <2>3. client[v].token \in Nat
      BY DEF RuntimeInv, JobsInv, TypeOK, Client
    <2>4. client'[v].token <= issued'[client'[v].run]
      BY <2>1, <2>2, <2>3, IssuedGrows DEF FrameInv, Continues, RuntimeInv
    <2> QED
      BY <2>1, <2>4 DEF FrameInv, Continues, At
  <1>2. TokensDisjoint'
    BY DEF AttemptInv, TokensDisjoint, Continues
  <1> QED
    BY <1>1, <1>2

\* What holds of finished runs is kept when no run finishes.
LEMMA OutcomesKept ==
    ASSUME RuntimeInv, AttemptInv, [Next]_vars, UNCHANGED bundle,
           \A r \in Runs : status'[r] \in Finished => status[r] \in Finished
    PROVE  NoLateFinish' /\ BundleFromFinalAttempt'
  <1>1. \A r \in Runs : status[r] \in Finished =>
           status'[r] = status[r] /\ attempt'[r] = attempt[r] /\ cancelRequested'[r] = cancelRequested[r]
    BY TerminalStep DEF RuntimeInv, Finished, Terminal
  <1>2. NoLateFinish'
    BY <1>1 DEF NoLateFinish, AttemptInv
  <1>3. BundleFromFinalAttempt'
    BY <1>1 DEF BundleFromFinalAttempt, AttemptInv
  <1> QED
    BY <1>2, <1>3

\* A step of one worker that keeps its claim and leaves the service alone.
LEMMA LocalAttempt ==
    ASSUME RuntimeInv, AttemptInv, UNCHANGED <<vars, bundle>>, NEW w \in Workers,
           \A v \in Workers \ {w} : worker'[v] = worker[v],
           Busy(w)' => Continues(w)
    PROVE  AttemptInv'
  <1>1. UNCHANGED <<status, client>>
    BY DEF vars, clientVars
  <1>2. ASSUME NEW v \in Workers, v # w, Busy(v)' PROVE Continues(v)
    BY <1>1, <1>2 DEF AttemptInv, FrameInv, Continues, Busy, At
  <1> QED
    BY <1>1, <1>2, FramesKept, OutcomesKept DEF AttemptInv

LEMMA FrameAttempt ==
    ASSUME RuntimeInv, AttemptInv, NEW w \in Workers,
           \/ \E o \in Outcomes : ProcessorReturns(w, o)
           \/ ProcessorRaises(w) \/ AbandonReturned(w)
           \/ \E a \in Artifacts : PutArtifact(w, a)
           \/ PublicationFails(w) \/ AllPut(w) \/ AbandonPublished(w)
           \/ FinalizeRejected(w)
           \/ Unwind(w) \/ TransitionRejected(w)
           \/ \E k \in worker[w].staged : DiscardOne(w, k)
           \/ Discarded(w)
           \/ RenewFails(w) \/ WatchCancel(w)
    PROVE  AttemptInv'
  <1>0. worker \in [Workers -> Worker] /\ worker[w] \in Worker
    BY DEF RuntimeInv, RuntimeTypeOK
  <1>1. UNCHANGED <<vars, bundle>>
    BY DEF ProcessorReturns, ProcessorRaises, AbandonReturned, PutArtifact,
       PublicationFails, AllPut, AbandonPublished, FinalizeRejected,
       Unwind, TransitionRejected, DiscardOne, Discarded, RenewFails, WatchCancel
  <1>2. \A v \in Workers \ {w} : worker'[v] = worker[v]
    BY <1>0 DEF ProcessorReturns, ProcessorRaises, AbandonReturned, PutArtifact,
       PublicationFails, AllPut, AbandonPublished, FinalizeRejected,
       Unwind, TransitionRejected, DiscardOne, Discarded, RenewFails,
       WatchCancel, Goto, DiscardThen
  <1>3. Busy(w)
    <2>1. Busy(w) <=> worker[w].pc \in Running
      BY BusyIsRunning DEF RuntimeInv
    <2> QED
      BY <2>1 DEF ProcessorReturns, ProcessorRaises, AbandonReturned, PutArtifact,
         PublicationFails, AllPut, AbandonPublished, FinalizeRejected,
         Unwind, TransitionRejected, DiscardOne, Discarded, RenewFails,
         WatchCancel, At, Running
  <1>4. worker'[w].attempt = worker[w].attempt
    BY <1>0 DEF ProcessorReturns, ProcessorRaises, AbandonReturned, PutArtifact,
       PublicationFails, AllPut, AbandonPublished, FinalizeRejected,
       Unwind, TransitionRejected, DiscardOne, Discarded, RenewFails,
       WatchCancel, Goto, DiscardThen, Worker
  <1>5. ASSUME NEW k \in worker'[w].staged
        PROVE  k \in worker[w].staged \/ (k.run = client[w].run /\ k.attempt = worker[w].attempt)
    <2>1. ASSUME NEW a \in Artifacts, PutArtifact(w, a)
          PROVE  worker'[w].staged = worker[w].staged \cup {KeyOf(w, a)}
      BY <1>0, <2>1 DEF PutArtifact, Worker
    <2>2. \A a : KeyOf(w, a).run = client[w].run /\ KeyOf(w, a).attempt = worker[w].attempt
      BY DEF KeyOf, ObjectKey
    <2>3. CASE ~\E a \in Artifacts : PutArtifact(w, a)
      BY <1>0, <1>5, <2>3 DEF ProcessorReturns, ProcessorRaises, AbandonReturned,
         PublicationFails, AllPut, AbandonPublished, FinalizeRejected,
         Unwind, TransitionRejected, DiscardOne, Discarded, RenewFails,
         WatchCancel, Goto, DiscardThen, Worker
    <2> QED
      BY <1>5, <2>1, <2>2, <2>3
  <1>6. worker'[w].pc = "finalize" => worker[w].pc = "finalize"
    <2>1. worker[w].then # "finalize"
      BY <1>0 DEF Worker
    <2> QED
      BY <1>0, <2>1 DEF ProcessorReturns, ProcessorRaises, AbandonReturned, PutArtifact,
         PublicationFails, AllPut, AbandonPublished, FinalizeRejected,
         Unwind, TransitionRejected, DiscardOne, Discarded, RenewFails,
         WatchCancel, Goto, DiscardThen, Worker
  <1>7. Continues(w)
    <2>1. UNCHANGED client
      BY <1>1 DEF vars, clientVars
    <2>2. worker[w].pc = "finalize" => ~client[w].stale
      BY <1>3 DEF AttemptInv, FrameInv, At
    <2> QED
      BY <1>3, <1>4, <1>5, <1>6, <2>1, <2>2 DEF Continues
  <1> QED
    BY <1>1, <1>2, <1>7, LocalAttempt

\* The steps of a worker that call the service and keep its claim: run_once's
\* transitions and its renewals.
LEMMA CallAttempt ==
    ASSUME RuntimeInv, AttemptInv, NEW w \in Workers,
           \/ ReloadRun(w) \/ BeginFinalize(w)
           \/ FinalizeRun(w) \/ CommitReplyLost(w)
           \/ AcknowledgeCancel(w) \/ FailRun(w) \/ Renew(w)
    PROVE  AttemptInv'
  <1>0. /\ worker \in [Workers -> Worker] /\ worker[w] \in Worker
        /\ client \in [Workers -> Client] /\ status \in [Runs -> RunStatus]
        /\ bundle \in [Runs -> SUBSET Keyspace]
    BY DEF RuntimeInv, RuntimeTypeOK, TypeOK
  <1>n. [Next]_vars
    BY CallSteps
  <1>b. Busy(w) /\ client[w].pc = "held" /\ client[w].run \in Runs
    <2>1. Busy(w) <=> worker[w].pc \in Running
      BY BusyIsRunning DEF RuntimeInv
    <2>2. Busy(w)
      BY <2>1 DEF ReloadRun, BeginFinalize, FinalizeRun, CommitReplyLost, CommitBundle,
         AcknowledgeCancel, FailRun, Renew, At, Running
    <2> QED
      BY <2>2, BusyIsRunning DEF RuntimeInv, JobsInv, HeldRuns
  <1>f. FrameInv(w)
    BY DEF AttemptInv
  <1>1. /\ \A v \in Workers \ {w} : worker'[v] = worker[v] /\ client'[v] = client[v]
        /\ client'[w].run = client[w].run /\ client'[w].token = client[w].token
        /\ client'[w].stale => client[w].stale
    BY <1>0 DEF ReloadRun, BeginFinalize, FinalizeRun, CommitReplyLost, CommitBundle,
       AcknowledgeCancel, FailRun, Renew, Refresh, Finalize, Acknowledge, Fail, EndRun,
       Heartbeat, Goto, DiscardThen, Client, clientVars, runtimeVars
  <1>2. worker'[w].attempt = worker[w].attempt /\ worker'[w].staged = worker[w].staged
    BY <1>0 DEF ReloadRun, BeginFinalize, FinalizeRun, CommitReplyLost, CommitBundle,
       AcknowledgeCancel, FailRun, Renew, Goto, DiscardThen, Worker, runtimeVars
  <1>3. worker'[w].pc = "finalize" => worker[w].pc = "finalize" \/ ~client'[w].stale
    BY <1>0 DEF ReloadRun, BeginFinalize, FinalizeRun, CommitReplyLost, CommitBundle, Refresh,
       AcknowledgeCancel, FailRun, Renew, Goto, DiscardThen, Worker, Client, runtimeVars
  <1>4. \A v \in Workers : Busy(v)' => Continues(v)
    <2>1. Continues(w)
      BY <1>b, <1>f, <1>1, <1>2, <1>3 DEF Continues, FrameInv, At
    <2>2. ASSUME NEW v \in Workers, v # w, Busy(v)' PROVE Continues(v)
      BY <1>1, <2>2 DEF AttemptInv, FrameInv, Continues, Busy, At
    <2> QED
      BY <2>1, <2>2
  <1>5. CASE ReloadRun(w) \/ BeginFinalize(w) \/ AcknowledgeCancel(w) \/ FailRun(w) \/ Renew(w)
    <2>1. UNCHANGED bundle
      BY <1>5 DEF ReloadRun, BeginFinalize, AcknowledgeCancel, FailRun, Renew, runtimeVars
    <2>2. \A r \in Runs : status'[r] \in Finished => status[r] \in Finished
      BY <1>0, <1>5 DEF ReloadRun, BeginFinalize, AcknowledgeCancel, FailRun, Renew, Refresh,
         Acknowledge, Fail, EndRun, Heartbeat, Finished
    <2> QED
      BY <1>n, <1>4, <2>1, <2>2, FramesKept, OutcomesKept DEF AttemptInv
  <1>6. CASE FinalizeRun(w) \/ CommitReplyLost(w)
    <2> DEFINE x == client[w].run
    <2>1. /\ worker[w].pc = "finalize" /\ Finalize(w, worker[w].outcome)
          /\ bundle' = [bundle EXCEPT ![x] = @ \cup worker[w].staged]
      BY <1>6 DEF FinalizeRun, CommitReplyLost, CommitBundle, At
    \* The row is read again after the upload: the cancellation is not overlooked.
    <2>2. ~cancelRequested[x] /\ LeaseHeld(RowOf(x), w, client[w].token)
      <3>1. ~client[w].stale
        BY <1>b, <1>f, <2>1 DEF FrameInv, At
      <3> QED
        BY <2>1, <3>1 DEF Finalize, RequireLease, Seen, RowOf
    <2>3. status[x] = "RUNNING" /\ attempt[x] = worker[w].attempt
      <3>1. status[x] = "RUNNING" /\ leaseToken[x] = client[w].token
        BY <2>2 DEF LeaseHeld, RowOf
      <3>2. leaseToken[x] = issued[x] /\ attempt[x] = issued[x]
        BY <1>b, <3>1 DEF RuntimeInv, JobsInv, LeaseOnlyWhileRunning, AttemptsBounded
      <3> QED
        BY <1>b, <1>f, <3>1, <3>2 DEF FrameInv
    <2>4. /\ UNCHANGED <<attempt, cancelRequested>>
          /\ status' = [status EXCEPT ![x] = worker[w].outcome]
      BY <2>1 DEF Finalize, EndRun
    <2>5. worker[w].outcome \in Finished
      BY <2>1 DEF RuntimeInv, Frames, Publishing
    <2>6. NoLateFinish'
      BY <1>0, <2>2, <2>4 DEF AttemptInv, NoLateFinish
    <2>7. BundleFromFinalAttempt'
      <3>1. ASSUME NEW k \in bundle'[x] PROVE k.run = x /\ k.attempt = attempt[x]
        <4>1. k \in bundle[x] \/ k \in worker[w].staged
          BY <1>0, <1>b, <2>1, <3>1
        <4> QED
          BY <1>b, <1>f, <2>3, <4>1 DEF AttemptInv, BundleFromFinalAttempt, FrameInv
      <3>2. status'[x] \in Finished
        BY <1>0, <1>b, <2>4, <2>5
      <3>3. \A r \in Runs : r # x => bundle'[r] = bundle[r] /\ status'[r] = status[r]
        BY <1>0, <2>1, <2>4
      <3> QED
        BY <1>b, <2>4, <3>1, <3>2, <3>3 DEF AttemptInv, BundleFromFinalAttempt
    <2> QED
      BY <1>n, <1>4, <2>6, <2>7, FramesKept DEF AttemptInv
  <1> QED
    BY <1>5, <1>6

\* A row read again changes no row.
LEMMA RereadAttempt ==
    ASSUME RuntimeInv, AttemptInv, NEW w \in Workers,
           Branch(w) \/ UnsafeManifest(w) \/ DatabaseFails(w)
    PROVE  AttemptInv'
  <1>1. [Next]_vars
    BY CallSteps
  <1>2. Continues(w)
    BY Rereads DEF Continues
  <1>3. ASSUME NEW v \in Workers, v # w, Busy(v)' PROVE Continues(v)
    BY <1>3, Rereads DEF AttemptInv, FrameInv, Continues, Busy, At
  <1>4. UNCHANGED <<status, bundle>>
    BY Rereads
  <1> QED
    BY <1>1, <1>2, <1>3, <1>4, FramesKept, OutcomesKept DEF AttemptInv

\* A claim begins a frame under a token no frame has had.
LEMMA StartAttempt ==
    ASSUME RuntimeInv, AttemptInv, NEW w \in Workers, NEW r \in Runs, StartRun(w, r)
    PROVE  AttemptInv'
  <1>0. /\ worker \in [Workers -> Worker] /\ client \in [Workers -> Client]
        /\ status \in [Runs -> RunStatus]
        /\ attempt \in [Runs -> Nat] /\ issued \in [Runs -> Nat]
    BY DEF RuntimeInv, RuntimeTypeOK, TypeOK
  <1>n. [Next]_vars
    BY ProcessSteps
  <1>1. attempt[r] = issued[r]
    BY DEF StartRun, Claim, RuntimeInv, JobsInv, AttemptsBounded
  <1>2. /\ client'[w].run = r /\ client'[w].token = issued[r] + 1
        /\ issued'[r] = issued[r] + 1
        /\ worker'[w].attempt = issued[r] + 1 /\ worker'[w].staged = {}
        /\ worker'[w].pc = "work"
    BY <1>0, <1>1 DEF StartRun, Claim, NextAttempt, NewProcess
  <1>3. \A v \in Workers \ {w} : worker'[v] = worker[v] /\ client'[v] = client[v]
    BY <1>0 DEF StartRun, Claim
  <1>4. FrameInv(w)'
    BY <1>0, <1>2 DEF FrameInv, At
  <1>5. ASSUME NEW v \in Workers, v # w, Busy(v)'
        PROVE  /\ FrameInv(v)' /\ Busy(v) /\ client'[v].run \in Runs
               /\ client'[v].token <= issued[client'[v].run]
    <2>1. Busy(v) /\ FrameInv(v)
      BY <1>3, <1>5 DEF Busy, AttemptInv
    <2>2. client[v].run \in Runs /\ client[v].token \in Nat
      BY <1>0, <2>1, BusyIsRunning DEF RuntimeInv, JobsInv, HeldRuns, Client
    <2>3. issued[client[v].run] <= issued'[client[v].run]
      BY <1>n, <2>2, IssuedGrows DEF RuntimeInv
    <2>4. issued[client[v].run] \in Nat /\ issued'[client[v].run] \in Nat
      BY <1>n, <2>2, IssuedGrows DEF RuntimeInv
    <2> QED
      BY <1>3, <1>5, <2>1, <2>2, <2>3, <2>4 DEF FrameInv, At
  <1>6. \A v \in Workers : FrameInv(v)'
    BY <1>4, <1>5 DEF FrameInv
  <1>7. TokensDisjoint'
    <2>1. \A v \in Workers : v # w /\ Busy(v)' =>
             ~(client'[v].run = client'[w].run /\ client'[v].token = client'[w].token)
      BY <1>0, <1>2, <1>5
    <2> QED
      BY <1>3, <1>5, <2>1 DEF AttemptInv, TokensDisjoint, Busy
  <1>8. UNCHANGED bundle /\ \A x \in Runs : status'[x] \in Finished => status[x] \in Finished
    BY <1>0 DEF StartRun, Claim, Finished
  <1> QED
    BY <1>n, <1>6, <1>7, <1>8, OutcomesKept DEF AttemptInv

\* Steps that begin no frame and finish no run.
LEMMA OtherAttempt ==
    ASSUME RuntimeInv, AttemptInv,
           \/ ServiceNext \/ UNCHANGED allVars
           \/ \E w \in Workers :
                 \/ \E taken \in SUBSET Expired : Poll(w, taken)
                 \/ NothingQueued(w) \/ Leave(w) \/ EndProcess(w) \/ Crash(w)
                 \/ RequestShutdown(w) \/ Stop(w) \/ Restart(w)
    PROVE  AttemptInv'
  <1>0. /\ worker \in [Workers -> Worker] /\ client \in [Workers -> Client]
        /\ status \in [Runs -> RunStatus]
    BY DEF RuntimeInv, RuntimeTypeOK, TypeOK
  <1>p. NewProcess.pc = "poll"
    BY DEF NewProcess
  <1>same. ASSUME UNCHANGED <<worker, client>>, NEW v \in Workers, Busy(v)' PROVE Continues(v)
    BY <1>same DEF AttemptInv, FrameInv, Continues, Busy, At
  <1>1. CASE ServiceNext
    <2>1. UNCHANGED <<worker, client, bundle>>
      BY <1>1 DEF ServiceNext, CreateNext, BeginCreate, CheckCreate, InsertRun, InsertConflict,
         ResolveConflict, CancelQueued, CancelRunning, Tick, clientVars, runtimeVars
    <2>2. \A r \in Runs : status'[r] \in Finished => status[r] \in Finished
      BY <1>0, <1>1 DEF ServiceNext, CreateNext, BeginCreate, CheckCreate, InsertRun,
         InsertConflict, ResolveConflict, CancelQueued, CancelRunning, Tick, Finished
    <2> QED
      BY <1>1, <1>same, <2>1, <2>2, ServiceSteps, FramesKept, OutcomesKept DEF AttemptInv
  <1>2. CASE UNCHANGED allVars
    <2>1. UNCHANGED <<vars, worker, client, bundle, status>>
      BY <1>2 DEF allVars, vars, runtimeVars, clientVars
    <2> QED
      BY <1>same, <2>1, FramesKept, OutcomesKept DEF AttemptInv
  <1>3. ASSUME NEW w \in Workers,
               \/ \E taken \in SUBSET Expired : Poll(w, taken)
               \/ NothingQueued(w) \/ Leave(w) \/ EndProcess(w) \/ Crash(w)
        PROVE  AttemptInv'
    <2>1. [Next]_vars /\ RuntimeInv'
      BY <1>3, ProcessSteps
    <2>2. /\ UNCHANGED bundle
          /\ \A v \in Workers \ {w} : worker'[v] = worker[v] /\ client'[v] = client[v]
      BY <1>0, <1>3 DEF Poll, Reclaim, NothingQueued, NoJob, Leave, EndProcess, Crash, Drop, runtimeVars
    <2>3. client'[w].pc # "held"
      BY <1>0, <1>3 DEF Poll, Reclaim, NothingQueued, NoJob, Leave, EndProcess, Crash, Drop, IdleClient, Client
    <2>4. ASSUME NEW v \in Workers, Busy(v)' PROVE Continues(v)
      <3>1. v # w
        BY <2>1, <2>3, <2>4 DEF RuntimeInv, RuntimeTypeOK
      <3> QED
        BY <2>2, <2>4, <3>1 DEF AttemptInv, FrameInv, Continues, Busy, At
    <2>5. \A r \in Runs : status'[r] \in Finished => status[r] \in Finished
      BY <1>0, <1>3 DEF Poll, Reclaim, NothingQueued, NoJob, Leave, EndProcess, Crash, Drop, Finished
    <2> QED
      BY <2>1, <2>2, <2>4, <2>5, FramesKept, OutcomesKept DEF AttemptInv
  <1>4. ASSUME NEW w \in Workers, RequestShutdown(w) \/ Stop(w) \/ Restart(w) PROVE AttemptInv'
    <2>1. UNCHANGED <<vars, bundle>> /\ \A v \in Workers \ {w} : worker'[v] = worker[v]
      BY <1>0, <1>4 DEF RequestShutdown, Stop, Restart, Goto
    <2>2. ASSUME Busy(w)' PROVE Continues(w)
      <3>1. RequestShutdown(w)
        BY <1>0, <1>4, <1>p, <2>2 DEF Stop, Restart, Goto, Busy, Idle, Worker
      <3>2. UNCHANGED client
        BY <2>1 DEF vars, clientVars
      <3> QED
        BY <1>0, <2>2, <3>1, <3>2 DEF RequestShutdown, AttemptInv, FrameInv, Continues, Busy, At, Worker
    <2> QED
      BY <2>1, <2>2, LocalAttempt
  <1> QED
    BY <1>1, <1>2, <1>3, <1>4

LEMMA AttemptInit == WorkerInit => AttemptInv
  BY DEF WorkerInit, Init, NoRuns, AttemptInv, FrameInv, TokensDisjoint, NoLateFinish,
     BundleFromFinalAttempt, Busy, Idle, NewProcess

LEMMA AttemptNext ==
    RuntimeInv /\ AttemptInv /\ [RuntimeNext]_allVars => AttemptInv'
  <1> SUFFICES ASSUME RuntimeInv, AttemptInv, [RuntimeNext]_allVars PROVE AttemptInv'
    OBVIOUS
  <1>1. ASSUME NEW w \in Workers, WorkerNext(w) PROVE AttemptInv'
    BY <1>1, FrameAttempt, CallAttempt, RereadAttempt, StartAttempt, OtherAttempt
       DEF WorkerNext, Advance, Threads
  <1> QED
    BY <1>1, OtherAttempt DEF RuntimeNext

LEMMA AttemptInvariant == RuntimeSpec => [](RuntimeInv /\ AttemptInv)
  <1>1. WorkerInit => RuntimeInv /\ AttemptInv
    BY RuntimeInit, AttemptInit
  <1>2. RuntimeInv /\ AttemptInv /\ [RuntimeNext]_allVars => (RuntimeInv /\ AttemptInv)'
    BY RuntimeStep, AttemptNext
  <1> QED
    BY <1>1, <1>2, PTL DEF RuntimeSpec

\* No two frames run the same attempt of a run.
THEOREM AttemptsAreDisjoint == RuntimeSpec => []AttemptsDisjoint
  <1>1. RuntimeInv /\ AttemptInv => AttemptsDisjoint
    BY DEF AttemptInv, TokensDisjoint, FrameInv, AttemptsDisjoint
  <1> QED
    BY <1>1, AttemptInvariant, PTL

\* Every row of a bundle names an object of the attempt that ended the run.
THEOREM BundlesAreFinal == RuntimeSpec => []BundleFromFinalAttempt
  <1>1. AttemptInv => BundleFromFinalAttempt
    BY DEF AttemptInv
  <1> QED
    BY <1>1, AttemptInvariant, PTL

\* A request to cancel is never withdrawn.
LEMMA CancelStays ==
    ASSUME RuntimeInv, [Next]_vars, NEW x \in Runs, cancelRequested[x]
    PROVE  cancelRequested'[x]
  <1>1. cancelRequested \in [Runs -> BOOLEAN]
    BY DEF RuntimeInv, JobsInv, TypeOK
  <1>2. ASSUME NEW r \in Runs, CancelQueued(r) \/ CancelRunning(r) PROVE cancelRequested'[x]
    BY <1>1, <1>2 DEF CancelQueued, CancelRunning
  <1>3. UNCHANGED cancelRequested \/ \E r \in Runs : CancelQueued(r) \/ CancelRunning(r)
    BY StepCases DEF BeginCreate, CheckCreate, InsertRun, InsertConflict, ResolveConflict,
       Reclaim, NoJob, Claim, Refresh, Reload, Heartbeat, Finalize, Fail, Acknowledge, EndRun, Drop,
       Tick, vars
  <1> QED
    BY <1>2, <1>3

\* A committed cancellation keeps the run from COMPLETE and PARTIAL.
THEOREM CancellationHolds == RuntimeSpec => CancelBlocksCompletion
  <1>1. RuntimeInv /\ AttemptInv /\ [RuntimeNext]_allVars =>
          [\A r \in Runs : cancelRequested[r] => status'[r] \notin Finished]_allVars
    <2> SUFFICES ASSUME RuntimeInv, AttemptInv, [RuntimeNext]_allVars,
                        NEW r \in Runs, cancelRequested[r]
                 PROVE  status'[r] \notin Finished
      OBVIOUS
    <2>1. NoLateFinish'
      BY AttemptNext DEF AttemptInv
    <2>2. cancelRequested'[r]
      BY RuntimeStep, CancelStays
    <2> QED
      BY <2>1, <2>2 DEF NoLateFinish
  <1> QED
    BY <1>1, AttemptInvariant, PTL DEF RuntimeSpec, CancelBlocksCompletion

-----------------------------------------------------------------------------
(***************************************************************************)
(* Storage.  A finished run keeps its objects because the only frame that  *)
(* knows their keys is the one that finished it, and that frame is on its  *)
(* way out.  This needs the reply to the finalizing commit: with the       *)
(* "commit" fault the property fails, as a run of the model shows.         *)
(***************************************************************************)
Early == {"work", "returned", "branch"}
Ready == {"published", "finalize"}

ObjectFrame(w) ==
    Busy(w) =>
        /\ worker[w].pc \in Early => worker[w].staged = {}
        /\ worker[w].pc \in Publishing => worker[w].staged \subseteq objects
        /\ worker[w].pc \in Ready => worker[w].staged # {}
        /\ status[client[w].run] \in Finished /\ attempt[client[w].run] = worker[w].attempt
              => worker[w].pc = "leave"

ObjectInv ==
    /\ \A w \in Workers : ObjectFrame(w)
    /\ FinishedRunHasObjects

\* v goes on with the same claim and the same keys, towards later points of run_once.
GoesOn(v) ==
    /\ Busy(v)
    /\ client'[v].run = client[v].run
    /\ worker'[v].attempt = worker[v].attempt /\ worker'[v].staged = worker[v].staged
    /\ worker'[v].pc \in Early => worker[v].pc \in Early
    /\ worker'[v].pc \in Publishing => worker[v].pc \in Publishing \/ worker[v].staged = {}
    /\ worker'[v].pc \in Ready => worker[v].pc \in Ready \/ worker[v].staged # {}
    /\ worker[v].pc = "leave" => worker'[v].pc = "leave"

\* Steps that finish no run and delete nothing.
LEMMA ObjectsKept ==
    ASSUME RuntimeInv, ObjectInv, [Next]_vars, UNCHANGED bundle, objects \subseteq objects',
           \A r \in Runs : status'[r] \in Finished => status[r] \in Finished,
           \A v \in Workers : Busy(v)' => GoesOn(v)
    PROVE  ObjectInv'
  <1>1. \A r \in Runs : status[r] \in Finished =>
           status'[r] = status[r] /\ attempt'[r] = attempt[r]
    BY TerminalStep DEF RuntimeInv, Finished, Terminal
  <1>2. ASSUME NEW v \in Workers, Busy(v)' PROVE ObjectFrame(v)'
    <2>1. GoesOn(v) /\ ObjectFrame(v)
      BY <1>2 DEF ObjectInv
    <2>2. client[v].run \in Runs
      BY <2>1, BusyIsRunning DEF GoesOn, RuntimeInv, JobsInv, HeldRuns
    <2> QED
      BY <1>1, <2>1, <2>2 DEF GoesOn, ObjectFrame
  <1>3. FinishedRunHasObjects'
    BY <1>1 DEF ObjectInv, FinishedRunHasObjects
  <1> QED
    BY <1>2, <1>3 DEF ObjectInv, ObjectFrame

\* Two frames never stage the same key.
LEMMA StagedOnce ==
    ASSUME AttemptInv, NEW v \in Workers, NEW w \in Workers, Busy(v), Busy(w),
           NEW k, k \in worker[v].staged, k \in worker[w].staged
    PROVE  v = w
  BY DEF AttemptInv, FrameInv, TokensDisjoint

\* A key that a bundle lists is staged by no frame that would discard it.
LEMMA BundleKeysSafe ==
    ASSUME RuntimeInv, AttemptInv, ObjectInv, NEW w \in Workers, Busy(w),
           NEW r \in Runs, NEW k \in bundle[r], k \in worker[w].staged
    PROVE  worker[w].pc = "leave"
  <1>1. client[w].run \in Runs
    BY BusyIsRunning DEF RuntimeInv, JobsInv, HeldRuns
  <1>2. k.run = client[w].run /\ k.attempt = worker[w].attempt
    BY DEF AttemptInv, FrameInv
  <1>3. status[r] \in Finished /\ k.run = r /\ k.attempt = attempt[r]
    BY DEF AttemptInv, BundleFromFinalAttempt
  <1> QED
    BY <1>1, <1>2, <1>3 DEF ObjectInv, ObjectFrame

\* What a worker's own steps do to the other frames.
LEMMA OthersGoOn ==
    ASSUME NEW w \in Workers, NEW v \in Workers, v # w, Busy(v)',
           worker'[v] = worker[v], client'[v] = client[v]
    PROVE  GoesOn(v)
  BY DEF GoesOn, Busy

LEMMA FrameObjects ==
    ASSUME RuntimeInv, AttemptInv, ObjectInv, Artifacts # {}, NEW w \in Workers,
           \/ \E o \in Outcomes : ProcessorReturns(w, o)
           \/ ProcessorRaises(w) \/ AbandonReturned(w)
           \/ PublicationFails(w) \/ AllPut(w) \/ AbandonPublished(w)
           \/ FinalizeRejected(w)
           \/ Unwind(w) \/ TransitionRejected(w) \/ Discarded(w)
           \/ RenewFails(w) \/ WatchCancel(w)
    PROVE  ObjectInv'
  <1>0. worker \in [Workers -> Worker] /\ worker[w] \in Worker
    BY DEF RuntimeInv, RuntimeTypeOK
  <1>n. [Next]_vars
    BY FrameSteps
  <1>1. UNCHANGED <<vars, bundle>> /\ objects \subseteq objects'
    BY DEF ProcessorReturns, ProcessorRaises, AbandonReturned, PublicationFails, AllPut,
       AbandonPublished, FinalizeRejected, Unwind,
       TransitionRejected, Discarded, RenewFails, WatchCancel
  <1>2. /\ \A v \in Workers \ {w} : worker'[v] = worker[v]
        /\ worker'[w].attempt = worker[w].attempt /\ worker'[w].staged = worker[w].staged
    BY <1>0 DEF ProcessorReturns, ProcessorRaises, AbandonReturned, PublicationFails,
       AllPut, AbandonPublished, FinalizeRejected, Unwind,
       TransitionRejected, Discarded, RenewFails, WatchCancel, Goto, DiscardThen, Worker
  <1>3. Busy(w)
    <2>1. Busy(w) <=> worker[w].pc \in Running
      BY BusyIsRunning DEF RuntimeInv
    <2> QED
      BY <2>1 DEF ProcessorReturns, ProcessorRaises, AbandonReturned, PublicationFails,
         AllPut, AbandonPublished, FinalizeRejected, Unwind,
         TransitionRejected, Discarded, RenewFails, WatchCancel, At, Running
  <1>4. /\ worker'[w].pc \in Early => worker[w].pc \in Early
        /\ worker'[w].pc \in Publishing => worker[w].pc \in Publishing \/ worker[w].staged = {}
        /\ worker'[w].pc \in Ready => worker[w].pc \in Ready \/ worker[w].staged # {}
        /\ worker[w].pc = "leave" => worker'[w].pc = "leave"
    <2>2. CASE AllPut(w)
      <3>1. worker[w].pc = "publish" /\ worker'[w].pc = "published" /\ worker[w].staged # {}
        BY <1>0, <2>2 DEF AllPut, At, Goto
      <3> QED
        BY <3>1 DEF Early, Publishing, Ready
    <2>3. CASE ~AllPut(w)
      <3>1. worker[w].then \in {"leave", "raised"}
        BY <1>0 DEF Worker
      <3>2. CASE RenewFails(w) \/ WatchCancel(w)
        BY <1>0, <3>2 DEF RenewFails, WatchCancel, Worker
      <3>3. CASE \E o \in Outcomes : ProcessorReturns(w, o)
        BY <1>0, <3>3 DEF ProcessorReturns, At, Early, Publishing, Ready, Worker
      <3>4. CASE Unwind(w) \/ TransitionRejected(w) \/ Discarded(w)
        <4>1. worker[w].pc # "leave"
          BY <3>4 DEF Unwind, TransitionRejected, Discarded, At
        <4>2. \E l \in {"raised", "leave", "fail"} : Goto(w, l)
          BY <3>1, <3>4 DEF Unwind, TransitionRejected, Discarded
        <4>3. worker'[w].pc \in {"raised", "leave", "fail"}
          BY <1>0, <4>2 DEF Goto, Worker
        <4> QED
          BY <4>1, <4>3 DEF Early, Publishing, Ready
      <3>5. CASE ProcessorRaises(w) \/ AbandonReturned(w) \/ PublicationFails(w)
                 \/ AbandonPublished(w) \/ FinalizeRejected(w)
        <4>1. worker[w].pc # "leave"
          BY <3>5 DEF ProcessorRaises, AbandonReturned, PublicationFails, AbandonPublished,
             FinalizeRejected, At
        <4>2. \E l : DiscardThen(w, l)
          BY <3>5 DEF ProcessorRaises, AbandonReturned, PublicationFails, AbandonPublished,
             FinalizeRejected
        <4>3. worker'[w].pc = "discard"
          BY <1>0, <4>2 DEF DiscardThen, Worker
        <4> QED
          BY <4>1, <4>3 DEF Early, Publishing, Ready
      <3> QED
        BY <2>3, <3>2, <3>3, <3>4, <3>5
    <2> QED
      BY <2>2, <2>3
  <1>5. UNCHANGED <<status, client>>
    BY <1>1 DEF vars, clientVars
  <1>6. \A v \in Workers : Busy(v)' => GoesOn(v)
    <2>1. GoesOn(w)
      BY <1>2, <1>3, <1>4, <1>5 DEF GoesOn
    <2> QED
      BY <1>2, <1>5, <2>1, OthersGoOn
  <1> QED
    BY <1>n, <1>1, <1>5, <1>6, ObjectsKept

\* A row read again: no frame that has staged keys goes back before publication.
LEMMA RereadObjects ==
    ASSUME RuntimeInv, AttemptInv, ObjectInv, NEW w \in Workers,
           Branch(w) \/ UnsafeManifest(w) \/ DatabaseFails(w)
    PROVE  ObjectInv'
  <1>1. [Next]_vars
    BY CallSteps
  <1>2. worker[w].pc = "branch" => worker[w].staged = {}
    BY Rereads DEF ObjectInv, ObjectFrame, Early
  <1>3. GoesOn(w)
    BY <1>2, Rereads DEF GoesOn, Early, Publishing, Ready
  <1>4. \A v \in Workers \ {w} : Busy(v)' => GoesOn(v)
    BY Rereads, OthersGoOn
  <1>5. UNCHANGED <<status, objects, bundle>>
    BY Rereads
  <1> QED
    BY <1>1, <1>3, <1>4, <1>5, ObjectsKept

LEMMA PutObjects ==
    ASSUME RuntimeInv, AttemptInv, ObjectInv, NEW w \in Workers, NEW a \in Artifacts,
           PutArtifact(w, a)
    PROVE  ObjectInv'
  <1>0. worker \in [Workers -> Worker] /\ worker[w] \in Worker
    BY DEF RuntimeInv, RuntimeTypeOK
  <1>1. /\ UNCHANGED <<status, attempt, client, bundle>>
        /\ objects' = objects \cup {KeyOf(w, a)}
        /\ worker' = [worker EXCEPT ![w].staged = @ \cup {KeyOf(w, a)}]
        /\ worker[w].pc = "publish"
    BY DEF PutArtifact, vars, clientVars, At
  <1>2. Busy(w)
    BY <1>1 DEF Busy, Idle
  <1>3. ASSUME NEW v \in Workers, Busy(v)' PROVE ObjectFrame(v)'
    <2>1. Busy(v) /\ ObjectFrame(v)
      BY <1>0, <1>1, <1>2, <1>3 DEF ObjectInv, Busy
    <2>2. CASE v = w
      BY <1>0, <1>1, <1>2, <2>1, <2>2 DEF ObjectFrame, Early, Publishing, Ready, Worker
    <2>3. CASE v # w
      BY <1>0, <1>1, <2>1, <2>3 DEF ObjectFrame
    <2> QED
      BY <2>2, <2>3
  <1>4. FinishedRunHasObjects'
    BY <1>1 DEF ObjectInv, FinishedRunHasObjects
  <1> QED
    BY <1>3, <1>4 DEF ObjectInv, ObjectFrame

\* A clean-up deletes only what its own frame has staged.
LEMMA DiscardObjects ==
    ASSUME RuntimeInv, AttemptInv, ObjectInv, NEW w \in Workers, NEW d \in worker[w].staged,
           DiscardOne(w, d)
    PROVE  ObjectInv'
  <1>0. worker \in [Workers -> Worker] /\ worker[w] \in Worker
    BY DEF RuntimeInv, RuntimeTypeOK
  <1>1. /\ UNCHANGED <<status, attempt, client, bundle>>
        /\ objects \ {d} \subseteq objects'
        /\ worker' = [worker EXCEPT ![w].staged = @ \ {d}]
        /\ worker[w].pc = "discard"
    BY DEF DiscardOne, vars, clientVars, At
  <1>2. Busy(w)
    BY <1>1 DEF Busy, Idle
  <1>3. ASSUME NEW v \in Workers, Busy(v)' PROVE ObjectFrame(v)'
    <2>1. Busy(v) /\ ObjectFrame(v)
      BY <1>0, <1>1, <1>2, <1>3 DEF ObjectInv, Busy
    <2>2. CASE v = w
      BY <1>0, <1>1, <1>2, <2>1, <2>2 DEF ObjectFrame, Early, Publishing, Ready, Worker
    <2>3. CASE v # w
      <3>1. d \notin worker[v].staged
        BY <1>2, <2>1, <2>3, StagedOnce
      <3> QED
        BY <1>0, <1>1, <2>1, <2>3, <3>1 DEF ObjectFrame
    <2> QED
      BY <2>2, <2>3
  <1>4. \A r \in Runs : d \notin bundle[r]
    BY <1>1, <1>2, BundleKeysSafe
  <1>5. FinishedRunHasObjects'
    BY <1>1, <1>4 DEF ObjectInv, FinishedRunHasObjects
  <1> QED
    BY <1>3, <1>5 DEF ObjectInv, ObjectFrame

\* The run's own frame finishes it and leaves.
LEMMA FinalizeObjects ==
    ASSUME RuntimeInv, AttemptInv, ObjectInv, NEW w \in Workers, FinalizeRun(w)
    PROVE  ObjectInv'
  <1> DEFINE x == client[w].run
  <1>0. /\ worker \in [Workers -> Worker] /\ worker[w] \in Worker
        /\ client \in [Workers -> Client] /\ status \in [Runs -> RunStatus]
        /\ bundle \in [Runs -> SUBSET Keyspace]
    BY DEF RuntimeInv, RuntimeTypeOK, TypeOK
  <1>1. /\ worker[w].pc = "finalize" /\ Finalize(w, worker[w].outcome)
        /\ bundle' = [bundle EXCEPT ![x] = @ \cup worker[w].staged]
        /\ worker' = [worker EXCEPT ![w].pc = "leave"] /\ UNCHANGED objects
    BY DEF FinalizeRun, CommitBundle, At, Goto
  <1>2. Busy(w) /\ x \in Runs
    <2>1. Busy(w)
      BY <1>1 DEF Busy, Idle
    <2> QED
      BY <2>1, BusyIsRunning DEF RuntimeInv, JobsInv, HeldRuns
  <1>3. /\ client'[w].run = x /\ \A v \in Workers \ {w} : client'[v] = client[v]
        /\ UNCHANGED attempt /\ status' = [status EXCEPT ![x] = worker[w].outcome]
    BY <1>0, <1>1 DEF Finalize, EndRun, Client
  <1>4. status[x] = "RUNNING" /\ attempt[x] = client[w].token
    <2>1. status[x] = "RUNNING" /\ leaseToken[x] = client[w].token
      BY <1>1, SeenIsCurrent DEF Finalize, RequireLease, RuntimeInv
    <2> QED
      BY <1>2, <2>1 DEF RuntimeInv, JobsInv, LeaseOnlyWhileRunning, AttemptsBounded
  <1>5. worker[w].staged \subseteq objects /\ worker[w].staged # {}
    BY <1>1, <1>2 DEF ObjectInv, ObjectFrame, Publishing, Ready
  <1>6. ASSUME NEW v \in Workers, Busy(v)' PROVE ObjectFrame(v)'
    <2>1. CASE v = w
      BY <1>0, <1>1, <2>1 DEF ObjectFrame, Early, Publishing, Ready, Worker
    <2>2. CASE v # w
      <3>1. worker'[v] = worker[v] /\ client'[v] = client[v] /\ Busy(v)
        BY <1>0, <1>1, <1>3, <1>6, <2>2 DEF Busy
      <3>2. client[v].run = x => attempt[x] # worker[v].attempt
        BY <1>2, <1>4, <2>2, <3>1 DEF AttemptInv, FrameInv, TokensDisjoint
      <3>3. client[v].run # x => status'[client[v].run] = status[client[v].run]
        BY <1>0, <1>3, <3>1, BusyIsRunning DEF RuntimeInv, JobsInv, HeldRuns
      <3>4. ObjectFrame(v)
        BY DEF ObjectInv
      <3> QED
        BY <1>1, <1>3, <3>1, <3>2, <3>3, <3>4 DEF ObjectFrame
    <2> QED
      BY <2>1, <2>2
  <1>7. FinishedRunHasObjects'
    <2>1. bundle[x] = {}
      BY <1>2, <1>4 DEF AttemptInv, BundleFromFinalAttempt, Finished
    <2>2. bundle'[x] = worker[w].staged
      BY <1>0, <1>1, <1>2, <2>1
    <2>3. \A r \in Runs : r # x => bundle'[r] = bundle[r] /\ status'[r] = status[r]
      BY <1>0, <1>1, <1>3
    <2> QED
      BY <1>1, <1>5, <2>2, <2>3 DEF ObjectInv, FinishedRunHasObjects
  <1> QED
    BY <1>6, <1>7 DEF ObjectInv, ObjectFrame

LEMMA StartObjects ==
    ASSUME RuntimeInv, AttemptInv, ObjectInv, NEW w \in Workers, NEW r \in Runs, StartRun(w, r)
    PROVE  ObjectInv'
  <1>0. /\ worker \in [Workers -> Worker] /\ client \in [Workers -> Client]
        /\ status \in [Runs -> RunStatus] /\ attempt \in [Runs -> Nat]
    BY DEF RuntimeInv, RuntimeTypeOK, TypeOK
  <1>1. /\ UNCHANGED <<objects, bundle>>
        /\ \A v \in Workers \ {w} : worker'[v] = worker[v] /\ client'[v] = client[v]
        /\ worker'[w].pc = "work" /\ worker'[w].staged = {}
        /\ client'[w].run = r /\ status'[r] = "RUNNING"
        /\ \A x \in Runs \ {r} : status'[x] = status[x] /\ attempt'[x] = attempt[x]
    BY <1>0 DEF StartRun, Claim, NewProcess
  <1>2. ASSUME NEW v \in Workers, Busy(v)' PROVE ObjectFrame(v)'
    <2>1. CASE v = w
      BY <1>1, <2>1 DEF ObjectFrame, Early, Publishing, Ready, Finished
    <2>2. CASE v # w
      <3>1. worker'[v] = worker[v] /\ client'[v] = client[v] /\ Busy(v) /\ ObjectFrame(v)
        BY <1>1, <1>2, <2>2 DEF Busy, ObjectInv
      <3>2. client[v].run \in Runs
        BY <3>1, BusyIsRunning DEF RuntimeInv, JobsInv, HeldRuns
      <3> QED
        BY <1>1, <3>1, <3>2 DEF ObjectFrame, Finished
    <2> QED
      BY <2>1, <2>2
  <1>3. FinishedRunHasObjects'
    BY <1>0, <1>1 DEF ObjectInv, FinishedRunHasObjects, Finished
  <1> QED
    BY <1>2, <1>3 DEF ObjectInv, ObjectFrame

\* The remaining steps finish no run, begin no frame and leave the bucket alone.
LEMMA OtherObjects ==
    ASSUME RuntimeInv, AttemptInv, ObjectInv,
           \/ ServiceNext \/ UNCHANGED allVars
           \/ \E w \in Workers :
                 \/ \E taken \in SUBSET Expired : Poll(w, taken)
                 \/ NothingQueued(w) \/ Leave(w) \/ EndProcess(w) \/ Crash(w)
                 \/ RequestShutdown(w) \/ Stop(w) \/ Restart(w)
                 \/ ReloadRun(w) \/ BeginFinalize(w)
                 \/ AcknowledgeCancel(w) \/ FailRun(w) \/ Renew(w)
    PROVE  ObjectInv'
  <1>0. /\ worker \in [Workers -> Worker] /\ client \in [Workers -> Client]
        /\ status \in [Runs -> RunStatus]
    BY DEF RuntimeInv, RuntimeTypeOK, TypeOK
  <1>p. NewProcess.pc = "poll"
    BY DEF NewProcess
  <1>1. CASE ServiceNext \/ UNCHANGED allVars
    <2>1. UNCHANGED <<worker, client, bundle, objects>>
      BY <1>1 DEF ServiceNext, CreateNext, BeginCreate, CheckCreate, InsertRun, InsertConflict,
         ResolveConflict, CancelQueued, CancelRunning, Tick, clientVars, runtimeVars, allVars, vars
    <2>2. \A r \in Runs : status'[r] \in Finished => status[r] \in Finished
      BY <1>0, <1>1 DEF ServiceNext, CreateNext, BeginCreate, CheckCreate, InsertRun,
         InsertConflict, ResolveConflict, CancelQueued, CancelRunning, Tick, Finished, allVars, vars
    <2>3. \A v \in Workers : Busy(v)' => GoesOn(v)
      BY <2>1 DEF GoesOn, Busy
    <2>4. [Next]_vars
      BY <1>1, ServiceSteps DEF allVars
    <2> QED
      BY <2>1, <2>2, <2>3, <2>4, ObjectsKept
  <1>2. ASSUME NEW w \in Workers,
               \/ \E taken \in SUBSET Expired : Poll(w, taken)
               \/ NothingQueued(w) \/ Leave(w) \/ EndProcess(w) \/ Crash(w)
               \/ RequestShutdown(w) \/ Stop(w) \/ Restart(w)
        PROVE  ObjectInv'
    <2>1. [Next]_vars /\ RuntimeInv'
      BY <1>2, ProcessSteps
    <2>2. /\ UNCHANGED <<bundle, objects>>
          /\ \A v \in Workers \ {w} : worker'[v] = worker[v] /\ client'[v] = client[v]
      BY <1>0, <1>2 DEF Poll, Reclaim, NothingQueued, NoJob, Leave, EndProcess, Crash, Drop,
         RequestShutdown, Stop, Restart, Goto, runtimeVars, vars, clientVars
    <2>3. ASSUME Busy(w)' PROVE GoesOn(w)
      <3>1. worker'[w].pc # "poll" /\ worker'[w].pc # "down"
        BY <2>3 DEF Busy, Idle
      <3>2. RequestShutdown(w)
        <4>1. CASE (\E taken \in SUBSET Expired : Poll(w, taken)) \/ NothingQueued(w)
          BY <3>1, <4>1 DEF Poll, NothingQueued, At, runtimeVars
        <4>2. CASE Leave(w) \/ EndProcess(w) \/ Crash(w) \/ Stop(w) \/ Restart(w)
          <5>1. CASE Leave(w)
            BY <1>0, <3>1, <5>1 DEF Leave, NewProcess
          <5>2. CASE EndProcess(w) \/ Crash(w)
            BY <1>0, <3>1, <5>2 DEF EndProcess, Crash, NewProcess
          <5>3. CASE Stop(w)
            BY <1>0, <3>1, <5>3 DEF Stop, Goto, Worker
          <5>4. CASE Restart(w)
            BY <1>0, <3>1, <5>4 DEF Restart, NewProcess
          <5> QED
            BY <4>2, <5>1, <5>2, <5>3, <5>4
        <4> QED
          BY <1>2, <4>1, <4>2
      <3> QED
        BY <1>0, <2>3, <3>2 DEF RequestShutdown, GoesOn, Busy, Worker, vars, clientVars
    <2>4. \A r \in Runs : status'[r] \in Finished => status[r] \in Finished
      BY <1>0, <1>2 DEF Poll, Reclaim, NothingQueued, NoJob, Leave, EndProcess, Crash, Drop,
         RequestShutdown, Stop, Restart, Finished, vars
    <2> QED
      BY <2>1, <2>2, <2>3, <2>4, OthersGoOn, ObjectsKept
  <1>3. ASSUME NEW w \in Workers,
               \/ ReloadRun(w) \/ BeginFinalize(w)
               \/ AcknowledgeCancel(w) \/ FailRun(w) \/ Renew(w)
        PROVE  ObjectInv'
    <2>1. [Next]_vars
      BY <1>3, CallSteps
    <2>2. /\ UNCHANGED <<bundle, objects>>
          /\ \A v \in Workers \ {w} : worker'[v] = worker[v] /\ client'[v] = client[v]
      BY <1>0, <1>3 DEF ReloadRun, BeginFinalize, AcknowledgeCancel, FailRun, Renew, Refresh,
         Acknowledge, Fail, EndRun, Heartbeat, Goto, runtimeVars, clientVars
    <2>3. Busy(w)
      <3>1. Busy(w) <=> worker[w].pc \in Running
        BY BusyIsRunning DEF RuntimeInv
      <3> QED
        BY <1>3, <3>1 DEF ReloadRun, BeginFinalize, AcknowledgeCancel, FailRun, Renew, At, Running
    <2>4. GoesOn(w)
      <3>1. /\ client'[w].run = client[w].run
            /\ worker'[w].attempt = worker[w].attempt /\ worker'[w].staged = worker[w].staged
        BY <1>0, <1>3 DEF ReloadRun, BeginFinalize, AcknowledgeCancel, FailRun, Renew, Refresh,
           Acknowledge, Fail, EndRun, Heartbeat, Goto, runtimeVars, clientVars, Client, Worker
      <3>2. <<worker[w].pc, worker'[w].pc>> \in
               {<<"returned", "branch">>, <<"published", "finalize">>, <<"ack", "leave">>,
                <<"fail", "leave">>} \/ worker'[w].pc = worker[w].pc
        BY <1>0, <1>3 DEF ReloadRun, BeginFinalize, AcknowledgeCancel, FailRun, Renew, Goto, At,
           runtimeVars, Worker
      <3> QED
        BY <2>3, <3>1, <3>2 DEF GoesOn, Early, Publishing, Ready
    <2>5. \A r \in Runs : status'[r] \in Finished => status[r] \in Finished
      BY <1>0, <1>3 DEF ReloadRun, BeginFinalize, AcknowledgeCancel, FailRun, Renew, Refresh,
         Acknowledge, Fail, EndRun, Heartbeat, Finished
    <2> QED
      BY <2>1, <2>2, <2>4, <2>5, OthersGoOn, ObjectsKept
  <1> QED
    BY <1>1, <1>2, <1>3

\* A COMPLETE or PARTIAL run keeps the objects its bundle lists, as long as the
\* reply to a commit is never lost: no other attempt's clean-up, and no late
\* unwinding of the worker that finished it, deletes one.
THEOREM ObjectsOutliveAttempts ==
    ASSUME "commit" \notin Faults, Artifacts # {}
    PROVE  RuntimeSpec => []FinishedRunHasObjects
  <1>1. WorkerInit => ObjectInv
    BY DEF WorkerInit, Init, NoRuns, ObjectInv, ObjectFrame, FinishedRunHasObjects, Busy, Idle,
       NewProcess, Finished
  <1>2. RuntimeInv /\ AttemptInv /\ ObjectInv /\ [RuntimeNext]_allVars => ObjectInv'
    <2> SUFFICES ASSUME RuntimeInv, AttemptInv, ObjectInv, [RuntimeNext]_allVars
                 PROVE  ObjectInv'
      OBVIOUS
    <2>1. ASSUME NEW w \in Workers, WorkerNext(w) PROVE ObjectInv'
      <3>1. ~CommitReplyLost(w)
        BY DEF CommitReplyLost
      <3>2. CASE Advance(w)
        BY <3>1, <3>2, FrameObjects, RereadObjects, PutObjects, DiscardObjects, FinalizeObjects,
           OtherObjects DEF Advance
      <3>3. CASE Threads(w)
        BY <3>3, FrameObjects, OtherObjects DEF Threads
      <3> QED
        BY <2>1, <3>2, <3>3, StartObjects, OtherObjects DEF WorkerNext
    <2> QED
      BY <2>1, OtherObjects DEF RuntimeNext
  <1>3. ObjectInv => FinishedRunHasObjects
    BY DEF ObjectInv
  <1> QED
    BY <1>1, <1>2, <1>3, AttemptInvariant, PTL DEF RuntimeSpec

-----------------------------------------------------------------------------
(***************************************************************************)
(* Orphans.  An object in the bucket is listed by its run's bundle or known*)
(* to a frame that will still publish or discard it.  Inductive with what  *)
(* each point of run_once knows of the keys it has put: before the         *)
(* publication and after a clean-up there is none, and a frame leaves with *)
(* keys only when the transaction that lists them has committed.           *)
(***************************************************************************)
Holding == {"publish", "published", "finalize", "discard", "leave"}

OrphanFrame(w) ==
    /\ worker[w].pc \notin Holding => worker[w].staged = {}
    /\ worker[w].pc = "leave" => \A k \in worker[w].staged : k \in bundle[k.run]

OrphanInv ==
    /\ \A w \in Workers : OrphanFrame(w)
    /\ NoOrphanObjects

\* Steps that put nothing, drop no bundle row, and move one frame w.
LEMMA OrphansKept ==
    ASSUME RuntimeInv, OrphanInv, objects' \subseteq objects,
           \A r \in Runs : bundle[r] \subseteq bundle'[r],
           NEW w \in Workers, \A v \in Workers \ {w} : worker'[v] = worker[v],
           OrphanFrame(w)',
           \A k \in worker[w].staged :
              k \in worker'[w].staged \/ k \in bundle[k.run] \/ k \notin objects'
    PROVE  OrphanInv'
  <1>0. objects \subseteq Keyspace /\ \A v \in Workers : worker[v].staged \subseteq Keyspace
    BY DEF RuntimeInv, RuntimeTypeOK, Worker
  <1>1. \A k \in Keyspace : k \in bundle[k.run] => k \in bundle'[k.run]
    BY DEF Keyspace
  <1>2. ASSUME NEW v \in Workers PROVE OrphanFrame(v)'
    <2>1. CASE v = w
      BY <2>1
    <2>2. CASE v # w
      BY <1>0, <1>1, <2>2 DEF OrphanInv, OrphanFrame
    <2> QED
      BY <2>1, <2>2
  <1>3. ASSUME NEW k \in objects'
        PROVE  k \in bundle'[k.run] \/ \E v \in Workers : k \in worker'[v].staged
    <2>1. k \in objects /\ k \in Keyspace
      BY <1>0, <1>3
    <2>2. CASE k \in bundle[k.run]
      BY <1>1, <2>1, <2>2
    <2>3. ASSUME NEW v \in Workers, k \in worker[v].staged
          PROVE  k \in bundle'[k.run] \/ k \in worker'[v].staged
      <3>1. CASE v = w
        BY <1>1, <1>3, <2>1, <2>3, <3>1
      <3>2. CASE v # w
        BY <2>3, <3>2
      <3> QED
        BY <3>1, <3>2
    <2> QED
      BY <2>1, <2>2, <2>3 DEF OrphanInv, NoOrphanObjects
  <1> QED
    BY <1>2, <1>3 DEF OrphanInv, NoOrphanObjects

\* The frame of w moves on with the keys it has.
LEMMA HolderMoves ==
    ASSUME RuntimeInv, OrphanInv, "put" \notin Faults,
           NEW w \in Workers,
           \/ \E o \in Outcomes : ProcessorReturns(w, o)
           \/ ProcessorRaises(w) \/ AbandonReturned(w) \/ ReloadRun(w)
           \/ PublicationFails(w) \/ AllPut(w) \/ AbandonPublished(w) \/ BeginFinalize(w)
           \/ FinalizeRejected(w)
           \/ AcknowledgeCancel(w) \/ Unwind(w) \/ FailRun(w) \/ TransitionRejected(w)
           \/ Discarded(w) \/ Stop(w) \/ Threads(w) \/ RequestShutdown(w)
           \/ NothingQueued(w) \/ \E taken \in SUBSET Expired : Poll(w, taken)
    PROVE  OrphanInv'
  <1>0. worker \in [Workers -> Worker] /\ worker[w] \in Worker
    BY DEF RuntimeInv, RuntimeTypeOK
  <1>1. UNCHANGED <<objects, bundle>>
    BY DEF ProcessorReturns, ProcessorRaises, AbandonReturned, ReloadRun,
       PublicationFails, AllPut, AbandonPublished, BeginFinalize,
       FinalizeRejected, AcknowledgeCancel, Unwind, FailRun,
       TransitionRejected, Discarded, Stop, Threads, Renew, RenewFails, WatchCancel,
       RequestShutdown, NothingQueued, Poll, runtimeVars
  <1>2. /\ \A v \in Workers \ {w} : worker'[v] = worker[v]
        /\ worker'[w].staged = worker[w].staged
    BY <1>0 DEF ProcessorReturns, ProcessorRaises, AbandonReturned, ReloadRun,
       PublicationFails, AllPut, AbandonPublished, BeginFinalize,
       FinalizeRejected, AcknowledgeCancel, Unwind, FailRun,
       TransitionRejected, Discarded, Stop, Threads, Renew, RenewFails, WatchCancel,
       RequestShutdown, NothingQueued, Poll, runtimeVars, Goto, DiscardThen, Worker
  <1>3. \/ worker'[w].pc = worker[w].pc
        \/ worker'[w].pc \in {"publish", "published", "finalize", "discard"}
        \/ worker[w].staged = {}
    <2>1. CASE ReloadRun(w)
               \/ AcknowledgeCancel(w) \/ Unwind(w) \/ FailRun(w) \/ Stop(w)
               \/ \E o \in Outcomes : ProcessorReturns(w, o)
      <3>1. worker[w].pc \notin Holding
        BY <2>1 DEF ReloadRun, AcknowledgeCancel, Unwind, FailRun,
           Stop, ProcessorReturns, At, Holding
      <3> QED
        BY <3>1 DEF OrphanInv, OrphanFrame
    <2>2. CASE TransitionRejected(w)
      <3>1. worker[w].pc \notin Holding
        BY <2>2 DEF TransitionRejected, At, Holding
      <3> QED
        BY <3>1 DEF OrphanInv, OrphanFrame
    <2>3. CASE Discarded(w)
      BY <2>3 DEF Discarded
    <2>4. CASE AllPut(w)
      BY <1>0, <2>4 DEF AllPut, Goto, Worker
    <2>5. CASE BeginFinalize(w)
      BY <1>0, <2>5 DEF BeginFinalize, Goto, Worker
    <2>6. CASE ProcessorRaises(w) \/ AbandonReturned(w) \/ PublicationFails(w)
               \/ AbandonPublished(w) \/ FinalizeRejected(w)
      <3>1. \E l : DiscardThen(w, l)
        BY <2>6 DEF ProcessorRaises, AbandonReturned, PublicationFails, AbandonPublished,
           FinalizeRejected
      <3> QED
        BY <1>0, <3>1 DEF DiscardThen, Worker
    <2>7. CASE Threads(w) \/ RequestShutdown(w) \/ NothingQueued(w)
               \/ \E taken \in SUBSET Expired : Poll(w, taken)
      BY <1>0, <2>7 DEF Threads, Renew, RenewFails, WatchCancel, RequestShutdown,
         NothingQueued, Poll, runtimeVars, Worker
    <2> QED
      BY <2>1, <2>2, <2>3, <2>4, <2>5, <2>6, <2>7
  <1>4. OrphanFrame(w)'
    BY <1>1, <1>2, <1>3 DEF OrphanInv, OrphanFrame, Holding
  <1> QED
    BY <1>1, <1>2, <1>4, OrphansKept

\* When the database answers the except clause, a frame that reads its row again
\* goes on to the clean-up with the keys it has.
LEMMA HolderRereads ==
    ASSUME RuntimeInv, OrphanInv, "outage" \notin Faults, NEW w \in Workers,
           Branch(w) \/ UnsafeManifest(w) \/ DatabaseFails(w)
    PROVE  OrphanInv'
  <1>1. /\ UNCHANGED <<objects, bundle>>
        /\ \A v \in Workers \ {w} : worker'[v] = worker[v]
        /\ worker'[w].staged = worker[w].staged
    BY Rereads
  <1>2. worker'[w].pc = "discard" \/ worker[w].staged = {}
    BY Rereads DEF OrphanInv, OrphanFrame, Holding
  <1>3. OrphanFrame(w)'
    BY <1>1, <1>2 DEF OrphanFrame, Holding
  <1> QED
    BY <1>1, <1>3, OrphansKept

\* A frame that begins or ends holds no key, or only keys its run's bundle lists.
LEMMA HolderResets ==
    ASSUME RuntimeInv, OrphanInv, NEW w \in Workers,
           Leave(w) \/ EndProcess(w) \/ Restart(w) \/ \E r \in Runs : StartRun(w, r)
    PROVE  OrphanInv'
  <1>0. worker \in [Workers -> Worker]
    BY DEF RuntimeInv, RuntimeTypeOK
  <1>1. /\ UNCHANGED <<objects, bundle>>
        /\ \A v \in Workers \ {w} : worker'[v] = worker[v]
        /\ worker'[w].staged = {}
    <2>1. UNCHANGED <<objects, bundle>>
      BY DEF Leave, EndProcess, Restart, StartRun
    <2>2. \E f \in {NewProcess, [NewProcess EXCEPT !.shutdown = worker[w].shutdown],
                    [NewProcess EXCEPT !.pc = "down"]} :
             worker' = [worker EXCEPT ![w] = f]
          \/ \E r \in Runs : StartRun(w, r)
      BY DEF Leave, EndProcess, Restart
    <2>3. ASSUME NEW r \in Runs, StartRun(w, r)
          PROVE  /\ \A v \in Workers \ {w} : worker'[v] = worker[v]
                 /\ worker'[w].staged = {}
      BY <1>0, <2>3 DEF StartRun, NewProcess
    <2> QED
      BY <1>0, <2>1, <2>2, <2>3 DEF NewProcess
  <1>2. worker[w].pc \in {"poll", "down", "leave", "escape"}
    BY DEF Leave, EndProcess, Restart, StartRun, At
  <1>3. \A k \in worker[w].staged : k \in bundle[k.run]
    BY <1>2 DEF OrphanInv, OrphanFrame, Holding
  <1>4. OrphanFrame(w)'
    BY <1>1 DEF OrphanFrame
  <1> QED
    BY <1>1, <1>3, <1>4, OrphansKept

\* The transaction that lists the keys commits, whether or not its reply arrives.
LEMMA HolderCommits ==
    ASSUME RuntimeInv, AttemptInv, OrphanInv, "outage" \notin Faults, NEW w \in Workers,
           FinalizeRun(w) \/ CommitReplyLost(w)
    PROVE  OrphanInv'
  <1> DEFINE x == client[w].run
  <1>0. /\ worker \in [Workers -> Worker] /\ worker[w] \in Worker
        /\ bundle \in [Runs -> SUBSET Keyspace]
    BY DEF RuntimeInv, RuntimeTypeOK
  <1>1. /\ worker[w].pc = "finalize"
        /\ bundle' = [bundle EXCEPT ![x] = @ \cup worker[w].staged]
        /\ UNCHANGED objects
    BY DEF FinalizeRun, CommitReplyLost, CommitBundle, At
  <1>2. /\ \A v \in Workers \ {w} : worker'[v] = worker[v]
        /\ worker'[w].staged = worker[w].staged
        /\ worker'[w].pc \in {"leave", "discard"}
    BY <1>0 DEF FinalizeRun, CommitReplyLost, Goto, DiscardThen, Worker
  <1>3. Busy(w) /\ x \in Runs
    <2>1. Busy(w)
      BY <1>1 DEF Busy, Idle
    <2> QED
      BY <2>1, BusyIsRunning DEF RuntimeInv, JobsInv, HeldRuns
  <1>4. \A k \in worker[w].staged : k.run = x
    BY <1>3 DEF AttemptInv, FrameInv
  <1>5. \A r \in Runs : bundle[r] \subseteq bundle'[r]
    BY <1>0, <1>1
  <1>6. \A k \in worker[w].staged : k \in bundle'[k.run]
    BY <1>0, <1>1, <1>3, <1>4
  <1>7. OrphanFrame(w)'
    BY <1>2, <1>6 DEF OrphanFrame, Holding
  <1> QED
    BY <1>1, <1>2, <1>5, <1>7, OrphansKept

\* The clean-up forgets a key only with its object: the keys of a frame are its own.
LEMMA HolderDiscards ==
    ASSUME RuntimeInv, AttemptInv, OrphanInv, "delete" \notin Faults, NEW w \in Workers,
           NEW d \in worker[w].staged, DiscardOne(w, d)
    PROVE  OrphanInv'
  <1>0. /\ worker \in [Workers -> Worker] /\ worker[w] \in Worker
        /\ d \in Keyspace
    BY DEF RuntimeInv, RuntimeTypeOK, Worker
  <1>1. worker[w].pc = "discard"
    BY DEF DiscardOne, At
  <1>2. d.run = client[w].run /\ d.attempt = worker[w].attempt
    BY <1>1 DEF Busy, Idle, AttemptInv, FrameInv
  <1>3. OwnKey(w, d)
    BY <1>0, <1>2 DEF OwnKey, KeyOf, ObjectKey, Keyspace
  <1>4. /\ objects' = objects \ {d} /\ UNCHANGED bundle
        /\ \A v \in Workers \ {w} : worker'[v] = worker[v]
        /\ worker'[w].pc = "discard" /\ worker'[w].staged = worker[w].staged \ {d}
    BY <1>0, <1>1, <1>3 DEF DiscardOne, Worker
  <1>5. OrphanFrame(w)'
    BY <1>4 DEF OrphanFrame, Holding
  <1> QED
    BY <1>4, <1>5, OrphansKept

\* An object that is put is known to the frame that puts it.
LEMMA HolderPuts ==
    ASSUME RuntimeInv, OrphanInv, NEW w \in Workers, NEW a \in Artifacts, PutArtifact(w, a)
    PROVE  OrphanInv'
  <1>0. worker \in [Workers -> Worker] /\ worker[w] \in Worker
    BY DEF RuntimeInv, RuntimeTypeOK
  <1>1. /\ UNCHANGED bundle /\ objects' = objects \cup {KeyOf(w, a)}
        /\ \A v \in Workers \ {w} : worker'[v] = worker[v]
        /\ worker'[w].pc = "publish"
        /\ worker'[w].staged = worker[w].staged \cup {KeyOf(w, a)}
    BY <1>0 DEF PutArtifact, At, Worker
  <1>2. ASSUME NEW v \in Workers PROVE OrphanFrame(v)'
    BY <1>1 DEF OrphanInv, OrphanFrame, Holding
  <1>3. ASSUME NEW k \in objects'
        PROVE  k \in bundle'[k.run] \/ \E v \in Workers : k \in worker'[v].staged
    <2>1. CASE k = KeyOf(w, a)
      BY <1>1, <2>1
    <2>2. CASE k # KeyOf(w, a)
      BY <1>1, <1>3, <2>2 DEF OrphanInv, NoOrphanObjects
    <2> QED
      BY <2>1, <2>2
  <1> QED
    BY <1>2, <1>3 DEF OrphanInv, NoOrphanObjects

\* Without crashes, storage errors and a database still away when the last except
\* clause reads run.id, no object is left behind: whatever run_once unwinds through,
\* signals, refused or lost commits and passing database errors included, each
\* object it put is listed by its run or still known to the frame.
THEOREM NothingLeftBehind ==
    ASSUME Faults \cap {"crash", "put", "delete", "outage"} = {}
    PROVE  RuntimeSpec => []NoOrphanObjects
  <1>1. WorkerInit => OrphanInv
    BY DEF WorkerInit, OrphanInv, OrphanFrame, NoOrphanObjects, NewProcess
  <1>2. RuntimeInv /\ AttemptInv /\ OrphanInv /\ [RuntimeNext]_allVars => OrphanInv'
    <2> SUFFICES ASSUME RuntimeInv, AttemptInv, OrphanInv, [RuntimeNext]_allVars
                 PROVE  OrphanInv'
      OBVIOUS
    <2>1. /\ "crash" \notin Faults /\ "put" \notin Faults
          /\ "delete" \notin Faults /\ "outage" \notin Faults
      OBVIOUS
    <2>2. CASE ServiceNext \/ UNCHANGED allVars
      <3>1. UNCHANGED <<worker, objects, bundle>>
        BY <2>2 DEF ServiceNext, runtimeVars, allVars
      <3> QED
        BY <3>1 DEF OrphanInv, OrphanFrame, NoOrphanObjects
    <2>3. ASSUME NEW w \in Workers, WorkerNext(w) PROVE OrphanInv'
      <3>1. ~Crash(w)
        BY <2>1 DEF Crash
      <3>2. CASE Advance(w)
        BY <2>1, <3>2, HolderMoves, HolderRereads, HolderResets, HolderCommits, HolderDiscards,
           HolderPuts DEF Advance
      <3> QED
        BY <2>1, <2>3, <3>1, <3>2, HolderMoves, HolderResets DEF WorkerNext
    <2> QED
      BY <2>2, <2>3 DEF RuntimeNext
  <1>3. OrphanInv => NoOrphanObjects
    BY DEF OrphanInv
  <1> QED
    BY <1>1, <1>2, <1>3, AttemptInvariant, PTL DEF RuntimeSpec

\* Through every fault, signal and restart of the workers a run is held as often as it
\* may be and ends once.
THEOREM RuntimeImplementsLifecycle == RuntimeSpec => LifecycleRefined
  BY RuntimeImplementsJobs, JobsImplementLifecycle, PTL

===============================================================================
