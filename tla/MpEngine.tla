------------------------------ MODULE MpEngine ------------------------------
(***************************************************************************)
(* research/features/mp_engine.py: mp_pandas_obj deals the atoms out into  *)
(* batches, has a pool work on them and collects the results in the order  *)
(* of submission.  The result of a batch is the list of its atoms.         *)
(***************************************************************************)
EXTENDS ParallelMap, FiniteSets, SequencesExt

CONSTANTS MaxAtoms, MaxBatches, MaxThreads  \* bounds on the arguments
ASSUME EngineAssumption == MaxAtoms \in Nat /\ MaxBatches \in Nat /\ MaxThreads \in Nat

VARIABLES
  jobs,     \* the batches, in the order they were submitted
  job,      \* of each: "queued", "running", "done", "lost" or "collected"
  results   \* what has been collected

engineVars == <<call, outcome, lost, jobs, job, results>>

\* atoms[i::mpBatches]; of more batches than atoms the last ones are empty and removed.
Part(n, batches, i) == [k \in 1..((n - i) \div batches + 1) |-> i + (k - 1) * batches]
Parts(n, batches) == [i \in 1..(IF batches < n THEN batches ELSE n) |-> Part(n, batches, i)]

Fails(j) == \E k \in DOMAIN jobs[j] : jobs[j][k] \in call.failing
InState(s) == {j \in DOMAIN jobs : job[j] = s}

EngineInit == MapInit /\ jobs = <<>> /\ job = <<>> /\ results = <<>>

\* mp_pandas_obj, up to the pool: the arguments, the batches, _assert_picklable.
Refused(c) == c.threads < 1 \/ c.batches < 1 \/ (c.threads > 1 /\ ~c.picklable /\ c.atoms > 0)
SubmitJobs(c) ==
  /\ call = NoCall /\ call' = c
  /\ outcome' = IF Refused(c) THEN Raised ELSE IF c.atoms = 0 THEN Nothing ELSE <<>>
  /\ jobs' = IF outcome' = <<>> THEN Parts(c.atoms, c.batches) ELSE <<>>
  /\ job' = [j \in DOMAIN jobs' |-> "queued"]
  /\ UNCHANGED <<lost, results>>

Working == outcome = <<>> /\ call # NoCall

InAnyOrder(j) == TRUE
\* The futures are asked in the order of submission.
Turn(j) == j = Len(results) + 1

\* _process_jobs, or what `for future in futures` does with a job that is done:
\* the first that failed raises, and the pool is terminated.
Collect(j) ==
  IF Fails(j) THEN outcome' = Raised /\ UNCHANGED <<job, results>>
  ELSE /\ job' = [job EXCEPT ![j] = "collected"]
       /\ results' = Append(results, jobs[j])
       /\ UNCHANGED outcome

RunInline(j) ==
  /\ Working /\ call.threads = 1 /\ job[j] = "queued" /\ j = Len(results) + 1
  /\ Collect(j)
  /\ UNCHANGED <<call, lost, jobs>>

GetFuture(j) ==
  /\ Working /\ call.threads > 1 /\ job[j] = "done" /\ Turn(j)
  /\ Collect(j)
  /\ UNCHANGED <<call, lost, jobs>>

\* External, the pool: an idle worker takes the oldest job; a worker that dies is
\* replaced, but the job it had is never done.
TakeJob(j) ==
  /\ Working /\ call.threads > 1
  /\ job[j] = "queued" /\ \A i \in InState("queued") : j <= i
  /\ Cardinality(InState("running")) < call.threads
  /\ job' = [job EXCEPT ![j] = "running"]
  /\ UNCHANGED <<call, outcome, lost, jobs, results>>

EndJob(j) ==
  /\ Working /\ job[j] = "running"
  /\ job' = [job EXCEPT ![j] = "done"]
  /\ UNCHANGED <<call, outcome, lost, jobs, results>>

WorkerDies(j) ==
  /\ Working /\ job[j] = "running"
  /\ job' = [job EXCEPT ![j] = "lost"] /\ lost' = TRUE
  /\ UNCHANGED <<call, outcome, jobs, results>>

\* _reduce_results without a redux: the lists end to end.
ReduceResults == FlattenSeq(results)
Reduce ==
  /\ Working /\ Len(results) = Len(jobs)
  /\ outcome' = <<"returned", ReduceResults>>
  /\ UNCHANGED <<call, lost, jobs, job, results>>

Calls == [atoms : 0..MaxAtoms, batches : 0..MaxBatches, threads : 0..MaxThreads,
          failing : {s \in SUBSET (1..MaxAtoms) : Cardinality(s) <= 1}, picklable : BOOLEAN]

EngineStep ==
  Reduce \/ \E j \in DOMAIN jobs : RunInline(j) \/ GetFuture(j) \/ TakeJob(j) \/ EndJob(j)
EngineNext ==
  \/ \E c \in Calls \ {NoCall} : SubmitJobs(c)
  \/ EngineStep
  \/ \E j \in DOMAIN jobs : WorkerDies(j)

EngineSpec == EngineInit /\ [][EngineNext]_engineVars /\ WF_engineVars(EngineStep)

-----------------------------------------------------------------------------
(* Properties.                                                             *)

EngineTypeOK ==
  /\ call \in Calls /\ lost \in BOOLEAN
  /\ DOMAIN job = DOMAIN jobs
  /\ \A j \in DOMAIN job : job[j] \in {"queued", "running", "done", "lost", "collected"}
  /\ Len(results) <= Len(jobs)

\* Whatever the number of threads and the order the workers finish in, the call
\* ends like the sequential one, with the same atoms in the same order or an
\* exception, and it does end if no worker dies: nothing limits how long
\* future.get() waits for the job of one that did (mp_engine.py:197-213).
EngineIsAMap == MapSpec

=============================================================================
