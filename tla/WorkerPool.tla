----------------------------- MODULE WorkerPool -----------------------------
(***************************************************************************)
(* Bounded local parallelism: ordered_bounded_map of                       *)
(* src/legal_rag/evaluation/bounded_parallel.py, the way                   *)
(* src/scripts/run_d066_candidate_discovery.py (_rank) and                 *)
(* src/scripts/build_d067_features.py (_build_rows) use it.  The main      *)
(* thread submits every task, consumes the results in input order, and     *)
(* closes the workers' resources one by one when it has left the pool.  A  *)
(* worker thread opens its own read-only index connection with its first   *)
(* task, audits it, keeps it in its thread-local storage and registers it  *)
(* in the list the main thread closes.                                     *)
(*                                                                         *)
(* The main thread may be thrown out of whatever it does: by Ctrl-C, which *)
(* comes at any moment, by a thread that cannot be started, by the         *)
(* progress callback, by a close() that raises.                            *)
(*                                                                         *)
(* ThreadPoolExecutor is external: a first-in first-out queue of futures;  *)
(* map() waits for the futures in their order and, left early, cancels the *)
(* others one after the other, the last first; leaving the "with" block    *)
(* waits for the threads, which empty the queue.  A thread that was never  *)
(* started is one that never takes a task.                                 *)
(***************************************************************************)
EXTENDS Naturals, Sequences, FiniteSets

CONSTANTS
    Workers,        \* the pool's threads, max_workers of them
    NTasks,         \* len(values)
    FailingSets,    \* the sets of tasks whose function may raise
    MaxAuditFailures \* bound: how many audits of a connection fail

Tasks == 1 .. NTasks

ASSUME PoolAssumption ==
    /\ Cardinality(Workers) \in 1 .. 8
    /\ NTasks \in Nat
    /\ FailingSets \subseteq SUBSET Tasks
    /\ MaxAuditFailures \in Nat

VARIABLES
    failing,        \* the tasks whose function raises in this call
    future,         \* task -> the state of its future
    worker,         \* thread -> what it does, and the task it does it for
    connection,     \* thread -> its thread-local connection
    leaked,         \* how many connections failed their audit and stay open
    created,        \* the registered connections, by thread
    main,           \* what the main thread does
    outputs,        \* the results consumed so far
    error,          \* what the main thread raises: a task, or "interrupt"
    interrupted     \* what the main thread was thrown out of

vars == <<failing, future, worker, connection, leaked, created,
          main, outputs, error, interrupted>>
pool == <<failing, connection, leaked, created>>
caller == <<main, outputs, error, interrupted>>

NoTask == 0
NoError == 0
Interrupt == NTasks + 1

\* Where the main thread goes on when it is thrown out of what it does.
After == [submit |-> "shutdown", consume |-> "cancel", cancel |-> "shutdown",
          shutdown |-> "close", close |-> "raised"]
Over == {"returned", "raised"}

TypeOK ==
    /\ failing \in FailingSets
    /\ future \in [Tasks -> {"new", "pending", "running", "done", "raised", "cancelled"}]
    /\ worker \in [Workers -> [at : {"idle", "open", "audit", "register", "run"},
                               task : Tasks \union {NoTask}]]
    /\ connection \in [Workers -> {"none", "open", "closed"}]
    /\ leaked \in 0 .. MaxAuditFailures
    /\ created \subseteq Workers
    /\ main \in DOMAIN After \union Over
    /\ outputs \in UNION {[1 .. n -> Tasks] : n \in 0 .. NTasks}
    /\ error \in Tasks \union {NoError, Interrupt}
    /\ interrupted \subseteq DOMAIN After

Init ==
    /\ failing \in FailingSets
    /\ future = [t \in Tasks |-> "new"]
    /\ worker = [w \in Workers |-> [at |-> "idle", task |-> NoTask]]
    /\ connection = [w \in Workers |-> "none"]
    /\ leaked = 0
    /\ created = {}
    /\ main = "submit"
    /\ outputs = <<>>
    /\ error = NoError
    /\ interrupted = {}

Pending == {t \in Tasks : future[t] = "pending"}
Least(S) == CHOOSE t \in S : \A u \in S : t <= u
Greatest(S) == CHOOSE t \in S : \A u \in S : u <= t
Goes(w, place) == worker' = [worker EXCEPT ![w].at = place]
Idle(w) == [worker EXCEPT ![w] = [at |-> "idle", task |-> NoTask]]

------------------------------------------------------------------------------
(* A worker thread *)

\* The next future of the queue; the connection is looked for in the
\* thread-local storage.
Take(w) ==
    /\ worker[w].at = "idle"
    /\ Pending # {}
    /\ future' = [future EXCEPT ![Least(Pending)] = "running"]
    /\ worker' = [worker EXCEPT ![w] =
                    [at |-> IF connection[w] = "none" THEN "open" ELSE "run",
                     task |-> Least(Pending)]]
    /\ UNCHANGED <<pool, caller>>

Open(w) ==
    /\ worker[w].at = "open"
    /\ Goes(w, "audit")
    /\ UNCHANGED <<future, pool, caller>>

\* audit_sparse_execution_contract; when it raises, the connection is neither
\* kept nor registered.
Audit(w) ==
    /\ worker[w].at = "audit"
    /\ \/ /\ connection' = [connection EXCEPT ![w] = "open"]
          /\ Goes(w, "register")
          /\ UNCHANGED <<future, leaked>>
       \/ /\ leaked < MaxAuditFailures
          /\ leaked' = leaked + 1
          /\ future' = [future EXCEPT ![worker[w].task] = "raised"]
          /\ worker' = Idle(w)
          /\ UNCHANGED connection
    /\ UNCHANGED <<failing, created, caller>>

\* Faulty variant: the list of connections is overwritten.
RegisterAlone(w) ==
    /\ worker[w].at = "register"
    /\ created' = {w}
    /\ Goes(w, "run")
    /\ UNCHANGED <<failing, future, connection, leaked, caller>>

\* created.append under created_lock.
Register(w) ==
    /\ worker[w].at = "register"
    /\ created' = created \union {w}
    /\ Goes(w, "run")
    /\ UNCHANGED <<failing, future, connection, leaked, caller>>

\* Faulty variant: a function that raises ends its thread.
RunDies(w) ==
    /\ worker[w].at = "run"
    /\ worker[w].task \notin failing
    /\ future' = [future EXCEPT ![worker[w].task] = "done"]
    /\ worker' = Idle(w)
    /\ UNCHANGED <<pool, caller>>

\* rank_one, one: the function's result or exception goes to the future.  A
\* connection closed meanwhile makes it raise, unless it was done with it.
Run(w) ==
    /\ worker[w].at = "run"
    /\ \E state \in {"done", "raised"} :
          /\ state = "done" => worker[w].task \notin failing
          /\ state = "raised" => worker[w].task \in failing \/ connection[w] = "closed"
          /\ future' = [future EXCEPT ![worker[w].task] = state]
    /\ worker' = Idle(w)
    /\ UNCHANGED <<pool, caller>>

------------------------------------------------------------------------------
(* The main thread *)

Unsubmitted == {t \in Tasks : future[t] = "new"}

\* pool.map submits the tasks before the loop begins; threads start with the
\* first.
Submit ==
    /\ main = "submit"
    /\ IF Unsubmitted # {}
       THEN /\ future' = [future EXCEPT ![Least(Unsubmitted)] = "pending"]
            /\ UNCHANGED main
       ELSE /\ main' = "consume"
            /\ UNCHANGED future
    /\ UNCHANGED <<worker, pool, outputs, error, interrupted>>

\* Faulty variant: results are taken as they come.
NextResults ==
    {t \in Tasks : future[t] \in {"done", "raised"} /\
                   \A k \in DOMAIN outputs : outputs[k] # t}

\* Whose result the main thread waits for.
NextResult == {Len(outputs) + 1} \intersect Tasks

\* The for loop over pool.map(...).
Consume ==
    /\ main = "consume"
    /\ \E t \in NextResult :
          \/ /\ future[t] = "done"
             /\ outputs' = Append(outputs, t)
             /\ UNCHANGED <<main, error>>
          \/ /\ future[t] = "raised"
             /\ error' = t
             /\ main' = "cancel"
             /\ UNCHANGED outputs
    /\ UNCHANGED <<future, worker, pool, interrupted>>

AllConsumed ==
    /\ main = "consume" /\ Len(outputs) = NTasks
    /\ main' = "shutdown"
    /\ UNCHANGED <<future, worker, pool, outputs, error, interrupted>>

\* Faulty variant: the futures are left in the queue.
NothingToCancel == {}

ToCancel == Pending

\* map() is left by an exception: the futures not yet running are cancelled,
\* from the last to the first, while the threads take them from the first on.
Cancel ==
    /\ main = "cancel"
    /\ IF ToCancel # {}
       THEN /\ future' = [future EXCEPT ![Greatest(ToCancel)] = "cancelled"]
            /\ UNCHANGED main
       ELSE /\ main' = "shutdown"
            /\ UNCHANGED future
    /\ UNCHANGED <<worker, pool, outputs, error, interrupted>>

\* Faulty variant: the pool does not wait for its threads.
NotWaited == Workers # {}

\* shutdown(wait=True) returns when the queue is empty and no thread runs.
AllIdle == Pending = {} /\ \A w \in Workers : worker[w].at = "idle"

Shutdown ==
    /\ main = "shutdown"
    /\ AllIdle
    /\ main' = "close"
    /\ UNCHANGED <<future, worker, pool, outputs, error, interrupted>>

ToClose == {w \in created : connection[w] = "open"}

\* The finally clause around the map: the loop over the registered connections,
\* in any order; one registered while it runs is still met.
Close ==
    /\ main = "close"
    /\ \/ /\ \E w \in ToClose : connection' = [connection EXCEPT ![w] = "closed"]
          /\ UNCHANGED main
       \/ /\ ToClose = {}
          /\ main' = IF error = NoError THEN "returned" ELSE "raised"
          /\ UNCHANGED connection
    /\ UNCHANGED <<failing, future, worker, leaked, created, outputs, error, interrupted>>

\* The main thread is thrown out of what it does.  In the loop this is between
\* two results, or while it waits for one, whose future it then cancels first.
\* Thrown out of the submission it cancels nothing; of the shutdown, it leaves
\* threads running and goes on to close their connections.
Interrupted ==
    /\ main \in DOMAIN After
    /\ main' = After[main]
    /\ error' = Interrupt
    /\ interrupted' = interrupted \union {main}
    /\ \/ UNCHANGED future
       \/ /\ main = "consume"
          /\ \E t \in NextResult \intersect Pending :
                future' = [future EXCEPT ![t] = "cancelled"]
    /\ UNCHANGED <<worker, pool, outputs>>

Work(w) == Take(w) \/ Open(w) \/ Audit(w) \/ Register(w) \/ Run(w)
MainStep == Submit \/ Consume \/ AllConsumed \/ Cancel \/ Shutdown \/ Close

Next == (\E w \in Workers : Work(w)) \/ MainStep \/ Interrupted

\* Every thread goes on.
Fairness == WF_vars(MainStep) /\ \A w \in Workers : WF_vars(Work(w))
Spec == Init /\ [][Next]_vars /\ Fairness

------------------------------------------------------------------------------
(* Properties *)

\* The outcome is that of a sequential loop, whatever the order in which threads
\* finish ("return exact input order"): what is consumed is a prefix of the results
\* in input order, all of them when the call returns, and the exception is that of
\* the first input that fails, unless an audit or the caller interfered.
OutcomeOfTheLoop ==
    /\ \A k \in DOMAIN outputs : outputs[k] = k
    /\ main = "returned" => Len(outputs) = NTasks
    /\ main = "raised" /\ leaked = 0 /\ error # Interrupt =>
          failing # {} /\ error = Least(failing)

\* The connections are closed when the pool is done with them, and all are
\* closed: also when the main thread is thrown out of the submission, of the
\* loop or of the cancelling, a closed connection is one whose thread has
\* nothing more to do, and in the end only those that failed their audit stay
\* open.  Not so when it is thrown out of the shutdown, which leaves threads at
\* work, or out of the closing.
ClosedAfterLastUse ==
    /\ "shutdown" \notin interrupted =>
          \A w \in Workers : connection[w] = "closed" => worker[w].at = "idle" /\ Pending = {}
    /\ main \in Over /\ interrupted \intersect {"shutdown", "close"} = {} =>
          \A w \in Workers : connection[w] # "open"

\* An aborted map runs no further task: a future starts only while the main
\* thread submits, consumes or cancels -- unless it was thrown out of the
\* submission, after which nothing is cancelled, or out of the cancelling.
AbortStartsNothing ==
    [][main \notin {"submit", "consume", "cancel"}
         /\ interrupted \intersect {"submit", "cancel"} = {} =>
             \A t \in Tasks : future[t] # "running" => future'[t] # "running"]_vars

\* The call comes to an end and so do its threads: with failing tasks and audits
\* and wherever it is interrupted, nobody waits for ever.
MapEnds == <>(main \in Over /\ AllIdle)
==============================================================================
