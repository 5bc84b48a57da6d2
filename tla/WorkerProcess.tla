---------------------------- MODULE WorkerProcess ----------------------------
(***************************************************************************)
(* One worker of the API: the lifespan of the FastAPI application and the  *)
(* threads that serve its requests, over what they share inside the        *)
(* process: FastAPI's threads, SQLAlchemy's connections, the Redis         *)
(* connection pool that is made on first use, and the RabbitMQ connection. *)
(*                                                                         *)
(* A member of Calls is a request that creates a booking and publishes its *)
(* event when it has committed; a Reader's request needs PostgreSQL alone, *)
(* to read or to cancel.  Of their work (see CreateBooking) the model      *)
(* keeps when they take and return a connection.                           *)
(***************************************************************************)
EXTENDS RabbitMQConnection

CONSTANTS Readers,
          MaxThreads,  \* threads FastAPI runs endpoints in
          MaxDb,       \* DB_POOL_SIZE + DB_MAX_OVERFLOW
          MaxRedis     \* max_connections of the Redis pool

ASSUME WorkerAssumption ==
  /\ MaxThreads \in Nat \ {0} /\ MaxDb \in Nat \ {0} /\ MaxRedis \in Nat \ {0}
  /\ IsFiniteSet(Calls) /\ IsFiniteSet(Readers) /\ "lifespan" \notin Calls \cup Readers

VARIABLES at,        \* where a request, or the lifespan, is
          pool,      \* _redis_pool: the number of a pool, 0 for None
          pools,     \* pools made so far
          myPool,    \* the pool a client was built on
          dbHolders  \* requests that have a connection to PostgreSQL

poolVars == <<at, pool, pools, myPool, dbHolders>>
workerVars == <<poolVars, rabbitVars>>

Requests == Calls \cup Readers
Threads == Requests \cup {"lifespan"}

Busy == {r \in Requests : at[r] \notin {"idle", "done"}}

\* Threads with a command on its way to Redis, and those on connections of pool p.
Commanding == {t \in Threads : at[t] \in {"command", "undoing"}}
InCommand(p) == {t \in Commanding : myPool[t] = p}

TypeOK ==
  /\ RabbitTypeOK
  /\ at \in [Threads -> {"idle", "getpool", "creating", "gotpool", "connecting", "query",
                         "redis", "command", "commit", "undo", "undoing", "publish",
                         "closing", "done", "checking", "serving", "draining", "stopped"}]
  /\ pools \in Nat /\ pool \in 0..pools /\ myPool \in [Threads -> 0..pools]
  /\ dbHolders \subseteq Requests /\ Cardinality(dbHolders) <= MaxDb

\* The module is imported: engine and RabbitMQConnection exist, no connection.
WorkerInit == /\ RabbitInit
              /\ at = [t \in Threads |-> IF t = "lifespan" THEN "checking" ELSE "idle"]
              /\ pool = 0 /\ pools = 0 /\ myPool = [t \in Threads |-> 0]
              /\ dbHolders = {}

GoesTo(t, place) == at' = [at EXCEPT ![t] = place]

-----------------------------------------------------------------------------
(* The lifespan                                                            *)

\* A plausible slip: no check of Redis at startup.
SkipRedisCheck == /\ at["lifespan"] = "checking"
                  /\ GoesTo("lifespan", "serving")
                  /\ UNCHANGED <<pool, pools, myPool, dbHolders, rabbitVars>>

\* check_db_connection takes a connection and returns it, and its verdict is only
\* logged; check_redis_connection begins with the pool.
CheckDb == /\ at["lifespan"] = "checking"
           /\ GoesTo("lifespan", "getpool")
           /\ UNCHANGED <<pool, pools, myPool, dbHolders, rabbitVars>>

\* The process is told to stop: no request begins any more.
BeginShutdown == /\ at["lifespan"] = "serving"
                 /\ GoesTo("lifespan", "draining")
                 /\ UNCHANGED <<pool, pools, myPool, dbHolders, rabbitVars>>

\* The requests have ended: close_rabbitmq.
Shutdown == /\ at["lifespan"] = "draining" /\ Busy = {}
            /\ CloseConnection
            /\ GoesTo("lifespan", "stopped")
            /\ UNCHANGED <<pool, pools, myPool, dbHolders>>

-----------------------------------------------------------------------------
(* _get_pool, by the lifespan's thread and by the dependency get_redis.    *)

SeesNoPool(t) == /\ at[t] = "getpool" /\ pool = 0
                 /\ GoesTo(t, "creating")
                 /\ UNCHANGED <<pool, pools, myPool, dbHolders, rabbitVars>>

SeesPool(t) == /\ at[t] = "getpool" /\ pool # 0
               /\ GoesTo(t, "gotpool")
               /\ UNCHANGED <<pool, pools, myPool, dbHolders, rabbitVars>>

\* Whether or not another thread was faster.
CreatePool(t) == /\ at[t] = "creating"
                 /\ pools' = pools + 1 /\ pool' = pools'
                 /\ GoesTo(t, "gotpool")
                 /\ UNCHANGED <<myPool, dbHolders, rabbitVars>>

\* `return _redis_pool` reads the global again.  A request goes on to its session,
\* the lifespan pings, with the outcome logged.
ReturnPool(t) == /\ at[t] = "gotpool"
                 /\ myPool' = [myPool EXCEPT ![t] = pool]
                 /\ GoesTo(t, IF t = "lifespan" THEN "serving" ELSE "connecting")
                 /\ UNCHANGED <<pool, pools, dbHolders, rabbitVars>>

GetPool(t) == SeesNoPool(t) \/ SeesPool(t) \/ CreatePool(t) \/ ReturnPool(t)

-----------------------------------------------------------------------------
(* A request                                                               *)

\* A request gets a thread, and its dependencies run: get_db makes a session,
\* which has no connection yet, and get_redis calls _get_pool.
Begin(r) == /\ at[r] = "idle" /\ at["lifespan"] = "serving"
            /\ Cardinality(Busy) < MaxThreads
            /\ GoesTo(r, "getpool")
            /\ UNCHANGED <<pool, pools, myPool, dbHolders, rabbitVars>>

\* The first statement of the session takes a connection, which the session
\* keeps until commit, rollback or close.
Checkout(r) == /\ at[r] = "connecting" /\ Cardinality(dbHolders) < MaxDb
               /\ dbHolders' = dbHolders \cup {r}
               /\ GoesTo(r, "query")
               /\ UNCHANGED <<pool, pools, myPool, rabbitVars>>

\* All connections are out for 30 s: TimeoutError.
CheckoutTimesOut(r) == /\ at[r] = "connecting" /\ Cardinality(dbHolders) >= MaxDb
                       /\ GoesTo(r, "closing")
                       /\ UNCHANGED <<pool, pools, myPool, dbHolders, rabbitVars>>

\* The statements of a request to get, list or cancel, and the answer; or
\* find_overlapping, which lets a create request go on to the locks, or stops it
\* with 409 or an error.
Query(r) == /\ at[r] = "query"
            /\ \/ r \in Calls /\ GoesTo(r, "redis")
               \/ GoesTo(r, "closing")
            /\ UNCHANGED <<pool, pools, myPool, dbHolders, rabbitVars>>

\* A command to Redis takes a connection of the pool for as long as it runs.  One
\* command stands for the loop over the hours, to lock or to release them.
RedisCommand(r) == /\ at[r] \in {"redis", "undo"}
                   /\ Cardinality(InCommand(myPool[r])) < MaxRedis
                   /\ GoesTo(r, IF at[r] = "redis" THEN "command" ELSE "undoing")
                   /\ UNCHANGED <<pool, pools, myPool, dbHolders, rabbitVars>>

\* "Too many connections" raises at once, and the request fails with 500.
RedisPoolExhausted(r) == /\ at[r] \in {"redis", "undo"}
                         /\ Cardinality(InCommand(myPool[r])) >= MaxRedis
                         /\ GoesTo(r, "closing")
                         /\ UNCHANGED <<pool, pools, myPool, dbHolders, rabbitVars>>

\* The locks are taken, or the request ends with 503 or 500; it ends anyway when
\* they were to be released.
RedisAnswers(r) == /\ r \in Commanding
                   /\ \/ at[r] = "command" /\ GoesTo(r, "commit")
                      \/ GoesTo(r, "closing")
                   /\ UNCHANGED <<pool, pools, myPool, dbHolders, rabbitVars>>

\* A plausible slip: the row read again after the commit, by expire_on_commit or a
\* refresh, for the event's payload.
CommitAndReload(r) == /\ at[r] = "commit"
                      /\ GoesTo(r, "publish")
                      /\ Enter(r)
                      /\ UNCHANGED <<pool, pools, myPool, dbHolders>>

\* commit() returns the connection; then _publish is called.
Commit(r) == /\ at[r] = "commit"
             /\ dbHolders' = dbHolders \ {r}
             /\ GoesTo(r, "publish")
             /\ Enter(r)
             /\ UNCHANGED <<pool, pools, myPool>>

\* save or commit raises: the locks are released, then the session rolled back,
\* as it is when it is closed.
CommitFails(r) == /\ at[r] = "commit"
                  /\ faults < MaxFaults /\ faults' = faults + 1
                  /\ GoesTo(r, "undo")
                  /\ UNCHANGED <<pool, pools, myPool, dbHolders, holder, connection, channel, open,
                                 openChannels, severed, call, attempt, mine, racing,
                                 historyVars>>

\* _publish returns, whatever became of the event.
Published(r) == /\ at[r] = "publish" /\ call[r] \in Over
                /\ GoesTo(r, "closing")
                /\ UNCHANGED <<pool, pools, myPool, dbHolders, rabbitVars>>

\* A plausible slip: get_db without its finally clause, so that a session is closed
\* only by the endpoint that ended well.
CloseNothing(r) == /\ at[r] = "closing"
                   /\ GoesTo(r, "done")
                   /\ UNCHANGED <<pool, pools, myPool, dbHolders, rabbitVars>>

\* get_db: rollback after an exception, close always.  FastAPI runs it without
\* waiting for a thread.
CloseSession(r) == /\ at[r] = "closing"
                   /\ dbHolders' = dbHolders \ {r}
                   /\ GoesTo(r, "done")
                   /\ UNCHANGED <<pool, pools, myPool, rabbitVars>>

\* What a request does by itself once it has begun.
Works(r) == \/ GetPool(r) \/ Checkout(r) \/ CheckoutTimesOut(r) \/ Query(r)
            \/ RedisCommand(r) \/ RedisPoolExhausted(r) \/ RedisAnswers(r)
            \/ Published(r) \/ CloseSession(r)
            \/ r \in Calls /\ Commit(r)
            \/ r \in Calls /\ CallProceeds(r) /\ UNCHANGED poolVars

WorkerNext ==
  \/ CheckDb \/ BeginShutdown \/ Shutdown \/ GetPool("lifespan")
  \/ (LinkLost \/ HeartbeatMissed) /\ UNCHANGED poolVars
  \/ \E r \in Requests : Begin(r) \/ Works(r)
  \/ \E c \in Calls : CommitFails(c)
  \/ \E c \in Calls : CallSuffers(c) /\ UNCHANGED poolVars

WorkerSpec == WorkerInit /\ [][WorkerNext]_workerVars

\* Threads run, every try to connect and every command comes to an end, and the
\* lifespan goes on.  A request is made, and a stop asked for, when somebody likes.
\* A request waits for its thread, connection or lock once, so that weak fairness
\* of the wait is enough.
WorkerFairness == /\ WF_workerVars(CheckDb \/ GetPool("lifespan"))
                  /\ WF_workerVars(Shutdown)
                  /\ \A r \in Requests : WF_workerVars(Works(r))

FairWorkerSpec == WorkerSpec /\ WorkerFairness

-----------------------------------------------------------------------------
\* The worker never runs more commands on Redis at once than one pool allows,
\* although _get_pool may make a pool for each of two threads: the check at
\* startup makes the pool before there are two.
PoolBound == Cardinality(Commanding) <= MaxRedis

\* Whoever is with RabbitMQ, in a reconnection that sleeps under the lock or behind
\* it, has no connection to PostgreSQL: a broker that is down takes none from the
\* other requests.
BrokerWaitHoldsNoDb == \A c \in Calls : at[c] = "publish" => c \notin dbHolders

\* A request that has ended, well or not, left nothing taken that others wait for,
\* and a worker that has stopped leaves no RabbitMQ connection open behind it that
\* it still knew.
NothingIsLeftTaken ==
  /\ \A r \in Requests : at[r] = "done" => r \notin dbHolders \cup holder
  /\ at["lifespan"] = "stopped" => connection \notin open

\* Again and again all requests that began have ended and no shutdown is half done:
\* no thread waits for good, whatever pool is empty and however the broker fails.
EveryRequestEnds ==
  []<>(Busy = {} /\ at["lifespan"] \in {"serving", "stopped"})

-----------------------------------------------------------------------------
(* The inductive invariant behind the safety properties.                   *)

\* The check at startup makes the pool before any request begins.
OnePool ==
  IF at["lifespan"] \in {"checking", "getpool", "creating"}
  THEN pool = 0 /\ pools = 0 /\ \A r \in Requests : at[r] = "idle"
  ELSE /\ pool = 1 /\ pools = 1
       /\ \A r \in Requests : /\ at[r] # "creating"
                              /\ at[r] \notin {"idle", "getpool", "gotpool"} => myPool[r] = 1

\* Where a request is, and what it then has.
LifespanIsAt == at["lifespan"] \in {"checking", "getpool", "creating", "gotpool",
                                   "serving", "draining", "stopped"}
CallOfRequest ==
  \A c \in Calls : /\ at[c] \notin {"publish", "closing", "done"} => call[c] = "idle"
                   /\ at[c] \in {"closing", "done"} => call[c] \in {"idle"} \cup Over
DbWhileUsed ==
  \A r \in dbHolders : at[r] \in {"query", "redis", "command", "commit", "undo",
                                 "undoing", "closing"}
StoppedIsQuiet == at["lifespan"] = "stopped" => Busy = {} /\ connection \notin open

WorkerInv == /\ TypeOK /\ RabbitInv /\ LifespanIsAt /\ OnePool /\ CallOfRequest
             /\ DbWhileUsed /\ StoppedIsQuiet /\ PoolBound
=============================================================================
