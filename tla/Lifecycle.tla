----------------------------- MODULE Lifecycle -----------------------------
(***************************************************************************)
(* The life of the API process: main (cmd/api/main.go), Bootstrap and      *)
(* Server.Start with its shutdown goroutine (internal/server), the two     *)
(* connection pools and the job queue they open and close (internal/db).   *)
(*                                                                         *)
(* main and the shutdown goroutine interleave with requests, with jobs and *)
(* with a signal that may arrive at any instant.  What the libraries do is *)
(* modelled from how they are used: pgxpool's Close refuses new            *)
(* connections at once and waits for those in use, River's Stop starts no  *)
(* more jobs and waits for those running, http.Server's Shutdown closes    *)
(* the listener and waits for active requests.  Every wait is under a      *)
(* context that never ends.                                                *)
(***************************************************************************)
EXTENDS Integers

CONSTANTS
    Requests,   \* concurrent client requests
    MaxJobs     \* bound: jobs the queue works at a time

ASSUME JobsAssumption == MaxJobs \in Nat

VARIABLES
    main,       \* the step main is at
    exit,       \* how the process ended, "no" while it runs
    root,       \* the application's pool
    river,      \* the job queue's pool
    queue,      \* db.queue and its client
    jobs,       \* jobs being worked
    shut,       \* the step the shutdown goroutine is at
    signalled,  \* a signal was delivered to the goroutine
    stopping,   \* server.Shutdown was called
    req         \* request -> where it stands

vars == <<main, exit, root, river, queue, jobs, shut, signalled, stopping, req>>
boot == <<shut, signalled, stopping, req, jobs>>     \* untouched by Bootstrap
down == <<main, exit, signalled, req>>               \* untouched by shutdown

(* One type invariant for the process.                                      *)
TypeOK ==
    /\ main \in {"newRoot", "newRiver", "ping", "jwt", "validator", "newQueue",
                 "startQueue", "build", "listen", "serving", "waiting"}
    /\ exit \in {"no", "returned", "serveError", "fatal", "panic", "killed"}
    /\ root \in {"none", "open", "closing", "closed"}
    /\ river \in {"none", "open", "closed"}
    /\ queue \in {"none", "created", "running", "stopping", "stopped"}
    /\ jobs \in 0..MaxJobs
    /\ shut \in {"none", "spawned", "listening", "stopQueue", "close", "closeRoot",
                 "closeRiver", "shutdown", "draining", "complete"}
    /\ signalled \in BOOLEAN /\ stopping \in BOOLEAN
    /\ req \in [Requests -> {"idle", "accepted", "querying"}]

Alive == exit = "no"

-----------------------------------------------------------------------------
(* Bootstrap.                                                               *)

(* createRootPool, in db.New.                                               *)
NewRoot(ok) ==
    /\ Alive /\ main = "newRoot"
    /\ IF ok THEN main' = "newRiver" /\ root' = "open" /\ UNCHANGED exit
             ELSE exit' = "fatal" /\ UNCHANGED <<main, root>>
    /\ UNCHANGED <<river, queue, boot>>

(* Mutant of NewRiver: a failure forgets the pool opened before.            *)
NewRiverForgets(ok) ==
    /\ Alive /\ main = "newRiver"
    /\ IF ok THEN main' = "ping" /\ river' = "open" /\ UNCHANGED exit
             ELSE exit' = "fatal" /\ UNCHANGED <<main, river>>
    /\ UNCHANGED <<root, queue, boot>>

(* createRiverPool; a failure closes the other pool.                        *)
NewRiver(ok) ==
    /\ Alive /\ main = "newRiver"
    /\ IF ok THEN main' = "ping" /\ river' = "open" /\ UNCHANGED <<root, exit>>
             ELSE exit' = "fatal" /\ root' = "closed" /\ UNCHANGED <<main, river>>
    /\ UNCHANGED <<queue, boot>>

(* PostgresDB.Close before anything uses the pools, then log.Fatalf: no job *)
(* and no request holds a connection, so nothing is waited for.             *)
CloseAndDie ==
    /\ exit' = "fatal"
    /\ queue' = IF queue = "none" THEN "none" ELSE "stopped"
    /\ root' = "closed"
    /\ river' = "closed"
    /\ UNCHANGED main

(* Ping, InitJWT and InitValidator, each closing the database on failure.   *)
Following == [ping |-> "jwt", jwt |-> "validator", validator |-> "newQueue"]

BootstrapStep(ok) ==
    /\ Alive /\ main \in {"ping", "jwt", "validator"}
    /\ IF ok THEN main' = Following[main] /\ UNCHANGED <<exit, root, river, queue>>
             ELSE CloseAndDie
    /\ UNCHANGED boot

(* StartQueue: the client is kept in db.queue before it is started.         *)
NewQueue(ok) ==
    /\ Alive /\ main = "newQueue"
    /\ IF ok THEN main' = "startQueue" /\ queue' = "created" /\ UNCHANGED <<exit, root, river>>
             ELSE CloseAndDie
    /\ UNCHANGED boot

QueueStart(ok) ==
    /\ Alive /\ main = "startQueue"
    /\ IF ok THEN main' = "build" /\ queue' = "running" /\ UNCHANGED <<exit, root, river>>
             ELSE CloseAndDie
    /\ UNCHANGED boot

(* MustBuildHandler panics on a violation; handleShutdown starts the        *)
(* goroutine.                                                               *)
Build(ok) ==
    /\ Alive /\ main = "build"
    /\ IF ok THEN main' = "listen" /\ shut' = "spawned" /\ UNCHANGED exit
             ELSE exit' = "panic" /\ UNCHANGED <<main, shut>>
    /\ UNCHANGED <<root, river, queue, jobs, signalled, stopping, req>>

-----------------------------------------------------------------------------
(* ListenAndServeTLS and the end of Start.                                  *)

(* A server that was shut down before it listens returns at once.           *)
Listen ==
    /\ Alive /\ main = "listen"
    /\ main' = IF stopping THEN "waiting" ELSE "serving"
    /\ UNCHANGED <<exit, root, river, queue, boot>>

(* Mutant of ServeFails: the end that Shutdown causes is taken for one too. *)
ServeFailsAnyTime ==
    /\ Alive /\ main \in {"listen", "serving"}
    /\ exit' = "serveError"
    /\ UNCHANGED <<main, root, river, queue, boot>>

(* The listener cannot be opened or fails later: Start logs and returns.    *)
(* Once Shutdown was called net/http reports ErrServerClosed instead.       *)
ServeFails ==
    /\ Alive /\ main \in {"listen", "serving"} /\ ~stopping
    /\ exit' = "serveError"
    /\ UNCHANGED <<main, root, river, queue, boot>>

(* ErrServerClosed, as soon as Shutdown was called.                         *)
ServerClosed ==
    /\ Alive /\ main = "serving" /\ stopping
    /\ main' = "waiting"
    /\ UNCHANGED <<exit, root, river, queue, boot>>

(* Mutant of ShutdownComplete: Start does not wait for the goroutine.       *)
ShutdownUnawaited == main = "waiting"

(* <-shutdownComplete, after which main returns.                            *)
ShutdownComplete == main = "waiting" /\ shut = "complete"

Return ==
    /\ Alive
    /\ ShutdownComplete
    /\ exit' = "returned"
    /\ UNCHANGED <<main, root, river, queue, boot>>

-----------------------------------------------------------------------------
(* Requests and jobs.                                                       *)

Accept(r) ==
    /\ Alive /\ main = "serving" /\ ~stopping
    /\ req[r] = "idle"
    /\ req' = [req EXCEPT ![r] = "accepted"]
    /\ UNCHANGED <<main, exit, root, river, queue, jobs, shut, signalled, stopping>>

(* The handler takes a connection.                                          *)
Acquire(r) ==
    /\ Alive /\ req[r] = "accepted"
    /\ root = "open"
    /\ req' = [req EXCEPT ![r] = "querying"]
    /\ UNCHANGED <<main, exit, root, river, queue, jobs, shut, signalled, stopping>>

(* The request is answered and its connection released; without one it is   *)
(* a request that needs none or that the closed pool turned away.           *)
Respond(r) ==
    /\ Alive /\ req[r] \in {"accepted", "querying"}
    /\ req' = [req EXCEPT ![r] = "idle"]
    /\ UNCHANGED <<main, exit, root, river, queue, jobs, shut, signalled, stopping>>

JobStarts ==
    /\ Alive /\ queue = "running" /\ jobs < MaxJobs
    /\ jobs' = jobs + 1
    /\ UNCHANGED <<main, exit, root, river, queue, shut, signalled, stopping, req>>

JobEnds ==
    /\ Alive /\ jobs > 0
    /\ jobs' = jobs - 1
    /\ UNCHANGED <<main, exit, root, river, queue, shut, signalled, stopping, req>>

-----------------------------------------------------------------------------
(* The shutdown goroutine.                                                  *)

(* signal.Notify, the first thing the goroutine does when it gets to run.   *)
Notify ==
    /\ Alive /\ shut = "spawned"
    /\ shut' = "listening"
    /\ UNCHANGED <<main, exit, root, river, queue, jobs, signalled, stopping, req>>

(* SIGINT or SIGTERM.  Before Notify it ends the process.                   *)
Signal ==
    /\ Alive /\ ~signalled
    /\ IF shut \in {"none", "spawned"}
       THEN exit' = "killed" /\ UNCHANGED signalled
       ELSE signalled' = TRUE /\ UNCHANGED exit
    /\ UNCHANGED <<main, root, river, queue, jobs, shut, stopping, req>>

SignalReceived == shut = "listening" /\ signalled

(* StopQueue: no new jobs, then the wait for those running.                 *)
StopQueue ==
    /\ Alive
    /\ SignalReceived
    /\ shut' = "stopQueue"
    /\ queue' = "stopping"
    /\ UNCHANGED <<root, river, jobs, stopping, down>>

JobsDone == queue = "stopping" /\ jobs = 0

QueueStopped ==
    /\ Alive
    /\ shut = "stopQueue"
    /\ JobsDone
    /\ shut' = "close"
    /\ queue' = "stopped"
    /\ UNCHANGED <<root, river, jobs, stopping, down>>

(* PostgresDB.Close: the queue is stopped already, and stopping it again    *)
(* returns; the root pool takes no more callers.                            *)
CloseRoot ==
    /\ Alive
    /\ shut = "close"
    /\ shut' = "closeRoot"
    /\ root' = "closing"
    /\ UNCHANGED <<river, queue, jobs, stopping, down>>

(* Mutant of RootIdle: connections in use are closed under their requests.  *)
RootAbandoned == root = "closing"

RootIdle == root = "closing" /\ \A r \in Requests : req[r] # "querying"

RootClosed ==
    /\ Alive
    /\ shut = "closeRoot"
    /\ RootIdle
    /\ shut' = "closeRiver"
    /\ root' = "closed"
    /\ UNCHANGED <<river, queue, jobs, stopping, down>>

CloseRiver ==
    /\ Alive
    /\ shut = "closeRiver"
    /\ shut' = "shutdown"
    /\ river' = "closed"
    /\ UNCHANGED <<root, queue, jobs, stopping, down>>

(* server.Shutdown: the listener is closed, active requests are awaited.    *)
Shutdown ==
    /\ Alive
    /\ shut = "shutdown"
    /\ shut' = "draining"
    /\ stopping' = TRUE
    /\ UNCHANGED <<root, river, queue, jobs, down>>

(* Mutant of Drained: close(shutdown) is missing.                           *)
DrainedUnannounced ==
    /\ Alive
    /\ shut = "draining"
    /\ \A r \in Requests : req[r] = "idle"
    /\ shut' = "draining"
    /\ UNCHANGED <<root, river, queue, jobs, stopping, down>>

(* ... and close(shutdown).                                                 *)
Drained ==
    /\ Alive
    /\ shut = "draining"
    /\ \A r \in Requests : req[r] = "idle"
    /\ shut' = "complete"
    /\ UNCHANGED <<root, river, queue, jobs, stopping, down>>

-----------------------------------------------------------------------------
Init ==
    /\ main = "newRoot" /\ exit = "no"
    /\ root = "none" /\ river = "none" /\ queue = "none" /\ jobs = 0
    /\ shut = "none" /\ signalled = FALSE /\ stopping = FALSE
    /\ req = [r \in Requests |-> "idle"]

Start ==
    \/ \E ok \in BOOLEAN :
          \/ NewRoot(ok) \/ NewRiver(ok) \/ BootstrapStep(ok)
          \/ NewQueue(ok) \/ QueueStart(ok) \/ Build(ok)
    \/ Listen \/ ServerClosed \/ Return

ShutdownStep ==
    \/ Notify \/ StopQueue \/ QueueStopped \/ CloseRoot \/ RootClosed
    \/ CloseRiver \/ Shutdown \/ Drained

Next ==
    \/ Start
    \/ ServeFails
    \/ \E r \in Requests : Accept(r) \/ Acquire(r) \/ Respond(r)
    \/ JobStarts \/ JobEnds
    \/ Signal
    \/ ShutdownStep

Spec == Init /\ [][Next]_vars

(* Goroutines run, handlers answer and jobs end.                            *)
FairSpec ==
    /\ Spec
    /\ WF_vars(Start) /\ WF_vars(ShutdownStep) /\ WF_vars(JobEnds)
    /\ \A r \in Requests : WF_vars(Respond(r))

-----------------------------------------------------------------------------
(* After a signalled shutdown main returns with nothing left behind: no     *)
(* request or job is cut off, the queue is stopped and both pools closed.   *)
OrderlyReturn ==
    exit = "returned" =>
        /\ queue = "stopped" /\ jobs = 0
        /\ root = "closed" /\ river = "closed"
        /\ \A r \in Requests : req[r] = "idle"

(* A pool is open or the queue not stopped.                                 *)
LeftOpen ==
    \/ root \in {"open", "closing"} \/ river = "open"
    \/ queue \in {"created", "running", "stopping"}

(* Three ends of the process leave a pool open or the queue running: a      *)
(* signal nobody listens to yet, a route tree that MustBuildHandler refuses *)
(* by a panic, and a listener that fails while the shutdown goroutine is    *)
(* not done with the database; Start closes nothing there itself.  Every    *)
(* other failure of a start, and every return, has closed what was opened.  *)
LeftOpenExplained ==
    ~Alive /\ LeftOpen =>
        \/ exit = "killed" /\ shut \in {"none", "spawned"}
        \/ exit = "panic" /\ main = "build"
        \/ exit = "serveError" /\ shut \notin {"none", "shutdown", "draining", "complete"}

(* A job never loses the pool it works on, and a request never loses the    *)
(* connection it holds, although the pools are closed first and the server  *)
(* last.                                                                    *)
NothingUsedAfterClose ==
    /\ jobs > 0 => river = "open"
    /\ \A r \in Requests : req[r] = "querying" => root \in {"open", "closing"}

(* Until somebody asks the process to end, every request finds an open pool *)
(* and a running queue.                                                     *)
ServesConnected ==
    ~signalled => \A r \in Requests :
        req[r] # "idle" => root = "open" /\ queue = "running"

(* A job or a request is under way.                                         *)
CutOff == jobs > 0 \/ \E r \in Requests : req[r] # "idle"

(* Work is cut off in four ways only: by a signal nobody listens to yet; by *)
(* a refused route tree, before which no request is accepted; by a listener *)
(* that fails before any signal; and by one that fails after it, for Start  *)
(* does not wait for the goroutine then.  The last one loses a job only     *)
(* until StopQueue has returned, a request with a connection only until the *)
(* root pool is closed, and no request that Shutdown waits for.             *)
CutOffExplained ==
    ~Alive /\ CutOff =>
        \/ exit = "killed" /\ shut \in {"none", "spawned"}
        \/ exit = "panic" /\ \A r \in Requests : req[r] = "idle"
        \/ exit = "serveError" /\ ~signalled
        \/ /\ exit = "serveError" /\ signalled
           /\ shut \in {"listening", "stopQueue", "close", "closeRoot", "closeRiver",
                        "shutdown"}
           /\ jobs > 0 => shut \in {"listening", "stopQueue"}
           /\ (\E r \in Requests : req[r] = "querying") =>
                  shut \notin {"closeRiver", "shutdown"}

(* How far the shutdown goroutine has come, and what holds from there on:   *)
(* what the invariants above need to be inductive.                          *)
Booting == main \in {"newRoot", "newRiver", "ping", "jwt", "validator",
                     "newQueue", "startQueue", "build"}

StartOrder ==
    /\ Booting <=> shut = "none"
    /\ Booting /\ jobs > 0 => main = "build"
    /\ shut \in {"none", "spawned"} => ~signalled
    /\ Booting => \A r \in Requests : req[r] = "idle"
    /\ Alive => /\ main = "newRoot" <=> root = "none"
                /\ main \in {"newRoot", "newRiver"} <=> river = "none"
                /\ main \in {"newRoot", "newRiver", "ping", "jwt", "validator", "newQueue"}
                      <=> queue = "none"
                /\ main = "startQueue" <=> queue = "created"

ShutdownOrder ==
    /\ Alive /\ shut \in {"none", "spawned", "listening"} =>
          queue \in {"none", "created", "running"}
    /\ shut \notin {"none", "spawned", "listening"} => signalled
    /\ shut \in {"close", "closeRoot", "closeRiver", "shutdown", "draining", "complete"} =>
          queue = "stopped" /\ jobs = 0
    /\ Alive /\ shut \in {"none", "spawned", "listening", "stopQueue", "close"} =>
          root \in {"none", "open"}
    /\ Alive /\ shut \in {"none", "spawned", "listening", "stopQueue", "close",
                          "closeRoot", "closeRiver"} =>
          river \in {"none", "open"}
    /\ shut = "closeRoot" => root = "closing"
    /\ shut \in {"closeRiver", "shutdown", "draining", "complete"} =>
          root = "closed"
    /\ shut \in {"shutdown", "draining", "complete"} => river = "closed"
    /\ stopping <=> shut \in {"draining", "complete"}
    /\ main = "waiting" => stopping
    /\ shut = "complete" => \A r \in Requests : req[r] = "idle"

(* The inductive invariant of the process: what is open at each step of     *)
(* main and of the shutdown goroutine.                                      *)
LifecycleInv ==
    /\ StartOrder
    /\ ShutdownOrder
    /\ CutOffExplained
    /\ OrderlyReturn
    /\ LeftOpenExplained
    /\ NothingUsedAfterClose
    /\ ServesConnected

(* A shutdown that was asked for ends: no wait of main, of the goroutine,   *)
(* of a pool or of the queue is for somebody who waits in turn.             *)
ShutdownEnds == signalled ~> ~Alive
=============================================================================
