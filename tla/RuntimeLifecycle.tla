-------------------------- MODULE RuntimeLifecycle --------------------------
(***************************************************************************)
(* app.Run from its first line to its last: what it acquires while it      *)
(* starts (app/runtime.go, app/listener.go), the goroutines it starts, and *)
(* the ways out: a failure of any acquisition, the context that is done at *)
(* any moment, and a server that stops by itself.  Requests are handled    *)
(* while all of this goes on.                                              *)
(*                                                                         *)
(* Run is one goroutine, whose place is `stage`.  Beside it run the HTTP   *)
(* server, the handlers of requests, and two workers: the collection loop  *)
(* (CollectionScheduler) and the retention worker (HistoryStore), of which *)
(* this module keeps only whether they are at work.                        *)
(***************************************************************************)
EXTENDS Integers, FiniteSets, Sequences

CONSTANTS
  Addresses,   \* what an interface may have and a socket may be bound to
  Suitable,    \* the IPv4 addresses that suitableTailscaleIPv4 accepts
  Interfaces,  \* what systemInterface may find for tailscale0
  Requests     \* bound: the requests that come

\* An interface that is down, or one with its addresses.
ASSUME RuntimeAssumption ==
  /\ Suitable \subseteq Addresses
  /\ Interfaces \subseteq [up : BOOLEAN, addresses : SUBSET Addresses]

Databases == {"history", "audit"}
Workers == {"scheduler", "retention"}

VARIABLES
  stage,     \* where Run is
  ctx,       \* Run's context is done
  errors,    \* what Run has to report when it returns
  listener,  \* "none", "open", "closed"
  bound,     \* the addresses the listener is bound to: none or one
  database,  \* of each database: "none", "open", "closed"
  closers,   \* the databases to close, in the order of their opening
  stopped,   \* stopWatcher and stopWorkers were called
  workers,   \* of each worker: "none", "begun", "idle", "busy", "done"
  serve,     \* the goroutine of server.Serve
  shutdown,  \* the server refuses connections
  request    \* of each request: how far its handler is

vars == <<stage, ctx, errors, listener, bound, database, closers, stopped,
          workers, serve, shutdown, request>>
acquired == <<listener, bound, database, closers>>
started == <<stopped, workers, serve, shutdown, request>>

Init ==
  /\ stage = "entering"
  /\ ctx \in BOOLEAN
  /\ errors = {}
  /\ listener = "none" /\ bound = {}
  /\ database = [d \in Databases |-> "none"]
  /\ closers = <<>>
  /\ stopped = FALSE
  /\ workers = [w \in Workers |-> "none"]
  /\ serve = "none"
  /\ shutdown = FALSE
  /\ request = [r \in Requests |-> "none"]

-----------------------------------------------------------------------------
(***************************************************************************)
(* Startup.                                                                *)
(***************************************************************************)

\* Run goes on to its next stage.
Proceed(next) == stage' = next /\ UNCHANGED <<ctx, errors, acquired, started>>

\* Run returns before it holds anything.
Refuse(e) ==
  /\ stage' = "returned"
  /\ errors' = errors \cup {e}
  /\ UNCHANGED <<ctx, acquired, started>>

\* Mutant: the listener is closed and the databases are forgotten.
AbortListenerOnly(e) ==
  /\ stage' = "returned"
  /\ errors' = errors \cup {e}
  /\ listener' = "closed"
  /\ UNCHANGED <<ctx, bound, database, closers, workers, serve, shutdown, request>>

\* Run gives up what it holds: the listener, and then what closers has.
Abort(e) ==
  /\ stage' = "closing"
  /\ errors' = errors \cup {e}
  /\ listener' = "closed"
  /\ UNCHANGED <<ctx, bound, database, closers, workers, serve, shutdown, request>>

\* The context is done already, or the options are not usable.
Enter ==
  /\ stage = "entering"
  /\ \/ ~ctx /\ Proceed("loading")
     \/ Refuse("options")

LoadSettings ==
  /\ stage = "loading"
  /\ Proceed("listening") \/ Refuse("settings")

\* The one address to listen on; none if the interface is down, has no
\* suitable address, or has more than one.
Discovered(i) ==
  LET suitable == i.addresses \cap Suitable
  IN IF i.up /\ Cardinality(suitable) = 1 THEN suitable ELSE {}

\* The socket that the system gave is on the address that was asked for.
Verified(wanted, actual) == actual = wanted

Listen ==
  /\ stage = "listening"
  /\ \/ Refuse("listen")
     \/ \E i \in Interfaces, a \in Addresses :
          /\ Discovered(i) # {}
          /\ bound' = {a}
          /\ IF Verified(Discovered(i), {a})
             THEN listener' = "open" /\ stage' = "opening" /\ UNCHANGED errors
             ELSE /\ listener' = "closed" /\ stage' = "returned"
                  /\ errors' = errors \cup {"listen"}
          /\ UNCHANGED <<ctx, database, closers, started>>

\* A database that is opened is one more to close.  With a context that is
\* done no connection is made.
Open(d) ==
  /\ ~ctx
  /\ database' = [database EXCEPT ![d] = "open"]
  /\ closers' = Append(closers, d)
  /\ UNCHANGED <<ctx, errors, listener, bound, started>>

OpenHistory ==
  /\ stage = "opening"
  /\ \/ Open("history") /\ stage' = "building"
     \/ Abort("history") /\ UNCHANGED stopped

\* The repository, the collectors and the scheduler.
Build ==
  /\ stage = "building"
  /\ \/ Proceed("auditing")
     \/ Abort("build") /\ UNCHANGED stopped

\* Without the audit database the service starts all the same.
OpenAudit ==
  /\ stage = "auditing"
  /\ \/ Open("audit") /\ stage' = "watching"
     \/ Proceed("watching")

\* The watcher, the workers, and the goroutine that serves.
Start ==
  /\ stage = "watching"
  /\ \/ /\ ~ctx
        /\ stage' = "serving"
        /\ workers' = [w \in Workers |-> "begun"]
        /\ serve' = "begun"
        /\ UNCHANGED <<ctx, errors, acquired, stopped, shutdown, request>>
     \/ Abort("watch") /\ stopped' = TRUE

-----------------------------------------------------------------------------
(***************************************************************************)
(* The goroutines.                                                         *)
(***************************************************************************)

\* The workers' context is derived from Run's.
WorkersDone == ctx \/ stopped

\* A worker is about its work, in which it uses the history database.  The
\* retention worker begins with a cleanup; the loop of the scheduler looks at
\* its context first.
WorkerBegins(w) ==
  /\ workers[w] = "begun"
  /\ workers' = [workers EXCEPT ![w] =
                   IF w = "retention" THEN "busy"
                   ELSE IF WorkersDone THEN "done" ELSE "idle"]
  /\ UNCHANGED <<stage, ctx, errors, acquired, stopped, serve, shutdown, request>>

\* Its ticker or timer has fired; the select may take it although the context
\* is done as well.
WorkerWorks(w) ==
  /\ workers[w] = "idle"
  /\ workers' = [workers EXCEPT ![w] = "busy"]
  /\ UNCHANGED <<stage, ctx, errors, acquired, stopped, serve, shutdown, request>>

WorkerRests(w) ==
  /\ workers[w] = "busy"
  /\ workers' = [workers EXCEPT ![w] = "idle"]
  /\ UNCHANGED <<stage, ctx, errors, acquired, stopped, serve, shutdown, request>>

WorkerEnds(w) ==
  /\ workers[w] = "idle"
  /\ WorkersDone
  /\ workers' = [workers EXCEPT ![w] = "done"]
  /\ UNCHANGED <<stage, ctx, errors, acquired, stopped, serve, shutdown, request>>

\* Serve takes the listener, unless the server was shut down before.
ServeBegins ==
  /\ serve = "begun"
  /\ IF shutdown THEN serve' = "closed" /\ listener' = "closed"
                 ELSE serve' = "accepting" /\ UNCHANGED listener
  /\ UNCHANGED <<stage, ctx, errors, bound, database, closers, stopped, workers,
                 shutdown, request>>

\* Accept fails, because of the shutdown or by itself.  Serve closes the
\* listener and returns.
ServeReturns ==
  /\ serve = "accepting"
  /\ serve' = IF shutdown THEN "closed" ELSE "failed"
  /\ listener' = "closed"
  /\ UNCHANGED <<stage, ctx, errors, bound, database, closers, stopped, workers,
                 shutdown, request>>

SetRequest(r, s) ==
  /\ request' = [request EXCEPT ![r] = s]
  /\ UNCHANGED <<stage, ctx, errors, acquired, stopped, workers, serve, shutdown>>

\* A request comes in, looks into the history database or not, and is
\* answered.  A query of a closed database is an error at once; a handler that
\* panics ends its query and is answered for.
Accept(r) ==
  /\ serve = "accepting" /\ ~shutdown
  /\ request[r] = "none"
  /\ SetRequest(r, "handling")

Query(r) ==
  /\ request[r] = "handling"
  /\ database["history"] = "open"
  /\ SetRequest(r, "querying")

QueryEnds(r) == request[r] = "querying" /\ SetRequest(r, "handling")

Active == {r \in Requests : request[r] \in {"handling", "querying"}}
Answer(r) == r \in Active /\ SetRequest(r, "answered")

-----------------------------------------------------------------------------
(***************************************************************************)
(* Shutdown.                                                               *)
(***************************************************************************)

\* The context of Run is done: SIGINT or SIGTERM.
Cancel ==
  /\ ~ctx
  /\ ctx' = TRUE
  /\ UNCHANGED <<stage, errors, acquired, started>>

\* Mutant: the workers' context is left to Run's.
StopServicesByContext ==
  /\ stage = "serving"
  /\ \/ ctx /\ stage' = "stopping" /\ UNCHANGED errors
     \/ /\ serve = "failed"
        /\ stage' = "failing"
        /\ errors' = errors \cup {"serve"}
  /\ UNCHANGED <<ctx, acquired, started>>

\* The select of serve, with both cases ready if need be, and the two
\* contexts that stopServices cancels.
StopServices ==
  /\ stage = "serving"
  /\ \/ ctx /\ stage' = "stopping" /\ UNCHANGED errors
     \/ /\ serve = "failed"
        /\ stage' = "failing"
        /\ errors' = errors \cup {"serve"}
  /\ stopped' = TRUE
  /\ UNCHANGED <<ctx, acquired, workers, serve, shutdown, request>>

\* Mutant: the workers are stopped and not waited for.
WorkersTold == stopped

\* workers.Wait.
WorkersEnded == \A w \in Workers : workers[w] = "done"

\* A server that failed is not drained.
WaitAfterFailure ==
  /\ stage = "failing"
  /\ WorkersEnded
  /\ Proceed("closing")

\* Shutdown closes the listener, if Serve has taken it, and every connection
\* without a request.
BeginShutdown ==
  /\ stage = "stopping"
  /\ WorkersEnded
  /\ stage' = "draining"
  /\ shutdown' = TRUE
  /\ listener' = IF serve = "accepting" THEN "closed" ELSE listener
  /\ UNCHANGED <<ctx, errors, bound, database, closers, stopped, workers, serve,
                 request>>

Drained ==
  /\ stage = "draining"
  /\ Active = {}
  /\ Proceed("joining")

\* Mutant: the error of Shutdown is dropped.
ShutdownTimesOutSilently ==
  /\ stage = "draining"
  /\ Active # {}
  /\ Proceed("joining")

\* The 15 seconds are over: Close drops the connections, but their handlers
\* go on.
ShutdownTimesOut ==
  /\ stage = "draining"
  /\ Active # {}
  /\ stage' = "joining"
  /\ errors' = errors \cup {"shutdown"}
  /\ UNCHANGED <<ctx, acquired, started>>

\* Mutant: the error of Serve is dropped, whichever it is.
JoinServeSilently ==
  /\ stage = "joining"
  /\ serve \in {"failed", "closed"}
  /\ Proceed("closing")

\* Serve's error is received, also one that came before the shutdown.
JoinServe ==
  /\ stage = "joining"
  /\ serve \in {"failed", "closed"}
  /\ stage' = "closing"
  /\ errors' = IF serve = "failed" THEN errors \cup {"serve"} ELSE errors
  /\ UNCHANGED <<ctx, acquired, started>>

NextCloser == closers[Len(closers)]

\* closeAll closes the rest also if one cannot be closed.
Close ==
  /\ stage = "closing" /\ closers # <<>>
  /\ database' = [database EXCEPT ![NextCloser] = "closed"]
  /\ closers' = SubSeq(closers, 1, Len(closers) - 1)
  /\ errors' \in {errors, errors \cup {"close"}}
  /\ UNCHANGED <<stage, ctx, listener, bound, started>>

Return ==
  /\ stage = "closing" /\ closers = <<>>
  /\ Proceed("returned")

-----------------------------------------------------------------------------
RunStep ==
  \/ Enter \/ LoadSettings \/ Listen \/ OpenHistory \/ Build \/ OpenAudit \/ Start
  \/ StopServices \/ WaitAfterFailure \/ BeginShutdown \/ Drained
  \/ ShutdownTimesOut \/ JoinServe \/ Close \/ Return

\* When Run has returned the process exits, whatever its goroutines do.
Exited == stage = "returned" /\ UNCHANGED vars

ServiceStep ==
  \/ RunStep
  \/ ServeBegins \/ ServeReturns
  \/ \E w \in Workers :
       WorkerBegins(w) \/ WorkerWorks(w) \/ WorkerRests(w) \/ WorkerEnds(w)
  \/ Cancel

Next ==
  \/ ServiceStep
  \/ \E r \in Requests : Accept(r) \/ Query(r) \/ QueryEnds(r) \/ Answer(r)
  \/ Exited

Spec == Init /\ [][Next]_vars

(*****************************************************************************)
(* Run goes on, Accept returns once the listener is closed, and a worker's   *)
(* work ends: a run of the scheduler when its providers return (LoopStops of *)
(* CollectionScheduler), a cleanup when its statements do (WorkerStops of    *)
(* HistoryStore).  The select of a worker is fair to a context that is done. *)
(* Handlers owe nothing: that is what the shutdown's deadline is for.        *)
(*****************************************************************************)
Fairness ==
  /\ WF_vars(RunStep)
  /\ WF_vars(ServeBegins \/ (shutdown /\ ServeReturns))
  /\ \A w \in Workers :
       WF_vars(WorkerBegins(w) \/ WorkerRests(w)) /\ SF_vars(WorkerEnds(w))

FairSpec == Spec /\ Fairness

-----------------------------------------------------------------------------
(***************************************************************************)
(* Properties.                                                             *)
(***************************************************************************)

Stages ==
  {"entering", "loading", "listening", "opening", "building", "auditing", "watching",
   "serving", "stopping", "failing", "draining", "joining", "closing", "returned"}
Errors ==
  {"options", "settings", "listen", "history", "build", "watch", "serve", "shutdown",
   "close"}

TypeOK ==
  /\ stage \in Stages
  /\ ctx \in BOOLEAN /\ stopped \in BOOLEAN /\ shutdown \in BOOLEAN
  /\ errors \subseteq Errors
  /\ listener \in {"none", "open", "closed"}
  /\ bound \subseteq Addresses
  /\ database \in [Databases -> {"none", "open", "closed"}]
  /\ closers \in {<<>>, <<"history">>, <<"history", "audit">>}
  /\ workers \in [Workers -> {"none", "begun", "idle", "busy", "done"}]
  /\ serve \in {"none", "begun", "accepting", "failed", "closed"}
  /\ request \in [Requests -> {"none", "handling", "querying", "answered"}]

\* Whichever way Run returns, it has released what it acquired on that way:
\* the listener, both databases, the watcher and the workers.
NothingHeld ==
  stage = "returned" =>
    /\ listener # "open"
    /\ \A d \in Databases : database[d] # "open"
    /\ \A w \in Workers : workers[w] \in {"none", "done"}
    /\ serve # "none" => stopped /\ serve \in {"failed", "closed"}

\* docs/runtime-foundation.md: cancellation "asks the HTTP server to drain
\* active requests [...] and then closes the audit and history databases".  A
\* request outlives a database only if the deadline passed or the server had
\* failed, and then Run reports it.
RequestsDrained ==
  Active # {} /\ (\E d \in Databases : database[d] = "closed") =>
    {"shutdown", "serve"} \cap errors # {}

\* What is released is released once, in the reverse order, and no database is
\* closed under a worker that has not ended or a listener that could still
\* accept a request, whichever way Run is left.
ReleaseOrder ==
  [][\A d \in Databases :
       database'[d] # database[d] =>
         \/ database[d] = "none" /\ database'[d] = "open"
         \/ /\ database[d] = "open" /\ database'[d] = "closed"
            /\ listener # "open" /\ workers' = workers
            /\ \A w \in Workers : workers[w] \in {"none", "done"}
            /\ d = "history" => database["audit"] # "open"]_vars

\* Run returns without an error only if it was told to stop and the server
\* served until then: a server that failed is reported even if Run saw the
\* context first, and a service that never served never looks stopped.
FailureReported ==
  stage = "returned" =>
    /\ serve = "failed" => "serve" \in errors
    /\ errors = {} => ctx /\ serve = "closed"

\* A signal or a failed server ends Run, whatever has been started by then and
\* however long handlers take.
RunEnds == (ctx \/ serve = "failed") ~> stage = "returned"
=============================================================================
