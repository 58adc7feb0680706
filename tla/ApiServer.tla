------------------------------- MODULE ApiServer -------------------------------
(***************************************************************************)
(* The process: run() of cmd/api loads the configuration, opens the pool,  *)
(* wires the routes that the configuration allows, serves until a signal   *)
(* or an error of the listener, drains within HTTP_SHUTDOWN_TIMEOUT and    *)
(* closes the pool.  Requests run in goroutines of their own; what they do *)
(* to the data is in RunSync, RunDownload and Browse.                      *)
(***************************************************************************)
EXTENDS FiniteSets, Naturals

CONSTANTS
    Requests,   \* the requests of one life of the process
    MaxConns    \* size of the pool

ASSUME ServerAssumption == IsFiniteSet(Requests) /\ MaxConns \in Nat \ {0}

VARIABLES
    env,        \* what the environment variables configure
    main,       \* where run() is
    routes,     \* families of routes that NewRouter registers
    pool,       \* the pool of connections: "none", "open" or "closing"
    signalled,  \* a signal arrived that NotifyContext caught
    listener,   \* ListenAndServe: "off", "on", or what it left in serverErr
    exitCode,   \* "none", "ok", "error", or "killed" by a signal nobody catches
    req         \* the state of each request

vars == <<env, main, routes, pool, signalled, listener, exitCode, req>>

\* Sets of variables that are partly configured are "some".
Environment ==
    [database : {"none", "some", "all"}, r2 : {"none", "some", "all"}, sync : BOOLEAN]

Families == {"status", "auth", "read", "raw", "upload"}

Request == [state : {"none", "running", "querying", "storing", "answered", "cut", "cut_querying"},
            family : Families]

Active == {r \in Requests : req[r].state \in {"running", "querying", "storing"}}
Querying == {r \in Requests : req[r].state = "querying"}

\* The type invariant of the process: the pool never lends more than it has.
ServerTypeOK ==
    /\ env \in Environment
    /\ main \in {"load", "connect", "wire", "serving", "draining", "closing", "exited"}
    /\ routes \subseteq Families
    /\ pool \in {"none", "open", "closing"}
    /\ signalled \in BOOLEAN
    /\ listener \in {"off", "on", "failed", "closed"}
    /\ exitCode \in {"none", "ok", "error", "killed"}
    /\ req \in [Requests -> Request]
    /\ Cardinality(Querying) <= MaxConns

Init ==
    /\ env \in Environment
    /\ main = "load"
    /\ routes = {}
    /\ pool = "none"
    /\ signalled = FALSE
    /\ listener = "off"
    /\ exitCode = "none"
    /\ req = [r \in Requests |-> [state |-> "none", family |-> "status"]]

-----------------------------------------------------------------------------
(* Start.                                                                  *)

\* The process ends: requests that still run are cut off.
Exit(code) ==
    /\ main' = "exited"
    /\ exitCode' = code
    /\ listener' = "off"
    /\ pool' = "none"
    /\ req' = [r \in Requests |->
            CASE req[r].state = "querying" -> [req[r] EXCEPT !.state = "cut_querying"]
              [] req[r].state \in {"running", "storing"} -> [req[r] EXCEPT !.state = "cut"]
              [] OTHER -> req[r]]
    /\ UNCHANGED <<env, routes, signalled>>

\* Slip: R2 is not asked for when uploads are enabled.
ConfigIsValidWithoutR2 == env.database # "some" /\ (env.sync => env.database = "all")

\* A database that is partly configured is an error; so are uploads without a
\* database or without all of R2, whose bucket has a default.
ConfigIsValid ==
    /\ env.database # "some"
    /\ env.sync => env.database = "all" /\ env.r2 = "all"

LoadConfig ==
    /\ main = "load"
    /\ ConfigIsValid
    /\ main' = IF env.database = "all" THEN "connect" ELSE "wire"
    /\ UNCHANGED <<env, routes, pool, signalled, listener, exitCode, req>>

LoadFails == main = "load" /\ ~ConfigIsValid /\ Exit("error")

Connect ==
    /\ main = "connect"
    /\ pool' = "open"
    /\ main' = "wire"
    /\ UNCHANGED <<env, routes, signalled, listener, exitCode, req>>

\* The pool is not reachable within the five seconds of the ping.
ConnectFails == main = "connect" /\ Exit("error")

\* Slip: downloads are wired as soon as there is a database.
WiredWithoutStore ==
    {"status", "auth"}
    \cup (IF pool = "open" THEN {"read", "raw"} ELSE {})
    \cup (IF pool = "open" /\ env.r2 = "all" /\ env.sync THEN {"upload"} ELSE {})

\* Nothing but status and auth is served without a pool, nothing that touches
\* raw files without a store.
Wired ==
    {"status", "auth"}
    \cup (IF pool = "open" THEN {"read"} ELSE {})
    \cup (IF pool = "open" /\ env.r2 = "all" THEN {"raw"} ELSE {})
    \cup (IF pool = "open" /\ env.r2 = "all" /\ env.sync THEN {"upload"} ELSE {})

Wire ==
    /\ main = "wire"
    /\ routes' = Wired
    /\ main' = "serving"
    /\ listener' = "on"
    /\ UNCHANGED <<env, pool, signalled, exitCode, req>>

\* run() returns: the deferred calls stop catching signals and close the pool.
\* Close refuses new acquires at once.
Close(code) ==
    /\ main' = "closing"
    /\ exitCode' = code
    /\ pool' = IF pool = "open" THEN "closing" ELSE "none"
    /\ UNCHANGED <<env, routes, signalled, req>>

\* NewR2Store rejects its configuration.
WireFails ==
    /\ main = "wire"
    /\ pool = "open" /\ env.r2 = "all"
    /\ Close("error")
    /\ UNCHANGED listener

-----------------------------------------------------------------------------
(* Serving and stopping.                                                   *)

\* SIGINT or SIGTERM.  NotifyContext is called after the wiring and undone by
\* stop() before the pool is closed: at other times the signal kills.
Signal ==
    /\ main \in {"serving", "draining"}
    /\ ~signalled
    /\ signalled' = TRUE
    /\ UNCHANGED <<env, main, routes, pool, listener, exitCode, req>>

Kill == main \in {"load", "connect", "wire", "closing"} /\ Exit("killed")

\* The port is taken, or Accept fails.
ListenFails ==
    /\ listener = "on"
    /\ listener' = "failed"
    /\ UNCHANGED <<env, main, routes, pool, signalled, exitCode, req>>

\* The two cases of the select in Server.Run: both may be ready.
SelectListenError ==
    /\ main = "serving" /\ listener = "failed"
    /\ Close("error")
    /\ UNCHANGED listener

SelectSignal ==
    /\ main = "serving" /\ signalled
    /\ main' = "draining"
    /\ listener' = IF listener = "on" THEN "closed" ELSE listener
    /\ UNCHANGED <<env, routes, pool, signalled, exitCode, req>>

\* Slip: the listener is closed, but nothing is waited for.
ShutdownAtOnce ==
    /\ main = "draining"
    /\ Close(IF listener = "closed" THEN "ok" ELSE "error")
    /\ UNCHANGED listener

\* Shutdown returns nil once no request is active; serverErr decides the rest.
Drained ==
    /\ main = "draining"
    /\ Active = {}
    /\ Close(IF listener = "closed" THEN "ok" ELSE "error")
    /\ UNCHANGED listener

\* Slip: Shutdown is given a context without a deadline.
TimeOutNever == FALSE /\ UNCHANGED vars

TimeOut ==
    /\ main = "draining"
    /\ Active # {}
    /\ Close("error")
    /\ UNCHANGED listener

\* Slip: the process does not wait for the connections that are lent.
ExitWithoutWaiting == main = "closing" /\ Exit(exitCode)

\* Close of the pool waits until every connection is given back.
Closed ==
    /\ main = "closing"
    /\ Querying = {}
    /\ Exit(exitCode)

-----------------------------------------------------------------------------
(* Requests.                                                               *)

Move(r, state) ==
    /\ req' = [req EXCEPT ![r].state = state]
    /\ UNCHANGED <<env, main, routes, pool, signalled, listener, exitCode>>

\* A connection may bring a request: the listener takes new ones, and those it
\* took are served until Shutdown finds every one idle.  Shutdown lets a new
\* connection bring its first request; after an error or a timeout nobody closes
\* the connections before the process ends.
Connected ==
    /\ main \in {"serving", "draining", "closing"}
    /\ listener # "off"
    /\ exitCode \in {"none", "error"}

\* The router answers 404 for a route that is not registered.
Accept(r, family) ==
    /\ Connected
    /\ req[r].state = "none"
    /\ req' = [req EXCEPT ![r] =
            [state |-> IF family \in routes THEN "running" ELSE "answered", family |-> family]]
    /\ UNCHANGED <<env, main, routes, pool, signalled, listener, exitCode>>

\* Slip: a connection is opened whenever one is wanted.
QueryUnpooled(r) == req[r].state = "running" /\ pool = "open" /\ Move(r, "querying")

\* A statement, or a transaction, on a connection of the pool.
Query(r) ==
    /\ req[r].state = "running"
    /\ req[r].family # "status"
    /\ pool = "open"
    /\ Cardinality(Querying) < MaxConns
    /\ Move(r, "querying")

QueryReturns(r) == req[r].state = "querying" /\ Move(r, "running")

\* A call to R2, which no timeout of the API bounds.
Store(r) == req[r].state = "running" /\ req[r].family \in {"raw", "upload"} /\ Move(r, "storing")

StoreReturns(r) == req[r].state = "storing" /\ Move(r, "running")

\* The answer is written, or Recoverer turns a panic into one.
Answer(r) == req[r].state = "running" /\ Move(r, "answered")

RequestStep(r) ==
    \/ \E family \in Families : Accept(r, family)
    \/ Query(r) \/ QueryReturns(r) \/ Store(r) \/ StoreReturns(r) \/ Answer(r)

\* What run() does of itself.
MainStep ==
    \/ LoadConfig \/ LoadFails \/ Connect \/ ConnectFails \/ Wire \/ WireFails
    \/ SelectListenError \/ SelectSignal \/ Drained \/ TimeOut \/ Closed

Next == MainStep \/ Signal \/ Kill \/ ListenFails \/ \E r \in Requests : RequestStep(r)

\* run() goes on, deadlines pass, and statements end; calls to R2 need not.
Spec == Init /\ [][Next]_vars /\ WF_vars(MainStep) /\ \A r \in Requests : WF_vars(QueryReturns(r))

-----------------------------------------------------------------------------
(* Properties.                                                             *)

\* The tiers that README.md promises: a database for everything but status and
\* auth, R2 for raw files, RUNSYNC_ENABLED for uploads, and no start when
\* uploads are enabled without R2.
TiersAsDocumented ==
    main = "serving" =>
        /\ env.sync => env.r2 = "all"
        /\ "read" \in routes <=> env.database = "all"
        /\ "raw" \in routes <=> "read" \in routes /\ env.r2 = "all"
        /\ "upload" \in routes <=> env.sync

\* If run() returns without error, every request that was accepted has its
\* answer, whatever the order of signal, listener and requests.
CleanExitCutsNothing ==
    exitCode = "ok" => \A r \in Requests : req[r].state \in {"none", "answered"}

\* run() never ends the process in the middle of a statement or a transaction,
\* not even after a timeout; only a second signal does.
NoStatementIsCut ==
    exitCode # "killed" => \A r \in Requests : req[r].state # "cut_querying"

\* Why these hold: before it serves, the process has no requests; run() has an
\* exit code once it closes the pool; and the code is "ok" only if nobody was
\* active then, after which nobody is let in any more.
ServerInv ==
    /\ ServerTypeOK
    /\ main \in {"load", "connect", "wire"} => \A r \in Requests : req[r].state = "none"
    /\ main # "exited" => \A r \in Requests : req[r].state \notin {"cut", "cut_querying"}
    /\ exitCode # "none" <=> main \in {"closing", "exited"}
    /\ main = "closing" => exitCode \in {"ok", "error"}
    /\ CleanExitCutsNothing
    /\ NoStatementIsCut

\* What the configuration has become by the time the routes are wired.
WiringInv ==
    /\ env \in Environment
    /\ main = "load" => pool = "none"
    /\ main \in {"connect", "wire", "serving"} => ConfigIsValid
    /\ main = "connect" => env.database = "all"
    /\ main = "wire" => (pool = "open" <=> env.database = "all")
    /\ TiersAsDocumented

\* A signal stops the process although a call to R2 may hang forever.
ShutdownEnds == (signalled /\ main = "serving") ~> (main = "exited")

=============================================================================
