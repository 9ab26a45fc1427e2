----------------------------- MODULE FakeSource -----------------------------
(***************************************************************************)
(* The fake telemetry source (gridguard_fake_telemetry/main.py,            *)
(* run_source): an HTTP server that handles each connection in a daemon    *)
(* thread of its own, and the signal handler that has a further thread     *)
(* shut it down, with the clients that fetch snapshots or probe its health.*)
(*                                                                         *)
(* The server's loop is the standard library's; it is modelled as far as   *)
(* the shutdown depends on it: serve_forever clears an event, looks at a   *)
(* request before and after it waits for connections, and on its way out   *)
(* withdraws the request and sets the event; shutdown sets the request and *)
(* waits for the event.                                                    *)
(***************************************************************************)
EXTENDS Integers

CONSTANTS
    Fetchers,   \* connections that ask for /measurements
    Probers,    \* connections that ask for /healthz
    Strays,     \* connections that ask for something else
    Stallers    \* connections that never send their request

ASSUME FakeSourceAssumption ==
  /\ Fetchers \intersect (Probers \union Strays) = {}
  /\ Stallers \intersect (Fetchers \union Probers \union Strays) = {}
  /\ Probers \intersect Strays = {}

Clients == Fetchers \union Probers \union Strays \union Stallers

VARIABLES
    main,       \* where the main thread is
    request,    \* the server's __shutdown_request
    isShutDown, \* the server's __is_shut_down event
    started,    \* shutdown_started
    stopper,    \* the source-shutdown thread: "none", "started", "asked", "done"
    conn        \* each client's connection, see ConnStates

serverVars == <<main, request, isShutDown, started, stopper>>
sourceVars == <<serverVars, conn>>

\* idle: none;  queued: in the listen queue;  open: its thread reads;
\* answering: headers sent;  closed: by the server or with its process.
ConnStates == {"idle", "queued", "open", "answering", "closed"}

\* The socket is bound and listens.
Listening ==
  main \in {"bound", "ready", "check", "select", "recheck", "accept", "reset", "announce",
            "returned"}

Alive == main \notin {"exited", "killed"}

SourceInit ==
  /\ main = "boot"
  /\ request = FALSE
  /\ isShutDown = FALSE
  /\ started = FALSE
  /\ stopper = "none"
  /\ conn = [c \in Clients |-> "idle"]

-----------------------------------------------------------------------------
(* The main thread                                                         *)

Move(from, to) == main = from /\ main' = to

\* SourceConfig.from_env, ThreadingHTTPServer(...)
Bind ==
  /\ Move("boot", "bound")
  /\ UNCHANGED <<request, isShutDown, started, stopper, conn>>

\* signal.signal(...), twice
InstallHandlers ==
  /\ Move("bound", "ready")
  /\ UNCHANGED <<request, isShutDown, started, stopper, conn>>

\* Mutant of EnterLoop: the request is withdrawn when the loop is entered.
EnterLoopForgetting ==
  /\ Move("ready", "check")
  /\ isShutDown' = FALSE
  /\ request' = FALSE
  /\ UNCHANGED <<started, stopper, conn>>

\* serve_forever(poll_interval=0.5)
EnterLoop ==
  /\ Move("ready", "check")
  /\ isShutDown' = FALSE
  /\ UNCHANGED <<request, started, stopper, conn>>

\* The loop's condition, then select.
CheckRequest ==
  /\ Move("check", IF request THEN "reset" ELSE "select")
  /\ UNCHANGED <<request, isShutDown, started, stopper, conn>>

\* select returns, with a connection or after poll_interval.
Selected ==
  /\ Move("select", "recheck")
  /\ UNCHANGED <<request, isShutDown, started, stopper, conn>>

Recheck ==
  /\ Move("recheck", IF request THEN "reset" ELSE "accept")
  /\ UNCHANGED <<request, isShutDown, started, stopper, conn>>

\* Mutant of Accept: HTTPServer, which handles a connection before it takes
\* the next.
AcceptUnthreaded ==
  /\ Move("accept", "check")
  /\ \/ /\ \A d \in Clients : conn[d] \notin {"open", "answering"}
        /\ \E c \in Clients :
             conn[c] = "queued" /\ conn' = [conn EXCEPT ![c] = "open"]
     \/ UNCHANGED conn
  /\ UNCHANGED <<request, isShutDown, started, stopper>>

\* process_request starts a daemon thread for the connection, if select
\* returned for one.
Accept ==
  /\ Move("accept", "check")
  /\ \/ \E c \in Clients :
          conn[c] = "queued" /\ conn' = [conn EXCEPT ![c] = "open"]
     \/ UNCHANGED conn
  /\ UNCHANGED <<request, isShutDown, started, stopper>>

Reset ==
  /\ Move("reset", "announce")
  /\ request' = FALSE
  /\ UNCHANGED <<isShutDown, started, stopper, conn>>

Announce ==
  /\ Move("announce", "returned")
  /\ isShutDown' = TRUE
  /\ UNCHANGED <<request, started, stopper, conn>>

\* The process ends: daemon threads and connections end with it.
CutOff ==
  /\ conn' = [c \in Clients |-> IF conn[c] = "idle" THEN "idle" ELSE "closed"]
  /\ stopper' = "none"
  /\ UNCHANGED <<request, isShutDown, started>>

Return == Move("returned", "exited") /\ CutOff

MainStep ==
  \/ Bind \/ InstallHandlers \/ EnterLoop
  \/ CheckRequest \/ Selected \/ Recheck \/ Accept
  \/ Reset \/ Announce \/ Return

-----------------------------------------------------------------------------
(* Signals, the thread that shuts the server down, the container           *)

\* Mutant of Signal: the handler, in the main thread, calls server.shutdown
\* and waits there for the event.
SignalInline ==
  /\ Alive /\ main \notin {"boot", "bound"}
  /\ ~started
  /\ started' = TRUE
  /\ request' = TRUE
  /\ main' = IF isShutDown THEN main ELSE "held"
  /\ UNCHANGED <<isShutDown, stopper, conn>>

\* _stop: the handler runs in the main thread, between any two of its steps.
Signal ==
  /\ Alive /\ main \notin {"boot", "bound"}
  /\ ~started
  /\ started' = TRUE
  /\ stopper' = "started"
  /\ UNCHANGED <<main, request, isShutDown, conn>>

\* SIGTERM before there is a handler, or SIGKILL.
Kill ==
  /\ Alive
  /\ main' = "killed"
  /\ CutOff

\* server.shutdown in the thread: the request ...
StopperAsks ==
  /\ stopper = "started"
  /\ stopper' = "asked"
  /\ request' = TRUE
  /\ UNCHANGED <<main, isShutDown, started, conn>>

\* ... and the wait.
StopperReturns ==
  /\ stopper = "asked"
  /\ isShutDown
  /\ stopper' = "done"
  /\ UNCHANGED <<main, request, isShutDown, started, conn>>

\* restart: unless-stopped, a new process
Restart ==
  /\ ~Alive
  /\ main' = "boot"
  /\ request' = FALSE
  /\ isShutDown' = FALSE
  /\ started' = FALSE
  /\ stopper' = "none"
  /\ UNCHANGED conn

-----------------------------------------------------------------------------
(* The clients and the threads that serve them                             *)

\* urlopen connects while the socket listens; it raises otherwise.
Connect(c) ==
  /\ conn[c] = "idle"
  /\ Listening
  /\ conn' = [conn EXCEPT ![c] = "queued"]
  /\ UNCHANGED serverVars

\* do_GET once the request was read: generate_snapshot or send_error, the
\* status line and the headers.
Handle(c) ==
  /\ conn[c] = "open"
  /\ c \notin Stallers
  /\ conn' = [conn EXCEPT ![c] = "answering"]
  /\ UNCHANGED serverVars

\* wfile.write(body); the connection is closed behind it.
SendBody(c) ==
  /\ conn[c] = "answering"
  /\ conn' = [conn EXCEPT ![c] = "closed"]
  /\ UNCHANGED serverVars

\* fetch_snapshot and healthcheck_source return or raise: a fetcher at the
\* connection's end, a prober after the status line.
Conclude(c) ==
  /\ \/ conn[c] = "closed"
     \/ c \in Probers /\ conn[c] = "answering"
  /\ conn' = [conn EXCEPT ![c] = "idle"]
  /\ UNCHANGED serverVars

\* The client's time-out; the thread of a stalled one sees it end.
GiveUp(c) ==
  /\ conn[c] \in {"queued", "open", "answering"}
  /\ conn' = [conn EXCEPT ![c] = "idle"]
  /\ UNCHANGED serverVars

SourceNext ==
  \/ MainStep
  \/ Signal \/ Kill \/ StopperAsks \/ StopperReturns \/ Restart
  \/ \E c \in Clients :
       Connect(c) \/ Handle(c) \/ SendBody(c) \/ Conclude(c) \/ GiveUp(c)

SourceSpec == SourceInit /\ [][SourceNext]_sourceVars

\* Threads run; the listen queue is served in order, so that a connection
\* is accepted if connections are accepted again and again.
SourceFairness ==
  /\ WF_sourceVars(MainStep)
  /\ WF_sourceVars(StopperAsks)
  /\ WF_sourceVars(Restart)
  /\ \A c \in Clients :
       /\ SF_sourceVars(Accept /\ conn[c] = "queued" /\ conn'[c] = "open")
       /\ WF_sourceVars(Handle(c))
       /\ WF_sourceVars(SendBody(c))

FairSourceSpec == SourceSpec /\ SourceFairness

-----------------------------------------------------------------------------
(* The source's threads and its clients' connections have their type. *)
SourceTypeOK ==
  /\ main \in {"boot", "bound", "ready", "check", "select", "recheck", "accept", "reset",
               "announce", "returned", "exited", "killed"}
  /\ request \in BOOLEAN
  /\ isShutDown \in BOOLEAN
  /\ started \in BOOLEAN
  /\ stopper \in {"none", "started", "asked", "done"}
  /\ conn \in [Clients -> ConnStates]

(* A request to shut down is not lost: from the thread's call on, the server
   still has it before it until its loop is left, and the thread does not
   think the server down before that.  (_stop may run before serve_forever
   was called, and while it returns.) *)
StopNotLost ==
  /\ stopper = "asked" => request \/ main \in {"announce", "returned"}
  /\ stopper = "done" => main = "returned"

(* A signal ends the process, whatever the threads are doing at the time and
   whether or not clients hold connections open (_stop's own thread). *)
ShutdownEnds == started ~> ~Alive

(* A connection that was queued is handled or ends: others that are held open
   without a request do not keep it waiting.  (ThreadingHTTPServer.) *)
NoneStarved ==
  \A c \in Clients \ Stallers : conn[c] = "queued" ~> conn[c] \in {"answering", "closed", "idle"}
=============================================================================
