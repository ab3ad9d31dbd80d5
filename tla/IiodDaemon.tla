----------------------------- MODULE IiodDaemon -----------------------------
(***************************************************************************)
(* The life of the IIO daemon (libiio, iiod): main and the signals that    *)
(* stop or restart it (iiod.c), the pool its threads are counted in        *)
(* (thread-pool.c), the thread that opens and closes USB pipes (usbd.c)    *)
(* and the one that announces the service in the network (dns-sd.c).       *)
(*                                                                         *)
(* What a session does is the subject of IiodServer; here it is a thread   *)
(* that uses the context until its pool is stopped.  The thread of an open *)
(* device ends with the sessions that hold it and counts as part of them.  *)
(***************************************************************************)
EXTENDS Integers, FiniteSets

CONSTANTS
  Connections,  \* network sessions the daemon may serve at a time
  Pipes,        \* USB pipes (nb_pipes)
  MaxTries      \* attempts to reach the Avahi daemon (TIMEOUT)

ASSUME DaemonAssumption ==
  /\ IsFiniteSet(Connections) /\ IsFiniteSet(Pipes) /\ MaxTries \in Nat \ {0}
  /\ "usbd_main_thd" \notin Connections /\ "avahi_thd" \notin Connections

VARIABLES
  pc,        \* main
  ret,       \* what start_iiod returns: FALSE is success
  ctx,       \* the IIO context exists
  pool,      \* main_thread_pool: running threads, stop, event in stop_fd
  restart,   \* restart_usr1
  usb,       \* usbd_main: what it does, and for which pipe
  pipes,     \* per pipe: running sessions, event in stop_fd, whether asked to close
  av,        \* start_avahi_thd: where it is and its attempt
  avahi      \* the objects of the Avahi client

daemonVars == <<pc, ret, ctx, pool, restart, usb, pipes, av, avahi>>

UsbThread == "usbd_main_thd"
AvahiThread == "avahi_thd"
Threads == Connections \cup {UsbThread, AvahiThread}

NoAvahi == [name |-> FALSE, poll |-> "none", client |-> FALSE, group |-> "none"]
IdleUsb == [pc |-> "poll", pipe |-> "none"]

DaemonInit ==
  /\ pc = "restart" /\ ret = FALSE /\ ctx = FALSE
  /\ pool = [threads |-> {}, stop |-> FALSE, event |-> FALSE]
  /\ restart = FALSE
  /\ usb = IdleUsb
  /\ pipes = [p \in Pipes |-> [sessions |-> 0, event |-> FALSE, asked |-> FALSE]]
  /\ av = [pc |-> "none", try |-> 1]
  /\ avahi = NoAvahi

-----------------------------------------------------------------------------
(* The thread pool. *)

\* thread_pool_add_thread: counted before it runs.
Added(thread) == [pool EXCEPT !.threads = @ \cup {thread}]

\* The end of thread_body.
Ended(thread) == [pool EXCEPT !.threads = @ \ {thread}]

\* thread_pool_stop.
PoolStopped == [pool EXCEPT !.stop = TRUE, !.event = TRUE]

\* thread_pool_purge_events.
PoolPurged == [pool EXCEPT !.event = FALSE]

\* Mutant: nobody waits for the count to become 0.
PoolDrained_Now == TRUE

\* The condition thread_pool_stop_and_wait waits for.
PoolDrained == pool.threads = {}

\* Mutant: the stop is noted, but no event is written.
PipeStopped_Silent(p) == [pipes EXCEPT ![p].asked = TRUE]

\* The pool of a pipe is an instance of the same code with one thread at most.
PipeStopped(p) == [pipes EXCEPT ![p].event = TRUE, ![p].asked = TRUE]

\* thread_pool_purge_events at the end of the wait, then thread_pool_add_thread.
PipeOpened(p) ==
  [pipes EXCEPT ![p] = [sessions |-> @.sessions + 1, event |-> FALSE, asked |-> FALSE]]

-----------------------------------------------------------------------------
(* Signals, which interrupt main at any point. *)

\* sig_handler: SIGHUP, SIGPIPE, SIGINT, SIGTERM.
Term ==
  /\ pc # "exit" /\ ~(pool.event /\ pool.stop)
  /\ pool' = PoolStopped
  /\ UNCHANGED <<pc, ret, ctx, restart, usb, pipes, av, avahi>>

\* sig_handler_usr1.
Usr1 ==
  /\ pc # "exit" /\ ~(pool.event /\ pool.stop /\ restart)
  /\ restart' = TRUE
  /\ pool' = PoolStopped
  /\ UNCHANGED <<pc, ret, ctx, usb, pipes, av, avahi>>

-----------------------------------------------------------------------------
(* main and start_iiod. *)

\* The head of the loop in main, thread_pool_restart: a stopped pool is purged of its
\* events and then no longer stopped; a signal may come in between, and stays.
RestartPool ==
  /\ pc = "restart"
  /\ IF pool.stop
     THEN pool' = PoolPurged /\ pc' = "unstop"
     ELSE pc' = "clear" /\ UNCHANGED pool
  /\ UNCHANGED <<ret, ctx, restart, usb, pipes, av, avahi>>

ClearStop ==
  /\ pc = "unstop"
  /\ pool' = [pool EXCEPT !.stop = FALSE]
  /\ pc' = "clear"
  /\ UNCHANGED <<ret, ctx, restart, usb, pipes, av, avahi>>

ClearRestart ==
  /\ pc = "clear"
  /\ restart' = FALSE
  /\ pc' = "create"
  /\ UNCHANGED <<ret, ctx, pool, usb, pipes, av, avahi>>

\* iio_create_context_from_uri; without a context start_iiod returns at once.
CreateContext(ok) ==
  /\ pc = "create"
  /\ ctx' = ok /\ ret' = ~ok
  /\ pc' = IF ok THEN "usb" ELSE "returned"
  /\ UNCHANGED <<pool, restart, usb, pipes, av, avahi>>

\* start_usb_daemon: a pool for every pipe and the thread.  When it fails no thread
\* has been started, and the pool is not waited for.
StartUsb(ok) ==
  /\ pc = "usb"
  /\ IF ok
     THEN /\ pool' = Added(UsbThread)
          /\ pipes' = [p \in Pipes |-> [sessions |-> 0, event |-> FALSE, asked |-> FALSE]]
          /\ usb' = IdleUsb
          /\ pc' = "server" /\ ret' = FALSE
     ELSE /\ pc' = "destroy" /\ ret' = TRUE
          /\ UNCHANGED <<pool, pipes, usb>>
  /\ UNCHANGED <<ctx, restart, av, avahi>>

\* main_server up to its loop: the socket, and start_avahi, which forgets the objects
\* of the last time.
StartServer(ok) ==
  /\ pc = "server"
  /\ IF ok
     THEN /\ pool' = Added(AvahiThread)
          /\ av' = [pc |-> "net", try |-> 1]
          /\ avahi' = NoAvahi
          /\ pc' = "serve" /\ ret' = FALSE
     ELSE /\ pc' = "stop" /\ ret' = TRUE
          /\ UNCHANGED <<pool, av, avahi>>
  /\ UNCHANGED <<ctx, restart, usb, pipes>>

\* A connection is accepted and its thread started.
Accept(c) ==
  /\ pc = "serve" /\ ~pool.event
  /\ c \notin pool.threads
  /\ pool' = Added(c)
  /\ UNCHANGED <<pc, ret, ctx, restart, usb, pipes, av, avahi>>

\* shutdown_avahi.
ShutDown == NoAvahi

\* The stop event ends the loop of main_server, which stops Avahi.
StopServer ==
  /\ pc = "serve" /\ pool.event
  /\ avahi' = ShutDown
  /\ pc' = "stop"
  /\ UNCHANGED <<ret, ctx, pool, restart, usb, pipes, av>>

\* thread_pool_stop_and_wait: the stop.
StopPool ==
  /\ pc = "stop"
  /\ pool' = PoolStopped
  /\ pc' = "wait"
  /\ UNCHANGED <<ret, ctx, restart, usb, pipes, av, avahi>>

\* thread_pool_stop_and_wait: the wait.
WaitPool ==
  /\ pc = "wait" /\ PoolDrained
  /\ pc' = "purge"
  /\ UNCHANGED <<ret, ctx, pool, restart, usb, pipes, av, avahi>>

\* thread_pool_stop_and_wait: the purge.
PurgePool ==
  /\ pc = "purge"
  /\ pool' = PoolPurged
  /\ pc' = "destroy"
  /\ UNCHANGED <<ret, ctx, restart, usb, pipes, av, avahi>>

DestroyContext ==
  /\ pc = "destroy"
  /\ ctx' = FALSE
  /\ pc' = "returned"
  /\ UNCHANGED <<ret, pool, restart, usb, pipes, av, avahi>>

\* The condition of the loop in main.
Returned ==
  /\ pc = "returned"
  /\ pc' = IF ~ret /\ restart THEN "restart" ELSE "exit"
  /\ UNCHANGED <<ret, ctx, pool, restart, usb, pipes, av, avahi>>

-----------------------------------------------------------------------------
(* Network sessions (client_thd). *)

\* A session ends, by itself or because of the stop event.
EndClient(c) ==
  /\ c \in pool.threads
  /\ pool' = Ended(c)
  /\ UNCHANGED <<pc, ret, ctx, restart, usb, pipes, av, avahi>>

-----------------------------------------------------------------------------
(* usbd_main, one request of the host at a time. *)

UsbReady == UsbThread \in pool.threads /\ usb.pc = "poll"

\* IIO_USD_CMD_CLOSE_PIPE, and IIO_USD_CMD_RESET_PIPES with all pipes.
ClosePipes(S) ==
  /\ UsbReady /\ ~pool.event
  /\ pipes' = [p \in Pipes |-> IF p \in S THEN PipeStopped(p)[p] ELSE pipes[p]]
  /\ UNCHANGED <<pc, ret, ctx, pool, restart, usb, av, avahi>>

\* IIO_USD_CMD_OPEN_PIPE: usb_open_pipe begins with a stop of the pipe.
OpenPipe(p) ==
  /\ UsbReady /\ ~pool.event
  /\ pipes' = PipeStopped(p)
  /\ usb' = [pc |-> "open", pipe |-> p]
  /\ UNCHANGED <<pc, ret, ctx, pool, restart, av, avahi>>

\* Mutant: the session of the pipe is not waited for.
PipeDrained_Now(p) == TRUE

PipeDrained(p) == pipes[p].sessions = 0

\* The session of the pipe has ended: the endpoints are opened, a new one starts.
OpenEndpoints(p) ==
  /\ usb = [pc |-> "open", pipe |-> p] /\ PipeDrained(p)
  /\ pipes' = PipeOpened(p)
  /\ usb' = IdleUsb
  /\ UNCHANGED <<pc, ret, ctx, pool, restart, av, avahi>>

\* An endpoint cannot be opened, or the request is for a pipe there is not: the
\* error leaves the loop of usbd_main.
OpenFails(p) ==
  /\ usb = [pc |-> "open", pipe |-> p] /\ PipeDrained(p)
  /\ pipes' = [pipes EXCEPT ![p].event = FALSE]
  /\ usb' = [pc |-> "leave", pipe |-> "none"]
  /\ UNCHANGED <<pc, ret, ctx, pool, restart, av, avahi>>

BadPipe ==
  /\ UsbReady /\ ~pool.event
  /\ usb' = [pc |-> "leave", pipe |-> "none"]
  /\ UNCHANGED <<pc, ret, ctx, pool, restart, pipes, av, avahi>>

\* The stop event ends usbd_main.
StopUsb ==
  /\ UsbReady /\ pool.event
  /\ usb' = [pc |-> "leave", pipe |-> "none"]
  /\ UNCHANGED <<pc, ret, ctx, pool, restart, pipes, av, avahi>>

\* The loop at the end of usbd_main: a pipe is stopped and waited for.
LeavePipe(p) ==
  /\ UsbThread \in pool.threads /\ usb.pc = "leave" /\ ~pipes[p].event
  /\ pipes' = PipeStopped(p)
  /\ UNCHANGED <<pc, ret, ctx, pool, restart, usb, av, avahi>>

UsbDrained == \A p \in Pipes : pipes[p].event /\ pipes[p].sessions = 0

EndUsb ==
  /\ UsbThread \in pool.threads /\ usb.pc = "leave" /\ UsbDrained
  /\ pool' = Ended(UsbThread)
  /\ usb' = IdleUsb
  /\ pipes' = [p \in Pipes |-> [pipes[p] EXCEPT !.event = FALSE, !.asked = FALSE]]
  /\ UNCHANGED <<pc, ret, ctx, restart, av, avahi>>

\* A session of a pipe ends because of the stop event of the pipe, the only one
\* it sees: an EXIT command of the host has the same effect.
EndPipe(p) ==
  /\ pipes[p].sessions > 0
  /\ pipes' = [pipes EXCEPT ![p].sessions = @ - 1]
  /\ UNCHANGED <<pc, ret, ctx, pool, restart, usb, av, avahi>>

-----------------------------------------------------------------------------
(* start_avahi_thd and the callbacks of the Avahi client.  Neither looks at the    *)
(* stop event, and shutdown_avahi may come between any two of these steps.         *)

Av(at) == AvahiThread \in pool.threads /\ av.pc = at

\* One more attempt in a second or more; after the last one the thread gives up.
TryAgain == av' = IF av.try = MaxTries THEN [av EXCEPT !.pc = "decide"]
                  ELSE [pc |-> "net", try |-> av.try + 1]

\* Interfaces and host name: the last attempt does without them.
NoNetwork ==
  /\ Av("net") /\ av.try < MaxTries
  /\ TryAgain
  /\ UNCHANGED <<pc, ret, ctx, pool, restart, usb, pipes, avahi>>

SetName ==
  /\ Av("net")
  /\ avahi' = [avahi EXCEPT !.name = TRUE]
  /\ av' = [av EXCEPT !.pc = "poll"]
  /\ UNCHANGED <<pc, ret, ctx, pool, restart, usb, pipes>>

NewPoll ==
  /\ Av("poll")
  /\ avahi' = [avahi EXCEPT !.poll = IF @ = "none" THEN "new" ELSE @]
  /\ av' = [av EXCEPT !.pc = "client"]
  /\ UNCHANGED <<pc, ret, ctx, pool, restart, usb, pipes>>

\* client_new, which may find no daemon.  Without a poll object, freed under the
\* thread, there is no telling; no client is what it gets at best.
NewClient(ok) ==
  /\ Av("client")
  /\ IF ok /\ avahi.poll # "none"
     THEN /\ avahi' = [avahi EXCEPT !.client = TRUE]
          /\ av' = [av EXCEPT !.pc = "decide"]
     ELSE /\ TryAgain
          /\ UNCHANGED avahi
  /\ UNCHANGED <<pc, ret, ctx, pool, restart, usb, pipes>>

\* The end of the thread: the poll thread is started, or everything is taken back.
EndAvahi ==
  /\ Av("decide")
  /\ avahi' = IF avahi.client /\ avahi.poll # "none"
              THEN [avahi EXCEPT !.poll = "running"] ELSE ShutDown
  /\ av' = [av EXCEPT !.pc = "none"]
  /\ pool' = Ended(AvahiThread)
  /\ UNCHANGED <<pc, ret, ctx, restart, usb, pipes>>

CallBack == avahi.poll = "running" /\ avahi.client

\* AVAHI_CLIENT_S_RUNNING: create_services makes a group and commits it; a name
\* that is taken is changed until one is free.
CreateServices ==
  /\ CallBack /\ avahi.group # "committed"
  /\ avahi' = [avahi EXCEPT !.group = "committed"]
  /\ UNCHANGED <<pc, ret, ctx, pool, restart, usb, pipes, av>>

\* AVAHI_CLIENT_S_COLLISION and AVAHI_CLIENT_S_REGISTERING reset the group.
ResetGroup ==
  /\ CallBack /\ avahi.group = "committed"
  /\ avahi' = [avahi EXCEPT !.group = "empty"]
  /\ UNCHANGED <<pc, ret, ctx, pool, restart, usb, pipes, av>>

\* AVAHI_CLIENT_FAILURE, disconnected: the client is freed and made anew.
Disconnected(ok) ==
  /\ CallBack
  /\ avahi' = [avahi EXCEPT !.client = ok, !.group = "none"]
  /\ UNCHANGED <<pc, ret, ctx, pool, restart, usb, pipes, av>>

-----------------------------------------------------------------------------

Main ==
  \/ RestartPool \/ ClearStop \/ ClearRestart \/ StopServer \/ StopPool \/ WaitPool
  \/ PurgePool \/ DestroyContext \/ Returned
  \/ \E ok \in BOOLEAN : CreateContext(ok) \/ StartUsb(ok) \/ StartServer(ok)

Usbd ==
  \/ StopUsb \/ EndUsb
  \/ \E p \in Pipes : OpenEndpoints(p) \/ OpenFails(p) \/ LeavePipe(p)

AvahiSteps ==
  NoNetwork \/ SetName \/ NewPoll \/ EndAvahi \/ \E ok \in BOOLEAN : NewClient(ok)

DaemonNext ==
  \/ Term \/ Usr1 \/ Main \/ Usbd \/ AvahiSteps
  \/ \E c \in Connections : Accept(c) \/ EndClient(c)
  \/ \E S \in {{p} : p \in Pipes} \cup {Pipes} : ClosePipes(S)
  \/ \E p \in Pipes : OpenPipe(p) \/ EndPipe(p)
  \/ BadPipe
  \/ CreateServices \/ ResetGroup \/ \E ok \in BOOLEAN : Disconnected(ok)

\* Main and the threads run; a session ends when its pool is stopped.
DaemonFairness ==
  /\ WF_daemonVars(Main) /\ WF_daemonVars(Usbd) /\ WF_daemonVars(AvahiSteps)
  /\ \A c \in Connections : WF_daemonVars(pool.event /\ EndClient(c))
  /\ \A p \in Pipes : WF_daemonVars(pipes[p].event /\ EndPipe(p))

DaemonSpec == DaemonInit /\ [][DaemonNext]_daemonVars /\ DaemonFairness

-----------------------------------------------------------------------------
(* Properties. *)

Pool == [threads : SUBSET Threads, stop : BOOLEAN, event : BOOLEAN]
Pipe == [sessions : Nat, event : BOOLEAN, asked : BOOLEAN]
Avahi == [name : BOOLEAN, poll : {"none", "new", "running"}, client : BOOLEAN,
          group : {"none", "empty", "committed"}]

DaemonTypeOK ==
  /\ pc \in {"restart", "unstop", "clear", "create", "usb", "server", "serve", "stop",
             "wait", "purge", "destroy", "returned", "exit"}
  /\ ret \in BOOLEAN /\ ctx \in BOOLEAN /\ restart \in BOOLEAN
  /\ pool \in Pool
  /\ usb \in [pc : {"poll", "open", "leave"}, pipe : Pipes \cup {"none"}]
  /\ pipes \in [Pipes -> Pipe]
  /\ av \in [pc : {"none", "net", "poll", "client", "decide"}, try : 1 .. MaxTries]
  /\ avahi \in Avahi

\* Sessions, of the network and of USB, use the context and never outlive it: what
\* the comment at the head of thread-pool.c wants of stop_and_wait.
ContextOutlivesThreads ==
  (pool.threads # {} \/ \E p \in Pipes : pipes[p].sessions > 0) => ctx

\* An open USB pipe has one session: the endpoints are not opened again while the
\* session before still has them (the comment in usb_open_pipe), and a session
\* once begun ends only because the host or the daemon asked for it - the stop that
\* made room for it does not end it too.
OpenedPipeStays ==
  \A p \in Pipes : /\ pipes[p].sessions \in 0 .. 1
                   /\ pipes[p].sessions = 1 /\ pipes[p].event => pipes[p].asked

\* Whatever stops the daemon, its threads end: the stop event stays until the last
\* of them has gone.
StopEmptiesPool == pool.event ~> pool.threads = {}

=============================================================================
