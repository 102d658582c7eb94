----------------------------- MODULE HostStream -----------------------------
(***************************************************************************)
(* The host's streaming core: the launch, resume and cancel handlers of    *)
(* nvhttp.cpp (four threads serve them), the RTSP server of rtsp.cpp with  *)
(* its one pending launch and its set of sessions, the sessions and the    *)
(* shared broadcast context of stream.cpp with its control thread, and the *)
(* application of process.cpp.                                             *)
(*                                                                         *)
(* A section under a mutex that does not block is one action.  Two block   *)
(* while they hold one: rtsp_server_t::clear joins sessions under the lock *)
(* of _session_slots, and session_clear pops launch_event under the lock   *)
(* of control_server_t::_sessions.  The holder is slots_lock for the       *)
(* first, and control = "pop" for the second.                              *)
(*                                                                         *)
(* Left out: what a request says beyond the application it names, the      *)
(* display configuration, the acceptor's failure (it ends the RTSP         *)
(* server), and requests after the host was told to end.  proc_t::running, *)
(* which several threads call without a lock, is one step, and a launch    *)
(* has one RTSP connection at a time.                                      *)
(***************************************************************************)
EXTENDS Integers, FiniteSets

CONSTANTS
    Session,            \* the session_t objects one run of the host creates
    Launch,             \* the launch_session_t objects it creates
    Handler,            \* the threads of the HTTPS server
    Stream,             \* the threads of a session: video and audio
    None                \* no session, no launch, nobody

ASSUME HostAssumption ==
    /\ IsFiniteSet(Session) /\ Session # {}
    /\ Handler \cap {"rtsp", "main"} = {}
    /\ None \notin Session \cup Launch \cup Handler \cup {"rtsp", "main"}

VARIABLES
    at,                 \* where each thread that serves requests is
    made,               \* the launch a handler is building
    issued,             \* launches created so far
    launch_event, raised_timer,
    expired,            \* timer handlers queued on the RTSP io_context
    sockets,            \* launches viewed by an accepted RTSP connection
    starting,           \* the session an ANNOUNCE is starting
    session_slots,
    slots_lock, all, unvisited, joining,    \* rtsp_server_t::clear
    state, launch_id, shutdown_event, controlEnd, peer, broadcast_ref,
    running,            \* the streams of a session that have not ended
    sessions,           \* control_server_t::_sessions
    control,            \* where the control thread is
    awaiting_peer,      \* its has_session_awaiting_peer
    claimed,            \* the session whose peer it is recording
    broadcast,          \* the broadcast context
    ender,              \* the thread that ends it, in end_broadcast
    host_shutdown,
    running_sessions,
    app,
    aborted             \* the process was terminated

requests == <<at, made, issued>>
pending  == <<launch_event, raised_timer, expired, sockets>>
clearing == <<slots_lock, all, unvisited, joining>>
session  == <<state, launch_id, shutdown_event, controlEnd, peer,
              broadcast_ref, running>>
ctrl     == <<sessions, control, awaiting_peer, claimed>>
shared   == <<broadcast, ender>>
vars     == <<requests, pending, starting, session_slots, clearing, session,
              ctrl, shared, host_shutdown, running_sessions, app, aborted>>

-----------------------------------------------------------------------------
Thread == Handler \cup {"rtsp", "main"}

HandlerPlace == {"idle", "count", "execute", "raise", "set",
                 "recount", "reraise", "cancel", "terminate"}
RtspPlace    == {"loop", "insert", "ref", "list", "threads", "running",
                 "counted", "remove", "clear", "final", "done"}
MainPlace    == {"wait", "stop", "stopped"}

(* Where rtsp_server_t::clear is called from, and where its caller goes on. *)
AfterClear == [count |-> "execute", recount |-> "reraise", cancel |-> "terminate",
               clear |-> "loop", final |-> "done", stop |-> "stopped"]
ClearPlace == DOMAIN AfterClear
ClearsAll  == {"cancel", "final", "stop"}

State == {"none", "STOPPED", "RUNNING", "STOPPING", "gone"}
ControlPlace == {"off", "sweep", "check", "iterate", "pop", "leave",
                 "left"}

Init ==
    /\ at = [t \in Thread |-> CASE t = "rtsp" -> "loop"
                                [] t = "main" -> "wait"
                                [] OTHER -> "idle"]
    /\ made = [h \in Handler |-> None]
    /\ issued = {} /\ launch_event = None
    /\ raised_timer = "idle" /\ expired = 0 /\ sockets = {}
    /\ starting = None /\ session_slots = {}
    /\ slots_lock = None /\ all = FALSE /\ unvisited = {} /\ joining = None
    /\ state = [s \in Session |-> "none"]
    /\ launch_id = [s \in Session |-> None]
    /\ shutdown_event = [s \in Session |-> FALSE]
    /\ controlEnd = [s \in Session |-> FALSE]
    /\ peer = [s \in Session |-> FALSE]
    /\ broadcast_ref = [s \in Session |-> FALSE]
    /\ running = [s \in Session |-> {}]
    /\ sessions = {} /\ control = "off"
    /\ awaiting_peer = FALSE /\ claimed = None
    /\ broadcast = "down" /\ ender = None
    /\ host_shutdown = FALSE /\ running_sessions = 0
    /\ app = "none" /\ aborted = FALSE

(* The broadcast_shutdown event: raised and reset by end_broadcast.         *)
BroadcastShutdown == broadcast = "ending"

Go(t, place) == at' = [at EXCEPT ![t] = place]

(* Faults: stop does not compare the state, or does not raise the event.    *)
StopAnything(S) ==
    /\ state' = [s \in Session |-> IF s \in S THEN "STOPPING" ELSE state[s]]
    /\ shutdown_event' = [s \in Session |-> s \in S \/ shutdown_event[s]]

StopSilently(S) ==
    /\ state' = [s \in Session |-> IF s \in S /\ state[s] = "RUNNING"
                                    THEN "STOPPING" ELSE state[s]]
    /\ UNCHANGED shutdown_event

(* session::stop on every session of S: only a running one is changed.      *)
Stop(S) ==
    LET live == {s \in S : state[s] = "RUNNING"} IN
    /\ state' = [s \in Session |-> IF s \in live THEN "STOPPING"
                                                 ELSE state[s]]
    /\ shutdown_event' = [s \in Session |-> s \in live \/ shutdown_event[s]]

(* proc_t::running: an application found to have exited is cleaned up.      *)
Running == app = "running"
NoticeExit == app' = IF app = "exited" THEN "none" ELSE app

-----------------------------------------------------------------------------
(* The HTTPS handlers. *)

(* launch, to its call of session_count: refused while an application runs. *)
LaunchBegin(h, l) ==
    /\ at[h] = "idle" /\ ~host_shutdown
    /\ l \notin issued
    /\ ~Running /\ NoticeExit
    /\ issued' = issued \cup {l}
    /\ made' = [made EXCEPT ![h] = l]
    /\ Go(h, "count")
    /\ UNCHANGED <<pending, starting, session_slots, clearing,
                   session, ctrl, shared, host_shutdown, running_sessions,
                   aborted>>

(* resume, to its call of session_count.                                    *)
ResumeBegin(h, l) ==
    /\ at[h] = "idle" /\ ~host_shutdown
    /\ l \notin issued
    /\ Running
    /\ issued' = issued \cup {l}
    /\ made' = [made EXCEPT ![h] = l]
    /\ Go(h, "recount")
    /\ UNCHANGED <<pending, starting, session_slots, clearing,
                   session, ctrl, shared, host_shutdown, running_sessions,
                   app, aborted>>

(* Either handler answers with an error (no encoder, encryption refused),   *)
(* or the application cannot be started: execute terminated what ran.       *)
GiveUp(h) ==
    /\ at[h] \in {"execute", "reraise"}
    /\ made' = [made EXCEPT ![h] = None]
    /\ Go(h, "idle")
    /\ UNCHANGED <<issued, pending, starting, session_slots, clearing,
                   session, ctrl, shared, host_shutdown, running_sessions,
                   app, aborted>>

(* launch executes the application the client named.  execute terminates   *)
(* what still runs; a name it does not know or an application that fails to *)
(* start leaves nothing running.                                            *)
Execute(h, works) ==
    /\ at[h] = "execute"
    /\ app' = IF works THEN "running" ELSE "none"
    /\ Go(h, IF works THEN "raise" ELSE "idle")
    /\ made' = IF works THEN made ELSE [made EXCEPT ![h] = None]
    /\ UNCHANGED <<issued, pending, starting, session_slots, clearing,
                   session, ctrl, shared, host_shutdown, running_sessions,
                   aborted>>

(* launch with appid 0 starts nothing.                                      *)
ExecuteNothing(h) ==
    /\ at[h] = "execute"
    /\ Go(h, "raise")
    /\ UNCHANGED <<made, issued, pending, starting, session_slots,
                   clearing, session, ctrl, shared, host_shutdown,
                   running_sessions, app, aborted>>

(* session_raise: a pending launch is not overwritten, and then the new one *)
(* is dropped without a word.  No lock is held from the look ...            *)
SessionRaise(h) ==
    /\ at[h] \in {"raise", "reraise"}
    /\ IF launch_event = None
       THEN Go(h, "set") /\ UNCHANGED made
       ELSE Go(h, "idle") /\ made' = [made EXCEPT ![h] = None]
    /\ UNCHANGED <<issued, pending, starting, session_slots,
                   clearing, session, ctrl, shared, host_shutdown,
                   running_sessions, app, aborted>>

(* ... to the raise, after which the timer is armed anew.                   *)
SetLaunch(h) ==
    /\ at[h] = "set"
    /\ launch_event' = made[h] /\ raised_timer' = "armed"
    /\ made' = [made EXCEPT ![h] = None]
    /\ Go(h, "idle")
    /\ UNCHANGED <<issued, expired, sockets, starting, session_slots,
                   clearing, session, ctrl, shared, host_shutdown,
                   running_sessions, app, aborted>>

(* cancel, to its call of terminate_sessions.                               *)
CancelBegin(h) ==
    /\ at[h] = "idle" /\ ~host_shutdown
    /\ Go(h, "cancel")
    /\ UNCHANGED <<made, issued, pending, starting, session_slots,
                   clearing, session, ctrl, shared, host_shutdown,
                   running_sessions, app, aborted>>

(* cancel after it: the application is terminated.                          *)
CancelTerminate(h) ==
    /\ at[h] = "terminate"
    /\ app' = "none"
    /\ Go(h, "idle")
    /\ UNCHANGED <<made, issued, pending, starting, session_slots,
                   clearing, session, ctrl, shared, host_shutdown,
                   running_sessions, aborted>>

(* serverinfo, on either server, asks whether the application runs.         *)
ServerInfo ==
    /\ app = "exited" /\ NoticeExit
    /\ UNCHANGED <<requests, pending, starting, session_slots, clearing,
                   session, ctrl, shared, host_shutdown, running_sessions,
                   aborted>>

-----------------------------------------------------------------------------
(* The RTSP server.  Every handler its io_context runs is followed by a     *)
(* call of clear, for all sessions once the broadcast context is ending.    *)

AtLoop == at["rtsp"] = "loop" /\ ~host_shutdown

(* handle_accept: the connection is bound to the launch pending just then;  *)
(* without one it is closed.                                                *)
Accept ==
    /\ AtLoop
    /\ launch_event # None /\ launch_event \notin sockets
    /\ sockets' = sockets \cup {launch_event}
    /\ Go("rtsp", "clear")
    /\ UNCHANGED <<made, issued, launch_event, raised_timer, expired,
                   starting, session_slots, clearing, session, ctrl, shared,
                   host_shutdown, running_sessions, app, aborted>>

(* The pending launch's time is up: its handler is queued, and a cancel no  *)
(* longer reaches it.                                                       *)
TimerExpires ==
    /\ raised_timer = "armed"
    /\ raised_timer' = "idle" /\ expired' = expired + 1
    /\ UNCHANGED <<requests, launch_event, sockets, starting, session_slots,
                   clearing, session, ctrl, shared, host_shutdown,
                   running_sessions, app, aborted>>

(* The handler of raised_timer discards whatever launch is pending.         *)
TimerHandler ==
    /\ AtLoop /\ expired > 0
    /\ expired' = expired - 1 /\ launch_event' = None
    /\ Go("rtsp", "clear")
    /\ UNCHANGED <<made, issued, raised_timer, sockets, starting,
                   session_slots, clearing, session, ctrl, shared,
                   host_shutdown, running_sessions, app, aborted>>

(* A request that makes no session (OPTIONS, DESCRIBE, SETUP, PLAY, a       *)
(* refused ANNOUNCE) or a connection that ends.                             *)
OtherRequest(l) ==
    /\ AtLoop /\ l \in sockets
    /\ sockets' = sockets \ {l}
    /\ Go("rtsp", "clear")
    /\ UNCHANGED <<made, issued, launch_event, raised_timer, expired,
                   starting, session_slots, clearing, session, ctrl, shared,
                   host_shutdown, running_sessions, app, aborted>>

(* With a session the loop comes back every 500 ms.                         *)
Tick ==
    /\ AtLoop /\ session_slots # {}
    /\ Go("rtsp", "clear")
    /\ UNCHANGED <<made, issued, pending, starting, session_slots,
                   clearing, session, ctrl, shared, host_shutdown,
                   running_sessions, app, aborted>>

(* cmd_announce and session::alloc.                                         *)
Announce(s, l) ==
    /\ AtLoop /\ l \in sockets /\ state[s] = "none"
    /\ sockets' = sockets \ {l}
    /\ starting' = s
    /\ state' = [state EXCEPT ![s] = "STOPPED"]
    /\ launch_id' = [launch_id EXCEPT ![s] = l]
    /\ Go("rtsp", "insert")
    /\ UNCHANGED <<made, issued, launch_event, raised_timer, expired,
                   session_slots, clearing, shutdown_event, controlEnd, peer,
                   broadcast_ref, running, ctrl, shared, host_shutdown,
                   running_sessions, app, aborted>>

Insert ==
    /\ at["rtsp"] = "insert" /\ slots_lock = None
    /\ session_slots' = session_slots \cup {starting}
    /\ Go("rtsp", "ref")
    /\ UNCHANGED <<made, issued, pending, starting, clearing, session,
                   ctrl, shared, host_shutdown, running_sessions, app,
                   aborted>>

(* Fault: the lock of shared_t is released while a context ends.            *)
StartRefUnlocked ==
    /\ at["rtsp"] = "ref" /\ broadcast # "down"
    /\ broadcast_ref' = [broadcast_ref EXCEPT ![starting] = TRUE]
    /\ Go("rtsp", "list")
    /\ UNCHANGED <<made, issued, pending, starting, session_slots, clearing,
                   state, launch_id, shutdown_event, controlEnd, peer, running,
                   ctrl, shared, host_shutdown, running_sessions, app, aborted>>

(* session::start takes its reference; the lock of shared_t is held while a *)
(* context ends.                                                            *)
StartRef ==
    /\ at["rtsp"] = "ref" /\ broadcast = "up"
    /\ broadcast_ref' = [broadcast_ref EXCEPT ![starting] = TRUE]
    /\ Go("rtsp", "list")
    /\ UNCHANGED <<made, issued, pending, starting, session_slots, clearing,
                   state, launch_id, shutdown_event, controlEnd, peer, running,
                   ctrl, shared, host_shutdown, running_sessions, app, aborted>>

(* The first reference builds the context ...                               *)
StartBuilds ==
    /\ at["rtsp"] = "ref" /\ broadcast = "down"
    /\ broadcast' = "up" /\ control' = "sweep"
    /\ broadcast_ref' = [broadcast_ref EXCEPT ![starting] = TRUE]
    /\ Go("rtsp", "list")
    /\ UNCHANGED <<made, issued, pending, starting, session_slots,
                   clearing, state, launch_id, shutdown_event, controlEnd,
                   peer, running, sessions, awaiting_peer, claimed, ender,
                   host_shutdown, running_sessions, app, aborted>>

(* ... which fails when a port is taken.                                    *)
StartFails ==
    /\ at["rtsp"] = "ref" /\ broadcast = "down"
    /\ Go("rtsp", "remove")
    /\ UNCHANGED <<made, issued, pending, starting, session_slots, clearing,
                   session, ctrl, shared, host_shutdown, running_sessions,
                   app, aborted>>

(* The session did not start: remove.                                       *)
Remove ==
    /\ at["rtsp"] = "remove" /\ slots_lock = None
    /\ session_slots' = session_slots \ {starting}
    /\ state' = [state EXCEPT ![starting] = "gone"]
    /\ launch_id' = [launch_id EXCEPT ![starting] = None]
    /\ starting' = None
    /\ Go("rtsp", "clear")
    /\ UNCHANGED <<made, issued, pending, clearing,
                   shutdown_event, controlEnd, peer, broadcast_ref, running,
                   ctrl, shared, host_shutdown, running_sessions, app,
                   aborted>>

(* The control thread is told of the session, under the lock of _sessions.  *)
StartList ==
    /\ at["rtsp"] = "list" /\ control # "pop"
    /\ sessions' = sessions \cup {starting}
    /\ Go("rtsp", "threads")
    /\ UNCHANGED <<made, issued, pending, starting, session_slots,
                   clearing, session, control, awaiting_peer, claimed, shared,
                   host_shutdown, running_sessions, app, aborted>>

StartThreads ==
    /\ at["rtsp"] = "threads"
    /\ running' = [running EXCEPT ![starting] = Stream]
    /\ Go("rtsp", "running")
    /\ UNCHANGED <<made, issued, pending, starting, session_slots,
                   clearing, state, launch_id, shutdown_event, controlEnd,
                   peer, broadcast_ref, ctrl, shared, host_shutdown,
                   running_sessions, app, aborted>>

(* The state is stored whatever happened since the threads were spawned.    *)
StartRunning ==
    /\ at["rtsp"] = "running"
    /\ state' = [state EXCEPT ![starting] = "RUNNING"]
    /\ Go("rtsp", "counted")
    /\ UNCHANGED <<made, issued, pending, starting, session_slots,
                   clearing, launch_id, shutdown_event, controlEnd, peer,
                   broadcast_ref, running, ctrl, shared, host_shutdown,
                   running_sessions, app, aborted>>

LastReference(s) == broadcast_ref[s] /\ \A x \in Session \ {s} : ~broadcast_ref[x]

(* Thread t destroys session s and all its fields.  When the context loses  *)
(* its last reference with it, end_broadcast begins on that thread.         *)
Destroy(s, t) ==
    /\ state' = [state EXCEPT ![s] = "gone"]
    /\ launch_id' = [launch_id EXCEPT ![s] = None]
    /\ shutdown_event' = [shutdown_event EXCEPT ![s] = FALSE]
    /\ controlEnd' = [controlEnd EXCEPT ![s] = FALSE]
    /\ peer' = [peer EXCEPT ![s] = FALSE]
    /\ broadcast_ref' = [broadcast_ref EXCEPT ![s] = FALSE]
    /\ IF LastReference(s)
       THEN broadcast' = "ending" /\ ender' = t
       ELSE UNCHANGED shared

(* Fault: every session counts itself as the first one.                     *)
StartCountedOnce ==
    /\ at["rtsp"] = "counted"
    /\ running_sessions' = 1
    /\ starting' = None
    /\ Go("rtsp", "clear")
    /\ UNCHANGED <<made, issued, pending, session_slots, clearing, session,
                   ctrl, shared, host_shutdown, app, aborted>>

(* start counts the session and ANNOUNCE is answered.  A session that was   *)
(* joined meanwhile lived on only in the handler.                           *)
StartCounted ==
    /\ at["rtsp"] = "counted"
    /\ running_sessions' = running_sessions + 1
    /\ IF starting \in session_slots
       THEN UNCHANGED <<state, launch_id, shutdown_event, controlEnd, peer,
                        broadcast_ref, shared>>
       ELSE Destroy(starting, "rtsp")
    /\ starting' = None
    /\ Go("rtsp", "clear")
    /\ UNCHANGED <<made, issued, pending, session_slots, clearing,
                   running, ctrl, host_shutdown, app, aborted>>

(* The loop ends with the host.                                             *)
LoopEnds ==
    /\ at["rtsp"] = "loop" /\ host_shutdown
    /\ Go("rtsp", "final")
    /\ UNCHANGED <<made, issued, pending, starting, session_slots,
                   clearing, session, ctrl, shared, host_shutdown,
                   running_sessions, app, aborted>>

-----------------------------------------------------------------------------
(* rtsp_server_t::clear, by an RTSP, an HTTPS or the main thread.           *)

Clear(t) ==
    /\ at[t] \in ClearPlace /\ slots_lock = None /\ ender # t
    /\ slots_lock' = t
    /\ all' = (at[t] \in ClearsAll \/ (t = "rtsp" /\ BroadcastShutdown))
    /\ unvisited' = session_slots
    /\ UNCHANGED <<requests, pending, starting, session_slots, joining,
                   session, ctrl, shared, host_shutdown, running_sessions,
                   app, aborted>>

(* The thread may go on: it neither joins a session nor waits in            *)
(* end_broadcast.                                                           *)
ClearTurn == slots_lock # None /\ joining = None /\ ender # slots_lock

(* The next session is let be, or is stopped and joined.  Its threads are   *)
(* not there yet while ANNOUNCE is starting it: joining them throws, which  *)
(* gives up a handler's request and ends the process on the main thread.    *)
Unspawned(s) == s = starting
                /\ at["rtsp"] \in {"insert", "ref", "list", "threads", "remove"}

LetBe(s) ==
    /\ ClearTurn /\ s \in unvisited
    /\ ~all /\ state[s] # "STOPPING"
    /\ unvisited' = unvisited \ {s}
    /\ UNCHANGED <<requests, pending, starting, session_slots, slots_lock,
                   all, joining, session, ctrl, shared, host_shutdown,
                   running_sessions, app, aborted>>

StopAndJoin(s) ==
    /\ ClearTurn /\ s \in unvisited
    /\ all \/ state[s] = "STOPPING"
    /\ ~Unspawned(s)
    /\ Stop({s})
    /\ joining' = s /\ unvisited' = unvisited \ {s}
    /\ UNCHANGED <<requests, pending, starting, session_slots, slots_lock,
                   all, launch_id, controlEnd, peer, broadcast_ref, running,
                   ctrl, shared, host_shutdown, running_sessions, app,
                   aborted>>

JoinThrows(s) ==
    /\ ClearTurn /\ s \in unvisited
    /\ all /\ Unspawned(s)
    /\ slots_lock' = None /\ all' = FALSE /\ unvisited' = {}
    /\ IF slots_lock = "main"
       THEN aborted' = TRUE /\ UNCHANGED at
       ELSE Go(slots_lock, "idle") /\ UNCHANGED aborted
    /\ UNCHANGED <<made, issued, pending, starting, session_slots,
                   joining, session, ctrl, shared, host_shutdown,
                   running_sessions, app>>

(* Fault: the session is destroyed while its threads run.                   *)
JoinEndsEarly(s) ==
    /\ joining = s /\ controlEnd[s] /\ s # starting
    /\ running_sessions' = running_sessions - 1
    /\ session_slots' = session_slots \ {s}
    /\ Destroy(s, slots_lock)
    /\ joining' = None
    /\ UNCHANGED <<requests, pending, starting, slots_lock, all, unvisited,
                   running, ctrl, host_shutdown, app, aborted>>

(* join returns once both threads and the control thread are done with the  *)
(* session; the last one looks at the application.  Then the slot is erased *)
(* and the session destroyed.                                               *)
JoinEnds(s) ==
    /\ joining = s
    /\ running[s] = {} /\ controlEnd[s]
    /\ running_sessions' = running_sessions - 1
    /\ IF running_sessions = 1
       THEN NoticeExit ELSE UNCHANGED app
    /\ session_slots' = session_slots \ {s}
    /\ IF s = starting
       THEN UNCHANGED <<state, launch_id, shutdown_event, controlEnd, peer,
                        broadcast_ref, shared>>
       ELSE Destroy(s, slots_lock)
    /\ joining' = None
    /\ UNCHANGED <<requests, pending, starting, slots_lock, all, unvisited,
                   running, ctrl, host_shutdown, aborted>>

(* A join that takes ten seconds ends the process.                          *)
ForceKill ==
    /\ joining # None
    /\ aborted' = TRUE
    /\ UNCHANGED <<requests, pending, starting, session_slots, clearing,
                   session, ctrl, shared, host_shutdown, running_sessions,
                   app>>

ClearEnds ==
    /\ ClearTurn /\ unvisited = {}
    /\ slots_lock' = None /\ all' = FALSE
    /\ Go(slots_lock, AfterClear[at[slots_lock]])
    /\ UNCHANGED <<made, issued, pending, starting, session_slots,
                   unvisited, joining, session, ctrl, shared,
                   host_shutdown, running_sessions, app, aborted>>

(* end_broadcast joins the context's threads.                               *)
EndBroadcast ==
    /\ broadcast = "ending" /\ control = "left"
    /\ broadcast' = "down" /\ ender' = None
    /\ control' = "off" /\ sessions' = {}
    /\ UNCHANGED <<requests, pending, starting, session_slots, clearing,
                   session, awaiting_peer, claimed, host_shutdown,
                   running_sessions, app, aborted>>

(* The host is told to end; its main thread then stops the RTSP server.     *)
HostShutdown ==
    /\ ~host_shutdown
    /\ host_shutdown' = TRUE
    /\ Go("main", "stop")
    /\ UNCHANGED <<made, issued, pending, starting, session_slots,
                   clearing, session, ctrl, shared, running_sessions, app,
                   aborted>>

-----------------------------------------------------------------------------
(* The threads of a session: recv_ping and the capture end when the session *)
(* is told to stop, or fail on their own; either way the thread stops the   *)
(* session.                                                                 *)
StreamEnds(s, t) ==
    /\ t \in running[s]
    /\ running' = [running EXCEPT ![s] = @ \ {t}]
    /\ Stop({s})
    /\ UNCHANGED <<requests, pending, starting, session_slots, clearing,
                   launch_id, controlEnd, peer, broadcast_ref, ctrl, shared,
                   host_shutdown, running_sessions, app, aborted>>

StreamStops(s, t) == shutdown_event[s] /\ StreamEnds(s, t)
StreamFails(s, t) == ~shutdown_event[s] /\ StreamEnds(s, t)

(* The application exits by itself.                                         *)
AppExits ==
    /\ app = "running"
    /\ app' = "exited"
    /\ UNCHANGED <<requests, pending, starting, session_slots, clearing,
                   session, ctrl, shared, host_shutdown, running_sessions,
                   aborted>>

-----------------------------------------------------------------------------
(* The control thread. *)

ShuttingDown == host_shutdown \/ BroadcastShutdown

(* Fault: only a session with a peer is told that its control stream ended. *)
ControlSweepPeers(silent) ==
    /\ control = "sweep" /\ ~ShuttingDown
    /\ silent \subseteq sessions
    /\ Stop(silent)
    /\ LET over == {s \in sessions : state'[s] = "STOPPING"} IN
       /\ sessions' = sessions \ over
       /\ peer' = [s \in Session |-> s \notin over /\ peer[s]]
       /\ controlEnd' = [s \in Session |-> (s \in over /\ peer[s])
                                            \/ controlEnd[s]]
       /\ awaiting_peer' = (\E s \in sessions \ over : ~peer[s])
    /\ control' = "check"
    /\ UNCHANGED <<requests, pending, starting, session_slots, clearing,
                   launch_id, broadcast_ref, running, claimed, shared,
                   host_shutdown, running_sessions, app, aborted>>

(* One pass over its sessions: those that were silent too long are stopped, *)
(* the stopping ones are let go.                                            *)
ControlSweep(silent) ==
    /\ control = "sweep" /\ ~ShuttingDown
    /\ silent \subseteq sessions
    /\ Stop(silent)
    /\ LET over == {s \in sessions : state'[s] = "STOPPING"} IN
       /\ sessions' = sessions \ over
       /\ peer' = [s \in Session |-> s \notin over /\ peer[s]]
       /\ controlEnd' = [s \in Session |-> s \in over \/ controlEnd[s]]
       /\ awaiting_peer' = (\E s \in sessions \ over : ~peer[s])
    /\ control' = "check"
    /\ UNCHANGED <<requests, pending, starting, session_slots, clearing,
                   launch_id, broadcast_ref, running, claimed, shared,
                   host_shutdown, running_sessions, app, aborted>>

(* Without an application it leaves, unless a session waited for its peer.  *)
ControlCheck ==
    /\ control = "check"
    /\ NoticeExit
    /\ control' = IF Running \/ awaiting_peer = TRUE THEN "iterate" ELSE "leave"
    /\ awaiting_peer' = FALSE
    /\ UNCHANGED <<requests, pending, starting, session_slots, clearing,
                   session, sessions, claimed, shared,
                   host_shutdown, running_sessions, aborted>>

(* iterate, when nothing was received or the peer is not known.             *)
ControlIdle ==
    /\ control = "iterate"
    /\ control' = "sweep"
    /\ UNCHANGED <<requests, pending, starting, session_slots, clearing,
                   session, sessions, awaiting_peer, claimed, shared,
                   host_shutdown, running_sessions, app, aborted>>

(* get_session, a new peer: the session whose connect data it names.  Its   *)
(* launch is looked at; if it is still pending, session_clear cancels the   *)
(* timer and goes on to pop the event.                                      *)
ControlConnect(s) ==
    /\ control = "iterate" /\ s \in sessions /\ ~peer[s]
    /\ IF launch_event = launch_id[s]
       THEN /\ raised_timer' = "idle"
            /\ control' = "pop" /\ claimed' = s
            /\ UNCHANGED peer
       ELSE /\ peer' = [peer EXCEPT ![s] = TRUE]
            /\ control' = "sweep"
            /\ UNCHANGED <<raised_timer, claimed>>
    /\ UNCHANGED <<requests, launch_event, expired, sockets, starting,
                   session_slots, clearing, state, launch_id, shutdown_event,
                   controlEnd, broadcast_ref, running, sessions,
                   awaiting_peer, shared, host_shutdown, running_sessions,
                   app, aborted>>

(* session_clear, the pop: it takes the launch pending now, and waits for   *)
(* one if there is none.                                                    *)
ControlPop ==
    /\ control = "pop" /\ launch_event # None
    /\ launch_event' = None
    /\ peer' = [peer EXCEPT ![claimed] = TRUE]
    /\ claimed' = None /\ control' = "sweep"
    /\ UNCHANGED <<requests, raised_timer, expired, sockets, starting,
                   session_slots, clearing, state, launch_id, shutdown_event,
                   controlEnd, broadcast_ref, running, sessions,
                   awaiting_peer, shared, host_shutdown, running_sessions,
                   app, aborted>>

(* A connected client leaves, or sends what cannot be decrypted.            *)
ControlDisconnect(s) ==
    /\ control = "iterate" /\ s \in sessions /\ peer[s]
    /\ Stop({s})
    /\ control' = "sweep"
    /\ UNCHANGED <<requests, pending, starting, session_slots, clearing,
                   launch_id, controlEnd, peer, broadcast_ref, running,
                   sessions, awaiting_peer, claimed, shared, host_shutdown,
                   running_sessions, app, aborted>>

(* The thread leaves its loop: every session it knows is told to end.       *)
ControlLeave ==
    /\ \/ control = "leave"
       \/ control = "sweep" /\ ShuttingDown
    /\ shutdown_event' = [s \in Session |-> s \in sessions
                                            \/ shutdown_event[s]]
    /\ controlEnd' = [s \in Session |-> s \in sessions \/ controlEnd[s]]
    /\ control' = "left"
    /\ UNCHANGED <<requests, pending, starting, session_slots, clearing,
                   state, launch_id, peer, broadcast_ref, running, sessions,
                   awaiting_peer, claimed, shared, host_shutdown,
                   running_sessions, app, aborted>>

-----------------------------------------------------------------------------
HandlerStep(h) ==
    \/ \E l \in Launch : LaunchBegin(h, l) \/ ResumeBegin(h, l)
    \/ GiveUp(h) \/ \E works \in BOOLEAN : Execute(h, works)
    \/ ExecuteNothing(h) \/ SessionRaise(h) \/ SetLaunch(h)
    \/ CancelBegin(h) \/ CancelTerminate(h)

RtspStep ==
    \/ Accept \/ TimerHandler \/ Tick
    \/ \E l \in Launch : OtherRequest(l)
    \/ \E s \in Session, l \in Launch : Announce(s, l)
    \/ Insert \/ StartRef \/ StartBuilds \/ StartFails
    \/ Remove \/ StartList \/ StartThreads \/ StartRunning \/ StartCounted
    \/ LoopEnds

ClearStep ==
    \/ \E t \in Thread : Clear(t)
    \/ \E s \in Session : LetBe(s) \/ StopAndJoin(s) \/ JoinThrows(s)
                          \/ JoinEnds(s)
    \/ ClearEnds \/ EndBroadcast

ControlStep ==
    \/ \E silent \in SUBSET Session : ControlSweep(silent)
    \/ ControlCheck \/ ControlIdle \/ ControlPop \/ ControlLeave
    \/ \E s \in Session : ControlConnect(s) \/ ControlDisconnect(s)

Next ==
    /\ ~aborted
    /\ \/ \E h \in Handler : HandlerStep(h)
       \/ ServerInfo \/ AppExits \/ HostShutdown
       \/ RtspStep \/ TimerExpires
       \/ ClearStep \/ ForceKill
       \/ \E s \in Session, t \in Stream : StreamStops(s, t) \/ StreamFails(s, t)
       \/ ControlStep

Spec == Init /\ [][Next]_vars

(* A thread that can run is scheduled, a mutex that is free is taken, the   *)
(* 500 ms of the RTSP loop and the 150 ms of the control loop pass.  Nobody *)
(* has to send a request, and neither a client nor an application has to    *)
(* end.                                                                     *)
HandlerProgress(h) == GiveUp(h) \/ ExecuteNothing(h) \/ SessionRaise(h)
                      \/ SetLaunch(h) \/ CancelTerminate(h)
StartProgress == Insert \/ StartRef \/ StartBuilds \/ StartFails \/ Remove
                 \/ StartList \/ StartThreads \/ StartRunning \/ StartCounted
ClearProgress == (\E s \in Session : LetBe(s) \/ StopAndJoin(s) \/ JoinThrows(s)
                                     \/ JoinEnds(s)) \/ ClearEnds
ControlProgress == ControlSweep({}) \/ ControlCheck \/ ControlIdle
                   \/ ControlPop \/ ControlLeave

Alive(A) == ~aborted /\ A

Fairness ==
    /\ \A h \in Handler : WF_vars(Alive(HandlerProgress(h)))
    /\ WF_vars(Alive(StartProgress)) /\ WF_vars(Alive(Tick \/ LoopEnds))
    /\ \A t \in Thread : SF_vars(Alive(Clear(t)))
    /\ WF_vars(Alive(ClearProgress)) /\ WF_vars(Alive(EndBroadcast))
    /\ \A s \in Session, t \in Stream : WF_vars(Alive(StreamStops(s, t)))
    /\ WF_vars(Alive(ControlProgress))

FairSpec == Spec /\ Fairness

-----------------------------------------------------------------------------
(* The types, each thread at a place of its own program. *)
RequestTypes ==
    /\ at \in [Thread -> HandlerPlace \cup RtspPlace \cup MainPlace]
    /\ at["rtsp"] \in RtspPlace /\ at["main"] \in MainPlace
    /\ \A h \in Handler : at[h] \in HandlerPlace
    /\ made \in [Handler -> Launch \cup {None}] /\ issued \subseteq Launch

RtspTypes ==
    /\ launch_event \in Launch \cup {None}
    /\ raised_timer \in {"idle", "armed"} /\ expired \in Nat
    /\ sockets \subseteq Launch /\ starting \in Session \cup {None}
    /\ session_slots \subseteq Session
    /\ slots_lock \in Thread \cup {None} /\ all \in BOOLEAN
    /\ unvisited \subseteq Session /\ joining \in Session \cup {None}

SessionTypes ==
    /\ state \in [Session -> State]
    /\ launch_id \in [Session -> Launch \cup {None}]
    /\ shutdown_event \in [Session -> BOOLEAN]
    /\ controlEnd \in [Session -> BOOLEAN]
    /\ peer \in [Session -> BOOLEAN]
    /\ broadcast_ref \in [Session -> BOOLEAN]
    /\ running \in [Session -> SUBSET Stream]

ContextTypes ==
    /\ sessions \subseteq Session /\ control \in ControlPlace
    /\ awaiting_peer \in BOOLEAN /\ claimed \in Session \cup {None}
    /\ broadcast \in {"down", "up", "ending"}
    /\ ender \in Thread \cup {None}

HostTypes ==
    /\ host_shutdown \in BOOLEAN /\ running_sessions \in Int
    /\ app \in {"none", "running", "exited"} /\ aborted \in BOOLEAN

TypeOK == RequestTypes /\ RtspTypes /\ SessionTypes /\ ContextTypes /\ HostTypes

(* The control thread keeps raw pointers to sessions, and so do the threads *)
(* of a session: no session is destroyed while one of them may follow its   *)
(* pointer (control_server_t::_sessions and _peer_to_session, the arguments *)
(* of videoThread and audioThread).                                         *)
NoDanglingSession ==
    \A s \in Session : state[s] = "gone" =>
        /\ running[s] = {} /\ claimed # s /\ joining # s
        /\ s \in sessions => control = "left"

(* The sockets and queues of the broadcast context are there for every      *)
(* session that has a reference and for every thread of a session, and the  *)
(* context is given up when nobody has one.                                 *)
ContextCoversUsers ==
    /\ \A s \in Session :
          /\ broadcast_ref[s] => broadcast = "up"
          /\ running[s] # {} => broadcast_ref[s]
    /\ broadcast = "up" => \E s \in Session : broadcast_ref[s]


(* running_sessions decides when the display is given back: it is the       *)
(* number of sessions in the slots that were started, off by one only while *)
(* a session that cancel joined half-started is still to be counted.        *)
CountExact ==
    running_sessions =
        Cardinality(session_slots \ {starting})
        - (IF /\ starting \notin session_slots \cup {None}
              /\ at["rtsp"] # "insert"
           THEN 1 ELSE 0)

(* The three ways the streaming core can wait for ever: the control thread  *)
(* pops a launch that somebody else took, it left before it was told of a   *)
(* session, or a session is joined that nobody stopped.                     *)
PopsInVain     == control = "pop" /\ launch_event = None
ListedTooLate  == control = "left" /\ \E s \in sessions :
                      state[s] # "gone" /\ ~controlEnd[s]
JoinedUnstopped == joining # None /\ state[joining] # "STOPPING"
Wedged == PopsInVain \/ ListedTooLate \/ JoinedUnstopped \/ aborted

(* The join that holds the lock of the slots never waits for nothing: but   *)
(* for the three ways its session was told to end, and the control thread   *)
(* let go of it or still has it in its list and is there to do so.          *)
JoinProgresses ==
    joining # None /\ ~Wedged =>
        /\ shutdown_event[joining]
        /\ \/ controlEnd[joining]
           \/ joining \in sessions /\ control \notin {"off", "left"}

(* A session that stops is joined and destroyed, and a cancel is answered,  *)
(* unless the core is wedged in one of these ways.                          *)
StopCompletes ==
    \A s \in Session : state[s] = "STOPPING" ~> (state[s] = "gone" \/ Wedged)

CancelAnswered ==
    \A h \in Handler : at[h] = "cancel" ~> (at[h] = "idle" \/ Wedged)

(* session_clear clears the launch of the session it is called for          *)
(* (rtsp.cpp:521-522, "Clear state for the oldest launch session", "The ID  *)
(* of the session to clear").                                               *)
ClearsOwnLaunch ==
    [][control = "pop" /\ control' # "pop" =>
           launch_event = launch_id[claimed]]_vars

(* The sessions and the context as StreamContract describes them.           *)
PhaseOf == [none |-> "none", STOPPED |-> "opening", RUNNING |-> "live",
            STOPPING |-> "ending", gone |-> "closed"]

Phase   == [s \in Session |-> PhaseOf[state[s]]]
Holders == {s \in Session : broadcast_ref[s]}

Contract == INSTANCE StreamContract WITH
                phase <- Phase, holders <- Holders, service <- broadcast

(* Sessions are opened, go live and are closed once and in this order, and  *)
(* the context is never ended under a session nor given to one while it     *)
(* ends: HostStream implements StreamContract.                              *)
HonoursContract == Contract!Spec

(* The control thread is shared by the sessions as thread_safe.h promises:   *)
(* HostStream implements SharedThread as well.                              *)
Shared == INSTANCE SharedThread WITH
              User <- Session, holders <- Holders,
              joining <- broadcast = "ending",
              worker <- CASE control = "off" -> "none"
                          [] control = "left" -> "over"
                          [] OTHER -> "running"

SharesControl == Shared!Spec

(* The other wait under the lock of the slots, or of the RTSP thread, is     *)
(* that of end_broadcast: it is made by one thread, of a control thread that *)
(* is there and has nothing left to do but to find the context ending.       *)
EndIsJoined ==
    /\ broadcast = "ending" <=> ender # None
    /\ broadcast = "ending" => control # "off"
    /\ ender # None => \/ ender = slots_lock /\ joining = None
                       \/ ender = "rtsp" /\ at["rtsp"] = "clear"
=============================================================================
