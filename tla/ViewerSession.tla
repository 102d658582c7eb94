---------------------------- MODULE ViewerSession ----------------------------
(***************************************************************************)
(* The viewer side of one connection (src/viewer/session.cpp): the main    *)
(* thread that asks for sessions, the worker thread that runs the whole    *)
(* exchange with a host, the short-lived thread that re-reads the host's   *)
(* display list, and the termination callback of the streaming library.    *)
(*                                                                         *)
(* Every critical section of mutex_ is one action.  The one section that   *)
(* blocks while it holds the mutex (refresh_displays joins the previous    *)
(* refresh thread) is two actions, and MutexFree guards everyone else.     *)
(* A thread whose control point is an HTTP point is inside libgamestream   *)
(* and uses its only curl handle; the exchange ends with the next action   *)
(* of that thread.  A check of session_ended that directly follows an      *)
(* exchange is part of the action that ends it: only the moment of the     *)
(* check matters.                                                          *)
(***************************************************************************)
EXTENDS Naturals

CONSTANTS
    Hosts,              \* the machines a session can be asked for
    MaxDisplays         \* the longest display list a host reports

ASSUME SessionAssumption ==
    /\ Hosts # {}
    /\ MaxDisplays \in Nat \ {0}

VARIABLES
    main, worker, refresh, callback,    \* control point of each thread
    job,                \* the worker's arguments, and what it knows of server_
    flag,               \* the fields begin_worker resets
    worker_running, refresh_allowed, refresh_running,
    state,              \* status_.state
    monitors,           \* status_.displays (its length) and .active_display
    s_active,           \* is the callbacks' file-static target set?
    connection,         \* the streaming library
    launched,           \* gs_start_app succeeded, gs_quit_app not yet called
    stored,             \* the managed host list of Settings
    trusts              \* does a host hold this client's certificate?

threads == <<main, worker, refresh, callback>>
gates   == <<worker_running, refresh_allowed, refresh_running>>
stream  == <<s_active, connection, launched>>
books   == <<stored, trusts>>
vars    == <<threads, job, flag, gates, state, monitors, stream, books>>

-----------------------------------------------------------------------------
ViewerState == {"Idle", "Connecting", "PairingNeedPin", "PairingInProgress",
                "Streaming", "Failed"}
Terminal    == {"Idle", "Failed"}

MainPoint     == {"free", "begin", "refresh_join", "notify", "destroy_notify",
                  "destroy_join", "destroyed"}
WorkerHttp    == {"gs_init", "gs_pair", "gs_applist", "gs_start_app",
                  "gs_quit_unstarted", "gs_quit_app"}
\* From the setting of refresh_allowed_ to its clearing.
RefreshWindow == {"publish_streaming", "li_start", "wait", "parked",
                  "unhook"}
\* Where a worker can be once its session was reported as Streaming.
OnceStreaming == {"li_start", "wait", "parked", "unhook", "refresh_join",
                  "li_stop", "gs_quit_app", "final", "exit", "dead"}
WorkerPoint   == WorkerHttp \cup RefreshWindow \cup OnceStreaming \cup
                 {"none", "start", "publish_displays", "reached",
                  "pin_shown", "pair_done", "activate"}
RefreshPoint  == {"none", "http", "publish", "exiting", "dead"}
CallbackPoint == {"none", "entered", "notify"}

Mode    == {"stream", "pair"}
Job     == [mode : Mode, host : Hosts, paired : BOOLEAN, https : BOOLEAN]
Flags   == [session_ended : BOOLEAN, stage_failed : BOOLEAN,
            connection_terminated : BOOLEAN, termination_error : BOOLEAN,
            active_display_pinned : BOOLEAN]
Cleared == [session_ended |-> FALSE, stage_failed |-> FALSE,
            connection_terminated |-> FALSE, termination_error |-> FALSE,
            active_display_pinned |-> FALSE]
Monitors == [displays : 0 .. MaxDisplays, active_display : 0 .. MaxDisplays]
Listed   == {"absent", "unpaired", "paired"}

(* Fault: refresh_displays releases the mutex before it joins.              *)
MutexFreeEarly == TRUE

MutexFree == main # "refresh_join"

Init ==
    /\ main = "free" /\ worker = "none"
    /\ refresh = "none" /\ callback = "none"
    /\ job \in [mode : {"stream"}, host : Hosts, paired : {FALSE},
                https : {FALSE}]
    /\ flag = Cleared
    /\ worker_running = FALSE
    /\ refresh_allowed = FALSE /\ refresh_running = FALSE
    /\ state = "Idle"
    /\ monitors = [displays |-> 0, active_display |-> 0]
    /\ s_active = FALSE /\ connection = "down" /\ launched = FALSE
    /\ stored = [h \in Hosts |-> "absent"]
    /\ trusts \in [Hosts -> BOOLEAN]

(* What a notify_all does to a worker that sleeps on state_cv_.             *)
Woken == IF worker = "parked" THEN "wait" ELSE worker

(* displays_to_vector and active_display_index: how many displays the host  *)
(* reports and which of them it marks active, 0 when it marks none.         *)
Reported == {m \in Monitors : m.active_display < m.displays
                              \/ m.active_display = 0}

(* Settings::add_or_update_host.                                            *)
Record(h, p) ==
    stored' = [stored EXCEPT ![h] = IF p THEN "paired" ELSE "unpaired"]

-----------------------------------------------------------------------------
(* The main thread. *)

(* Fault: one reset is missing.                                             *)
BeginWorkerEnded(h, m) ==
    /\ main = "free" /\ ~worker_running
    /\ main' = "begin"
    /\ job' = [job EXCEPT !.host = h, !.mode = m]
    /\ flag' = [Cleared EXCEPT !.session_ended = flag.session_ended]
    /\ worker_running' = TRUE
    /\ UNCHANGED <<worker, refresh, callback, refresh_allowed,
                   refresh_running, state, monitors, stream, books>>

(* start_connect and start_pair up to begin_worker's critical section.  A   *)
(* call while a worker runs is a no-op and changes nothing.                 *)
BeginWorker(h, m) ==
    /\ main = "free" /\ ~worker_running
    /\ main' = "begin"
    /\ job' = [job EXCEPT !.host = h, !.mode = m]
    /\ flag' = Cleared
    /\ worker_running' = TRUE
    /\ UNCHANGED <<worker, refresh, callback, refresh_allowed,
                   refresh_running, state, monitors, stream, books>>

(* The rest of begin_worker and start_*: join the previous worker, publish  *)
(* Connecting on this thread, spawn the new one.                            *)
SpawnWorker ==
    /\ main = "begin" /\ worker \in {"none", "dead"}
    /\ state' = "Connecting"
    /\ worker' = "start" /\ main' = "free"
    /\ UNCHANGED <<refresh, callback, job, flag, gates, monitors, stream,
                   books>>

(* end_session sets the flag under the mutex and notifies outside it; the   *)
(* destructor calls it and then joins the worker.                           *)
End(next) ==
    /\ main = "free"
    /\ main' = next
    /\ flag' = [flag EXCEPT !.session_ended = TRUE]
    /\ UNCHANGED <<worker, refresh, callback, job, gates, state, monitors,
                   stream, books>>

EndSession == End("notify")
Destroy    == End("destroy_notify")

(* Fault: nobody is notified.                                               *)
NotifyWorkerSilent ==
    /\ main \in {"notify", "destroy_notify"}
    /\ main' = IF main = "notify" THEN "free" ELSE "destroy_join"
    /\ UNCHANGED <<worker, refresh, callback, job, flag, gates, state,
                   monitors, stream, books>>

NotifyWorker ==
    /\ main \in {"notify", "destroy_notify"}
    /\ worker' = Woken
    /\ main' = IF main = "notify" THEN "free" ELSE "destroy_join"
    /\ UNCHANGED <<refresh, callback, job, flag, gates, state, monitors,
                   stream, books>>

Destroyed ==
    /\ main = "destroy_join" /\ worker \in {"none", "dead"}
    /\ main' = "destroyed" /\ worker' = "none"
    /\ UNCHANGED <<refresh, callback, job, flag, gates, state, monitors,
                   stream, books>>

(* refresh_displays takes the mutex, checks, and keeps it over the join.    *)
RefreshDisplays ==
    /\ main = "free" /\ ~refresh_running /\ refresh_allowed
    /\ refresh_running' = TRUE
    /\ main' = "refresh_join"
    /\ UNCHANGED <<worker, refresh, callback, job, flag, worker_running,
                   refresh_allowed, state, monitors, stream, books>>

SpawnRefresh ==
    /\ main = "refresh_join" /\ refresh \in {"none", "dead"}
    /\ refresh' = "http" /\ main' = "free"
    /\ UNCHANGED <<worker, callback, job, flag, gates, state, monitors,
                   stream, books>>

(* The monitor list is drawn only in Viewing mode, which a status Streaming  *)
(* opens: by the time of a click that session may be over, but no other has *)
(* begun.                                                                   *)
SetActiveDisplay(i) ==
    /\ main = "free" /\ worker \in OnceStreaming
    /\ i < monitors.displays
    /\ monitors' = [monitors EXCEPT !.active_display = i]
    /\ flag' = [flag EXCEPT !.active_display_pinned = TRUE]
    /\ UNCHANGED <<threads, job, gates, state, stream, books>>

-----------------------------------------------------------------------------
(* The worker thread. *)

(* The worker moves on and leaves the rest of the session to others.        *)
Advance(from, to) ==
    /\ worker = from
    /\ worker' = to
    /\ UNCHANGED <<main, refresh, callback, flag, refresh_running, monitors,
                   worker_running>>

(* The worker reports s and returns, which runs WorkerDone.                 *)
Leave(from, s) ==
    /\ MutexFree
    /\ Advance(from, "exit")
    /\ state' = s
    /\ UNCHANGED <<refresh_allowed, s_active, connection>>

WorkerStart ==
    /\ MutexFree
    /\ Advance("start", "gs_init")
    /\ state' = "Connecting"
    /\ job' = [job EXCEPT !.paired = FALSE, !.https = FALSE]
    /\ UNCHANGED <<refresh_allowed, stream, books>>

(* gs_init: HTTP for the ports, then HTTPS, then HTTP when that failed.     *)
(* Only HTTPS reports the pairing; a host that does not know our            *)
(* certificate refuses it there and so shows that it listens.  A host whose *)
(* HTTPS listener stays silent is answered for by plain HTTP.               *)
GsInit ==
    /\ Advance("gs_init", "publish_displays")
    /\ \/ job' = [job EXCEPT !.paired = trusts[job.host],
                             !.https = ~trusts[job.host]]
       \/ UNCHANGED job
    /\ UNCHANGED <<refresh_allowed, state, stream, books>>

GsInitFailed ==
    /\ Leave("gs_init", "Failed")
    /\ UNCHANGED <<job, launched, books>>

(* The display list, and in stream mode the record of a reachable host.     *)
PublishDisplays ==
    /\ worker = "publish_displays" /\ MutexFree
    /\ worker' = "reached"
    /\ monitors' \in Reported
    /\ IF job.mode = "stream" THEN Record(job.host, job.paired)
                              ELSE UNCHANGED stored
    /\ UNCHANGED <<main, refresh, callback, job, flag, gates, state, stream,
                   trusts>>

GiveUp(from) ==
    /\ flag.session_ended
    /\ Leave(from, "Idle")
    /\ UNCHANGED <<job, launched, books>>

HttpsDown ==
    /\ ~flag.session_ended /\ ~job.paired /\ ~job.https
    /\ Leave("reached", "Failed")
    /\ UNCHANGED <<job, launched, books>>

AfterPairing == IF job.mode = "pair" THEN "pair_done" ELSE "gs_applist"

AlreadyPaired ==
    /\ ~flag.session_ended /\ job.paired
    /\ Advance("reached", AfterPairing)
    /\ UNCHANGED <<job, refresh_allowed, state, stream, books>>

ShowPin ==
    /\ MutexFree /\ ~flag.session_ended /\ ~job.paired /\ job.https
    /\ Advance("reached", "pin_shown")
    /\ state' = "PairingNeedPin"
    /\ UNCHANGED <<job, refresh_allowed, stream, books>>

AskHost ==
    /\ MutexFree /\ ~flag.session_ended
    /\ Advance("pin_shown", "gs_pair")
    /\ state' = "PairingInProgress"
    /\ UNCHANGED <<job, refresh_allowed, stream, books>>

(* gs_pair succeeds only after the host stored the certificate.             *)
GsPair ==
    /\ job' = [job EXCEPT !.paired = TRUE]
    /\ trusts' = [trusts EXCEPT ![job.host] = TRUE]
    /\ \/ /\ flag.session_ended
          /\ Leave("gs_pair", "Idle")
          /\ UNCHANGED launched
       \/ /\ ~flag.session_ended
          /\ Advance("gs_pair", AfterPairing)
          /\ UNCHANGED <<refresh_allowed, state, stream>>
    /\ UNCHANGED stored

(* It may also fail after that: the last exchange or its answer is lost.    *)
GsPairFailed ==
    /\ Leave("gs_pair", "Failed")
    /\ \E granted \in BOOLEAN :
           trusts' = [trusts EXCEPT ![job.host] = @ \/ granted]
    /\ UNCHANGED <<job, launched, stored>>

(* Pair mode stops here and records the machine.                            *)
PairDone ==
    /\ Leave("pair_done", "Idle")
    /\ Record(job.host, TRUE)
    /\ UNCHANGED <<job, launched, trusts>>

(* The Desktop application is found in the list.                            *)
GsApplist ==
    /\ ~flag.session_ended
    /\ Advance("gs_applist", "gs_start_app")
    /\ UNCHANGED <<job, refresh_allowed, state, stream, books>>

(* The request fails, or the list has no Desktop.                           *)
GsApplistFailed ==
    /\ Leave("gs_applist", "Failed")
    /\ UNCHANGED <<job, launched, books>>

(* Fault: an end request that arrived meanwhile returns without quitting.   *)
GsStartAppKeep ==
    /\ IF flag.session_ended
          THEN Leave("gs_start_app", "Idle")
          ELSE /\ Advance("gs_start_app", "activate")
               /\ UNCHANGED <<refresh_allowed, state, s_active, connection>>
    /\ launched' = TRUE
    /\ UNCHANGED <<job, books>>

GsStartApp ==
    /\ Advance("gs_start_app", IF flag.session_ended THEN "gs_quit_unstarted"
                                                     ELSE "activate")
    /\ launched' = TRUE
    /\ UNCHANGED <<job, refresh_allowed, state, s_active, connection, books>>

GsStartAppFailed ==
    /\ Leave("gs_start_app", "Failed")
    /\ UNCHANGED <<job, launched, books>>

(* gs_quit_app, whose result the worker ignores.                            *)
QuitUnstarted ==
    /\ Leave("gs_quit_unstarted", "Idle")
    /\ launched' = FALSE
    /\ UNCHANGED <<job, books>>

Activate ==
    /\ MutexFree
    /\ Advance("activate", "publish_streaming")
    /\ s_active' = TRUE /\ refresh_allowed' = TRUE
    /\ UNCHANGED <<job, state, connection, launched, books>>

PublishStreaming ==
    /\ MutexFree
    /\ Advance("publish_streaming", "li_start")
    /\ state' = "Streaming"
    /\ connection' = "starting"
    /\ UNCHANGED <<job, refresh_allowed, s_active, launched, books>>

(* LiStartConnection brings every stage up and returns ...                  *)
LiStart ==
    /\ Advance("li_start", "wait")
    /\ connection' = "up"
    /\ UNCHANGED <<job, refresh_allowed, state, s_active, launched, books>>

(* ... or a stage fails, the stageFailed callback says so, and it unwinds.  *)
LiStartFailed ==
    /\ worker = "li_start" /\ MutexFree
    /\ worker' = "unhook"
    /\ flag' = [flag EXCEPT !.stage_failed = TRUE]
    /\ connection' = "down"
    /\ UNCHANGED <<main, refresh, callback, job, gates, state, monitors,
                   s_active, launched, books>>

(* Fault: the predicate forgets the user's request.                         *)
WaitDeaf ==
    /\ MutexFree
    /\ Advance("wait", IF flag.connection_terminated
                       THEN "unhook" ELSE "parked")
    /\ UNCHANGED <<job, refresh_allowed, state, stream, books>>

(* One evaluation of the predicate of state_cv_.wait, under the mutex.      *)
Wait ==
    /\ MutexFree
    /\ Advance("wait", IF flag.session_ended \/ flag.connection_terminated
                       THEN "unhook" ELSE "parked")
    /\ UNCHANGED <<job, refresh_allowed, state, stream, books>>

Unhook ==
    /\ MutexFree
    /\ Advance("unhook", "refresh_join")
    /\ s_active' = FALSE /\ refresh_allowed' = FALSE
    /\ UNCHANGED <<job, state, connection, launched, books>>

(* Fault: the worker does not join the refresh thread.                      *)
JoinRefreshUnjoined ==
    /\ worker = "refresh_join" /\ MutexFree
    /\ worker' = "li_stop"
    /\ refresh_running' = FALSE
    /\ UNCHANGED <<main, refresh, callback, job, flag, worker_running,
                   refresh_allowed, state, monitors, stream, books>>

JoinRefresh ==
    /\ worker = "refresh_join" /\ MutexFree
    /\ refresh \in {"none", "dead"}
    /\ refresh' = "none" /\ worker' = "li_stop"
    /\ refresh_running' = FALSE
    /\ UNCHANGED <<main, callback, job, flag, worker_running,
                   refresh_allowed, state, monitors, stream, books>>

(* LiStopConnection.  Nothing in the repository says that it waits for a    *)
(* callback that is running, and here it does not: one that has read        *)
(* s_active may go on at any later time, the next session's included.       *)
LiStop ==
    /\ Advance("li_stop", "gs_quit_app")
    /\ connection' = "down"
    /\ UNCHANGED <<job, refresh_allowed, state, s_active, launched, books>>

QuitApp ==
    /\ Advance("gs_quit_app", "final")
    /\ launched' = FALSE
    /\ UNCHANGED <<job, refresh_allowed, state, s_active, connection, books>>

(* What the user reads once a stream is over.                               *)
FinalState ==
    IF ~flag.session_ended /\ (flag.stage_failed \/ flag.termination_error)
    THEN "Failed" ELSE "Idle"

Final ==
    /\ Leave("final", FinalState)
    /\ UNCHANGED <<job, launched, books>>

(* WorkerDone, the sole place that clears worker_running_.                  *)
WorkerDone ==
    /\ worker = "exit" /\ MutexFree
    /\ worker' = "dead"
    /\ worker_running' = FALSE
    /\ UNCHANGED <<main, refresh, callback, job, flag, refresh_allowed,
                   refresh_running, state, monitors, stream, books>>

Worker ==
    \/ WorkerStart \/ GsInit \/ GsInitFailed \/ PublishDisplays
    \/ \E from \in {"reached", "pin_shown", "gs_applist"} : GiveUp(from)
    \/ HttpsDown \/ AlreadyPaired \/ ShowPin \/ AskHost
    \/ GsPair \/ GsPairFailed \/ PairDone
    \/ GsApplist \/ GsApplistFailed \/ GsStartApp \/ GsStartAppFailed
    \/ QuitUnstarted \/ Activate \/ PublishStreaming
    \/ LiStart \/ LiStartFailed \/ Wait \/ Unhook \/ JoinRefresh
    \/ LiStop \/ QuitApp \/ Final \/ WorkerDone

-----------------------------------------------------------------------------
(* The refresh thread. *)

RefreshFetch ==
    /\ refresh = "http"
    /\ refresh' = "publish"
    /\ UNCHANGED <<main, worker, callback, job, flag, gates, state, monitors,
                   stream, books>>

(* Fault: the host's mark always wins.                                      *)
MergedHost(m) == m

(* A choice the user made in this session outlives the host's own mark, and *)
(* a failed fetch changes nothing.                                          *)
Merged(m) ==
    IF ~flag.active_display_pinned THEN m
    ELSE [m EXCEPT !.active_display =
                       IF monitors.active_display >= m.displays
                       THEN 0 ELSE monitors.active_display]

RefreshPublish ==
    /\ refresh = "publish" /\ MutexFree
    /\ refresh' = "exiting"
    /\ refresh_running' = FALSE
    /\ \/ \E m \in Reported : monitors' = Merged(m)
       \/ UNCHANGED monitors
    /\ UNCHANGED <<main, worker, callback, job, flag, worker_running,
                   refresh_allowed, state, stream, books>>

RefreshExit ==
    /\ refresh = "exiting"
    /\ refresh' = "dead"
    /\ UNCHANGED <<main, worker, callback, job, flag, gates, state, monitors,
                   stream, books>>

-----------------------------------------------------------------------------
(* The streaming library, the host list and the host. *)

(* connectionTerminated reads s_active on a thread of the library ...       *)
CallbackEnter ==
    /\ callback = "none" /\ connection # "down" /\ s_active
    /\ callback' = "entered"
    /\ UNCHANGED <<main, worker, refresh, job, flag, gates, state, monitors,
                   stream, books>>

(* ... and set_terminated takes the mutex and notifies after it.            *)
CallbackTerminated ==
    /\ callback = "entered" /\ MutexFree
    /\ callback' = "notify"
    /\ \E error \in BOOLEAN :
           flag' = [flag EXCEPT !.connection_terminated = TRUE,
                                !.termination_error = error]
    /\ UNCHANGED <<main, worker, refresh, job, gates, state, monitors,
                   stream, books>>

(* Fault: the report wakes nobody.                                          *)
CallbackNotifySilent ==
    /\ callback = "notify"
    /\ callback' = "none"
    /\ UNCHANGED <<main, worker, refresh, job, flag, gates, state, monitors,
                   stream, books>>

CallbackNotify ==
    /\ callback = "notify"
    /\ callback' = "none" /\ worker' = Woken
    /\ UNCHANGED <<main, refresh, job, flag, gates, state, monitors, stream,
                   books>>

(* The user removes a machine from the list (main.cpp).                     *)
RemoveHost(h) ==
    /\ main = "free" /\ stored[h] # "absent"
    /\ stored' = [stored EXCEPT ![h] = "absent"]
    /\ UNCHANGED <<threads, job, flag, gates, state, monitors, stream,
                   trusts>>

(* The host's user removes this client from the host.                       *)
HostRevokes(h) ==
    /\ trusts[h]
    /\ trusts' = [trusts EXCEPT ![h] = FALSE]
    /\ UNCHANGED <<threads, job, flag, gates, state, monitors, stream,
                   stored>>

-----------------------------------------------------------------------------
Stopped == main = "destroyed" /\ UNCHANGED vars

Next ==
    \/ \E h \in Hosts, m \in Mode : BeginWorker(h, m)
    \/ SpawnWorker \/ EndSession \/ Destroy \/ NotifyWorker \/ Destroyed
    \/ RefreshDisplays \/ SpawnRefresh
    \/ \E i \in 0 .. MaxDisplays : SetActiveDisplay(i)
    \/ Worker
    \/ RefreshFetch \/ RefreshPublish \/ RefreshExit
    \/ CallbackEnter \/ CallbackTerminated \/ CallbackNotify
    \/ \E h \in Hosts : RemoveHost(h) \/ HostRevokes(h)
    \/ Stopped

(* Every thread keeps running: HTTP requests have timeouts, the library     *)
(* calls return, joins return once the other thread has.  What the user or  *)
(* the host may do, they need not do.  Fairness is strong where a thread    *)
(* needs mutex_, which the main thread may hold again and again, each time  *)
(* for the join of a thread that is about to exit.                          *)
Fairness ==
    /\ WF_vars(SpawnWorker) /\ WF_vars(NotifyWorker)
    /\ WF_vars(SpawnRefresh) /\ WF_vars(Destroyed)
    /\ SF_vars(Worker)
    /\ WF_vars(RefreshFetch) /\ SF_vars(RefreshPublish)
    /\ WF_vars(RefreshExit)
    /\ SF_vars(CallbackTerminated) /\ WF_vars(CallbackNotify)

Spec     == Init /\ [][Next]_vars
FairSpec == Spec /\ Fairness
-----------------------------------------------------------------------------
(* Properties *)

(* The type invariant.  The active index always names a display of the list *)
(* it was published with, or is 0.                                          *)
TypeOK ==
    /\ main \in MainPoint /\ worker \in WorkerPoint
    /\ refresh \in RefreshPoint /\ callback \in CallbackPoint
    /\ job \in Job /\ flag \in Flags
    /\ worker_running \in BOOLEAN
    /\ refresh_allowed \in BOOLEAN /\ refresh_running \in BOOLEAN
    /\ state \in ViewerState /\ monitors \in Reported
    /\ s_active \in BOOLEAN /\ connection \in {"down", "starting", "up"}
    /\ launched \in BOOLEAN
    /\ stored \in [Hosts -> Listed] /\ trusts \in [Hosts -> BOOLEAN]

(* libgamestream has one static curl handle: the worker and the refresh     *)
(* thread are never inside an HTTP exchange together.                       *)
CurlExclusive == ~(worker \in WorkerHttp /\ refresh = "http")

(* The refresh thread reads and writes server_, which the worker owns: it   *)
(* lives only while the worker streams or waits to join it, so it never     *)
(* outlives the worker nor sees server_ reset for the next session.         *)
RefreshConfined ==
    refresh \in {"http", "publish", "exiting"} =>
        worker \in RefreshWindow \cup {"refresh_join"}

(* The worker's teardown and refresh_displays never join or assign          *)
(* refresh_thread_ at the same time.                                        *)
JoinExclusive == ~(main = "refresh_join" /\ worker = "refresh_join")

(* When no worker runs nothing of its session is left: the outcome is       *)
(* published, the connection is stopped on this side, the application       *)
(* launched on the host has been told to quit, the callbacks have no        *)
(* target, and no refresh thread runs, may start or is left to be joined.   *)
RestIsQuiet ==
    ~worker_running =>
        /\ state \in Terminal
        /\ connection = "down" /\ ~launched /\ ~s_active
        /\ ~refresh_allowed /\ ~refresh_running /\ refresh = "none"

(* The destructor returns only after the worker is gone: what the worker    *)
(* refers to (this object, Settings) may be destroyed then.                 *)
DestroyedIsQuiet == main = "destroyed" => ~worker_running

(* As session.cpp says of the parked worker, a stream ends when the user     *)
(* stopped it "or the connection terminated itself": before it has a         *)
(* connection of its own, a session does not already count as terminated.   *)
(* A callback that was delayed past the end of its connection breaks it.    *)
BeforeConnection ==
    {"start", "gs_init", "publish_displays", "reached", "pin_shown",
     "gs_pair", "gs_applist", "gs_start_app", "activate"}
NoInheritedTermination ==
    worker \in BeforeConnection => ~flag.connection_terminated

(* The monitor the user chose stays chosen until the user chooses again, the*)
(* host loses that monitor, or the next session starts; a refresh that was  *)
(* in flight when the user chose does not take the choice back.             *)
SelectionSticks ==
    [][flag.active_display_pinned
       /\ monitors'.active_display # monitors.active_display
       => \/ \E i \in 0 .. MaxDisplays : SetActiveDisplay(i)
          \/ monitors.active_display >= monitors'.displays]_vars

(* A stream whose connection the library reports terminated comes to rest   *)
(* without the user: the report is not lost on a worker about to sleep.     *)
TerminatedComesToRest ==
    (worker_running /\ flag.connection_terminated) ~> ~worker_running

(* What that and EndedComesToRest rest on: a worker that sleeps on           *)
(* state_cv_ sleeps on flags it has seen down, or the thread that raised one *)
(* since has still to notify it.                                            *)
ParkedIsWoken ==
    worker = "parked" =>
        /\ flag.session_ended => main \in {"notify", "destroy_notify"}
        /\ flag.connection_terminated => callback = "notify"

(* What MainComesBack rests on: the join that refresh_displays makes while   *)
(* it holds mutex_ is of a thread that is past its last use of mutex_.       *)
JoinIsShort == main = "refresh_join" => refresh \in {"none", "exiting", "dead"}

(* The main thread, which draws every frame, never blocks for good in a     *)
(* join, though one of its joins is made while it holds the mutex.          *)
MainComesBack == main \notin {"free", "destroyed"}
                     ~> main \in {"free", "destroyed"}

(* The session implements the contract the application is written against: *)
(* one session at a time, a status that moves only along the published      *)
(* order, an application that was launched and is quit before the outcome.  *)
Contract == INSTANCE SessionContract WITH
    running <- worker_running, ended <- flag.session_ended

ImplementsContract == Contract!Spec

(* An outcome that was reported stays until begin_worker's caller publishes  *)
(* the next session: nothing of the old one has a second word, though its    *)
(* worker, its callback and its refresh thread may still be about.           *)
OutcomeIsFinal ==
    [][state' # state /\ state \in Terminal =>
           state' = "Connecting" /\ main = "begin" /\ worker \in {"none", "dead"}]_vars

(* A session the user ended comes to rest, whatever it was doing.           *)
EndedComesToRest == Contract!EndHonoured

(* As session.cpp says of Pair mode: if the handshake succeeded, the        *)
(* machine is recorded as paired, cancelled or not.                         *)
PairSuccessRecorded ==
    [][/\ worker \in {"gs_pair", "pair_done"} /\ worker' = "exit"
       /\ job.mode = "pair" /\ job'.paired
       => stored'[job.host] = "paired"]_vars
=============================================================================
