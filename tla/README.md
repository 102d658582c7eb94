# Cosmic Desk, verified

TLA+ modules, TLC configurations and TLAPS proofs for Cosmic Desk, a remote
desktop application that is at once a *viewer* (it connects to other machines)
and a *host* (it serves its own screens through a modified, embedded copy of
Sunshine). This file says what the system's parts are, which module models
which part, what each run checks and what the theorems establish.

## 1. The system

| part | code | state it keeps | threads and callbacks |
|---|---|---|---|
| Viewer session | `src/viewer/session.*` | `status_`, the gates `worker_running_`, `refresh_allowed_`, `refresh_running_`, the end and termination flags, `server_` | main thread, session worker, refresh thread, callbacks of moonlight-common-c |
| GameStream client | `third-party/libgamestream` | one static curl handle, `gs_error` | called by the worker and the refresh thread |
| Decoder, audio, input | `src/viewer/{decoder,audio,input,vrenderer,keymap}` | bounded decode queue, the latest frame, held keys and buttons | library threads, decode thread, main thread |
| Application loop | `src/main.cpp` | `AppMode`, the last viewer state, the pair latch, dialog flags | main thread, fed by all others |
| Presence poller | `src/app/presence.*` | poll targets, results | one worker, UI thread |
| Wallpaper cache | `src/app/wallcache.*` | files on disk, index, forget counter, cancel flag | presence worker, UI thread |
| Settings | `src/app/settings.*` | the host list and preferences, one file | UI thread, session worker |
| Single instance | `src/app/single_instance.*` | named mutex and event, watcher | processes |
| Service and launcher | `src/app/service_ctrl.*`, `tools/cosmicsvc.cpp` | service status, job object, child process | SCM threads, service main |
| Host glue | `src/hostglue/*` | host thread, pending PIN request, display list, wallpaper | Sunshine's HTTP threads, UI thread |
| Embedded host | `host/sunshine/src/*` | pairing sessions, paired clients, stream sessions, capture and encode pipeline | HTTP/HTTPS servers, RTSP server, stream threads |
| User interface | `src/ui/*` | drawing state; returns actions to the loop | main thread |
| Streaming host | `host/sunshine/src/{nvhttp,rtsp,stream,process}.cpp` | one pending launch, slots of sessions, the shared broadcast context, the running application | HTTPS threads, RTSP thread, a control thread, per session one video and one audio thread |
| Host input | `host/sunshine/src/input.cpp`, `task_pool.h` | a queue per session, keys and buttons held, delayed tasks | control thread, the pool's one worker, joining threads |
| Video capture | `host/sunshine/src/video.cpp`, `thread_safe.h` | a shared capture thread, its contexts, the display, the encoders | capture thread, one video thread per stream |
| Driver preferences | `platform/windows/nvprefs/*` | the driver's settings, a file that says how to undo them | start and end of the process |

How they interact. The loop (`main.cpp`) polls `Session::status()` once a frame
and starts and ends sessions; the session worker calls libgamestream, writes the
host list of `Settings`, and is woken by the streaming library's termination
callback. The loop hands the host list to the presence poller, whose worker
also feeds the wallpaper cache. The embedded host parks a pairing request and
signals the PIN bridge, which the loop shows as a dialog; the answer goes back
into Sunshine's pairing map from the UI thread. A second launch signals the first
through a named event; the Windows service starts the application in the
console session and restarts it when it dies. A viewer's launch request leaves a
pending launch for the RTSP server, which makes a session of it; sessions share
one broadcast context, one input worker and one capture thread, each of them
started by the first that needs it and ended by the last.

What is hard. Four threads share one session object and one curl handle, and
teardown has to meet an in-flight refresh, an in-flight handshake or a
termination report at any point. User actions (end, remove, forget, close) arrive
while a network request that was started before them is still running, and its
answer is applied after them. Processes race for the named mutex and event, and
what one of them changed in the driver has to be undone by another if it was
killed. The host's pairing protocol is spread over five requests of an untrusted
peer and a human answer. In the streaming host a session is torn down by whoever
notices first (time-out, cancel, a closed connection, an error of the encoder),
while other threads still hold references to it, to its queue or to the display.

## 2. Modules

### ViewerSession, SessionContract, ViewerSession_proofs

`ViewerSession` models `session.cpp`. One action is one critical section of
`mutex_`, or one blocking call of the worker outside it. The variables `main`,
`worker`, `refresh` and `callback` are the control points of the four threads;
`flag` holds the fields `begin_worker` resets; `job` the worker's arguments and
what `gs_init` learned; `stored` and `trusts` the pairing as the host list and as
the host know it. An HTTP exchange is an interval: a thread is at an HTTP point
from the action that starts the exchange to the one that ends it, so two
threads at HTTP points are two users of the one curl handle. `refresh_displays`,
which joins a thread while it holds the mutex, is two actions, and `MutexFree`
guards every other critical section.

`SessionContract` is what the rest of the application relies on: one session at
a time, the published order of states, a launched application that is quit
before the outcome is shown, and an end request that is honoured.
`ViewerSession` implements it under the mapping `running <- worker_running`,
`ended <- flag.session_ended` (safety proved, liveness checked).

Abstracted: message texts, the PIN's digits, the stream configuration, the
contents of a display (only how many there are and which is active). The host is
external: it accepts, refuses or stays silent, and may drop our certificate at
any time. A host of which plain HTTP but not HTTPS answers is included.

Runs: `session_safety` (2 hosts, lists of up to 2 displays, about 1.2 million
states, symmetric in the hosts) and `session_fair` (1 host, 1 display, with
fairness). Two hosts let a session for one follow a session for another; two
displays let a refresh bring another active mark, a shorter list or a vanished
selection. Whether
`LiStopConnection` waits for a callback that is running is decided in a submodule
that is not in the repository, so in both runs, and in the proofs, it does not: a
callback that has read `s_active` may take the mutex in the middle of a later
session. A session ends cleanly after such a report as after its own
(`TerminatedComesToRest`, `RestIsQuiet`), but it does end (section 4).

Fairness: every thread keeps running. Strong fairness for the critical sections,
because the main thread may take the mutex again and again; weak fairness for
the rest. No fairness for the user (starting, ending, clicking), for the host or
for the termination callback's start. HTTP calls end because curl has timeouts
(30 s, 300 s while pairing), `LiStartConnection` and `LiStopConnection` because
their stages do.

Proof. `TypeOK` is inductive by itself. `IInv` adds four parts: `LifeInv` (the
worker exists exactly while `worker_running`, but for the moment before the
spawn), `RefreshInv` (both gates are functions of the worker's position, and the
main thread in its join holds a refresh thread that is past its critical
section), `StreamInv` (connection and launched application) and `StateInv` (what
is reported at each point). `CurlExclusive` alone is not inductive: it needs that
the refresh thread exists only inside the window, which needs that the gate is
closed before the worker joins, which needs that the main thread cannot be
between its check and its spawn when the worker joins. The theorems hold for
every set of hosts and every bound on the display list.

What passes from one session to the next is a second invariant (`Handover`): the user's monitor
is pinned in the interval in which the host's mark may arrive
(`SelectionSticks`), and a worker about to sleep has either seen the flag that
is up or will be woken (`ParkedIsWoken`, what the liveness properties rest on).
`JoinIsShort` says the same of the one join that is made under the mutex. An
outcome, once reported, stays until the next start (`OutcomeIsFinal`). Not
proved: liveness.

### PresenceCache, PresenceCache_proofs

`PresenceCache` models `presence.cpp` and `wallcache.cpp` as one module, for one
worker thread runs both: a pass copies the targets (`CopyTargets`), asks each of
them for its state and the hash of its wallpaper (`PollHost`), and then hands
the hashes to `sync`, which looks in the index and on disk and downloads at most
one image. The actions of `sync` are the stretches between its locks: the
lookup (`Found`, `IndexHit`), the attempt (`Attempt`), the transfer (`Download`,
`DownloadFailed`, `Abort`), the comparison of the forget counter (`Check`), and
pruning or discarding. The main thread adds and removes hosts; a removal is the
save of the list and then `Forget`, as in `Settings::remove_host`. The directory
outlives the process, so `Relaunch` starts the application again over the files
that are left. The forget counter is kept as what it is compared for: the set of
hosts forgotten since `sync` read it.

The machines (`online`, `wall`) are the environment. `Movers` bounds which of
them come, go and change their wallpaper; the others always answer and always
advertise the same image.

Runs: `cache_two` (two hosts that stay put, fairness) is about hosts that
interfere with one another: forgetting one while the other's image is on its
way, and one attempt per pass shared between them. `cache_one` (one host that
comes, goes and changes between two wallpapers, two launches) is about what one
host's files and index go through, and needs transfers that succeed if they are
tried often enough (`HealthySpec`). Two images are enough to make a stale
file, and two launches to start over an old directory.

Fairness: both threads keep running; a transfer ends by its own timeout, but once
stop was requested only the progress callback is relied on.

Proof. `ForgottenStaysGone` is not inductive. `IInv` adds to the types that what is
on disk of a host forgotten during its own transfer is at most the file that
`Check` and `Discard` name, and only until they have run, and that at the start of
pruning the index names what pruning keeps, unless that host was forgotten since.
The second is what `PruneKeepsIndexed` needs.

Of the two liveness properties of the poller the safety they rest on is proved.
`StopIsHeard`: the worker is told to leave only by a main thread that joins it, and
the cancel stays until then. `TurnIsKept`: when `sync` attempts a host, every host
whose turn is earlier has nothing to fetch, has its file, or was forgotten in this
pass; for that `ScanInv` keeps what is known of the hosts already looked at, and
`NextIsFirst` that the round robin picks the first of the others, from the library's
theorem that the naturals are well founded.

### AppLoop, AppLoop_proofs

`AppLoop` models the turn of the main loop: the SDL events (`CloseWindow`,
`Combo`), the signals of the tray, a second launch and the host (`Show`,
`TrayQuit`, `PinRequest`), the one reading of the session's status with what is
decided from it (`ReadStatus`: the pair latch, the mode, the error line), and the
frame with the click it returned (`ViewingFrame`, `Bridge`). The point of a turn
is `pc`. The session is the one of `SessionContract`, instanced and stepping
between any two points, so a decision can be taken on a status that is no longer
the session's: `seen` is the loop's copy, `state` and `busy` are the session's.
That is the composition: `ViewerSession` implements the contract, `AppLoop` relies
on it and on nothing else of the session.

Run `app_loop`: one machine, with a tray. One machine is enough for the latch and
the label to be wrong, for they are also wrong with no machine at all (`Blank`,
what is left of an address of spaces); the proofs cover any set of machines.

Fairness: the loop turns; a frame is drawn again and again while the warp is on its
way, so it arrives; a session that was asked to end unwinds, which is the
contract's `EndHonoured`. No fairness for the user or for a session left alone.

Proof. `IInv`: a session without an outcome is known to the loop, as the latch
or as the address it links to, from inside the call that starts it. That
survives a reading of the status only because the start publishes `Connecting`
before it returns, so no later reading can take an earlier session's status for
its outcome: the conjuncts on `pc = "call"` and on `job.over` say that.

`KeepsToContract` closes the composition: of the two halves of `SessionContract`,
`ViewerSession` is proved to implement the session's and `AppLoop` to call it only as
the contract allows. `WarpGoesOut` and `QuitIsOrdered` are what `StreamIsShown` and
`QuitStops` rest on: a stream without an outcome is always on its way to the window,
and a worker is joined only after it was told to end and is not followed by another.

### HostPairing, HostPairing_proofs

`HostPairing` models both ends of pairing. On the host, the five calls of the
handshake (`ParkRequest`, `clientchallenge`, `serverchallengeresp`,
`clientpairingsecret`, `pairchallenge`), the map of sessions, the list of
clients, the certificates on their way to the verifier, the state file; the
bridge and the dialog (`ShowRequest`, `EnterPin`, `Deny`); and the death and
restart of the process at any point. On the viewers, `gs_pair`
step by step, its failures and a request that is given up while the host still
handles it. Requests wait in `net` in no order.

Each server has four threads and nothing locks the list or the file, so the end of
`clientpairingsecret` is modelled access by access: `saving` holds the handlers that
are in it. The secret is compared and the certificate raised (`AcceptClient`); the
client is appended to the list, where one of two handlers may undo the other's
(`add_authorized_client`); `save_state` reads the file and gives up if it cannot
(`save_stateRead`), takes the list (`save_stateList`), truncates the file
(`save_stateOpen`) and writes it (`save_stateWrite`), where a handler that opened the
file before another wrote it may leave the end of the other's text behind its own.
`disturbed` is history: the viewers whose handler met another one in there, or the
death of the host, until a handler that met none has written a list they are on.

An attempt's number stands for its salt and for the PIN the viewer shows: the
key is right exactly when the PIN that is typed is that of the attempt whose salt
the session holds. Two attempts of one viewer that happen to draw the same four
digits are thus told apart, which is exact, for the salt differs. `vouched`
is history: whose PIN was typed for whose session.

Runs: `pairing_two` (two viewers, two attempts each, one request given up, one
restart; whoever is at the host may type any PIN that is shown, one nobody shows,
or none) and `pairing_retry` (one viewer, somebody diligent at the host, two
requests given up). The second is about how often one must try: each request
given up can spoil two further attempts, so that k of them need 3k+1 attempts,
and the bound is exactly that, 7 for 2; with 6 the property fails.

Fairness (`pairing_retry` only): the servers handle what they have, `gs_pair` goes
on, the loop turns, and the two people keep trying. The last is no promise of the
code; it is what "ask the client to retry" presupposes.

Proof. That a trusted client was vouched for needs `KeysAreVouched`: a session
whose key is some attempt's, or whose hash some attempt can match, has had that
attempt's PIN typed into it. It holds although a session is shared by several
attempts, because a key is made only from the salt that the session has at that
moment. What a viewer was told (`PairedIsTrusted`) and what a step may take
(`TrustIsKept`) have two exceptions, both at a restart: a file that is past help
(`Wrecked`) and a viewer that was disturbed. That there are no others needs
`TrustIsSaved`: everybody else who is trusted is on the list, on every list some
handler is still going to write, and in the file; and that needs
`SaversAreTrusted`: a handler that met no other has its client on the list and
writes that list. `ParkedIsShown` is what `RetriesPair` rests on: with one
viewer and nobody who denies, a parked request is in the dialog or about to be. The
hypothesis of one viewer is needed, for the dialog names one. The theorems hold for
every set of viewers and all bounds.

Deadlock is not checked here: with the bounds used up the system stops.

### HostStream, StreamContract, SharedThread, HostStream_proofs

`HostStream` models how a stream comes and goes on the host: the handlers
`launch`, `resume` and `cancel` of `nvhttp.cpp`; the RTSP server with its one
pending launch and its timer, its slots and the end of sessions; the session's
`start`, `stop` and `join`, its video and audio threads, the control thread and
the shared broadcast context of `stream.cpp`; and the application of
`process.cpp`. A critical section that does not block is one action. Two do
block while they hold a mutex and are several actions: `clear` joins sessions
under the lock of the slots, and `session_clear` waits in `pop` under the lock of
the control server's sessions.

`StreamContract` is the abstract specification: a session is opened once, is live
at most once and is closed once, in this order, and the shared context is never
ended under a session that holds it nor handed out while it is being ended.
`SharedThread` is another, of `safe::shared_t` (`thread_safe.h`) where it holds a
thread: the first user starts it, the last one joins it under the lock, and no user
comes between. It has two implementations here, the control thread of `HostStream`
(`SharesControl`) and the capture thread of `VideoCapture` (`SharesCapture`).

Abstracted: packets, encryption, ports, frames, and the client's RTSP dialogue
except for the step that starts a session. A client may fall silent or leave at
any time. `abort()` of the watchdog (a join that takes over ten seconds) is the
variable `aborted`.

Runs: `host_safety` (two sessions, one launch, one handler, the two streams
folded into one, symmetric) and `host_fair` (one session with both streams).
Two sessions are enough to share and to hand over the context; the theorems
cover any number. Liveness is stated outside of three wedges the code really has
(`Wedged`): a `pop` that waits for a launch that was already taken, a session
that enters the control server's list after its last sweep, and a session joined
that nobody stopped; section 4.

Fairness: the threads keep running, sockets time out. None for clients, handlers
and applications that end by themselves.

Proof. The shared context is used by exactly those that hold a reference
(`ContextCoversUsers`), which needs where each thread of each session stands, that
a session has left every list before its owner lets go of it, and that the count
of running sessions is that of the sessions between `start` and the end of
`join`. Refinement follows from the same invariant: a step of a session is a step
of the contract or a stutter. So does that of `SharedThread`, with `EndIsJoined`: the
context is taken down by one thread at a time, which holds the slots or clears
them as the RTSP thread, and whose join is of a control thread that is there.

### HostInput, HostInput_proofs

`HostInput` models `input.cpp` with the part of `task_pool.h` it relies on: a
message is queued and a task made for it, the worker takes a message, batches
what follows, and passes it through; the delayed tasks for key repetition and for
the left button; and `reset`, run by whoever joins the session, in its four
unlocked steps. Tasks are known by their address, and an address is used again
after its task is gone, so that an identifier kept too long may name another
task: `Addr` is the set of addresses, and `key_press_repeat_id` and
`mouse_left_button_timeout` hold one of them. The queueing of a message and of its
task, two lock sections in a row of the same thread, are one step.

`OsMatches` relates what the system holds down to what the host believes it does;
`KeysReleased` says that once the last session has gone and the pool has done what
was queued nothing is held, but for the left button and the one that is not
tracked.

Left out: controllers (the back end has none), touch and pen, what a shortcut does,
the scroll accumulator.

Run `input_safety`: two sessions, two keys, three addresses, four messages in all
from viewers of several kinds, and motions in a word of two bits, so that sums
overflow. Four messages are enough for press, batch,
release and another session's message in between; three addresses for one of
them to be used again while its old name is still kept.

Proof. `LeftOwed` (a left button held back is owed a release by a live task)
and `RepeatNamed` (a key that repeats names its own task) need to know, of every
address, which task is there and who remembers it; `KeysReleased` needs that the
reset of a session that has gone is queued behind whatever it sent. `QueueServed`
is a count, for batching leaves tasks behind that find no message: there are never
fewer tasks of a session than messages of it. The lemmas say how the number of places
of a session in a queue changes when an entry is added or taken. With the count no
message is stranded either (`NothingStranded`). The order of messages under batching
(`BatchKeepsOrder`) and `OsMatches` are proved and not run.

### VideoCapture, VideoCapture_proofs

`VideoCapture` models the asynchronous path of `video.cpp` (an encoder with
`PARALLEL_ENCODING`): streams come to the shared capture thread by a counted
reference, put their context into its queue and run their own encode loop. The
capture thread takes contexts over, captures, and on a change of the display
re-initialises: it raises `reinit_event`, waits until every encoder has given the
display up, and makes a new one. A video thread takes its shared objects, encodes,
leaves when it is told to shut down, and lets go of its reference; the last one
ends the capture thread and joins it, holding the mutex of the counter.

Left out: the list of monitors, the pool of twelve images, the bound of thirty on
the queue of contexts, the other path (one thread for capture and all encoders).
`Hangs` says whether the
teardown of an encoder may never return, which the source itself reports of one
driver.

Run `video_capture`: two streams, each started once, `Hangs` false. Two are enough for one to arrive while the other, the last, is joining.
Fairness: each thread keeps running. Every property but `NoOrphan` excepts
`Faulted` (section 4: the code uses a pointer or an optional that is empty, and what
follows is not defined) and, where it matters, an image that was taken between the `peek` and
the `pop` of the capture thread.

Proof. `NoOrphan`: a stream whose context is nowhere has left. The invariant says
where each context is (on its way, in the queue, in the thread's list), that the
counter equals the holders, and that from the fall of the counter to zero to the
end of the join nobody else can pass the mutex. The same facts show that the capture
thread is shared as `SharedThread` says, and that the join of the last reference is
made by one stream, of a thread that is there and whose queue was stopped
(`JoinIsOfStopped`), on which `StreamsStop` and `CaptureReplaced` rest.
`CapturesPublished`: as long as the thread captures, whoever looks finds a display;
`ReinitProceeds` rests on that.

### HostLifetime, HostLifetime_proofs

`HostLifetime` composes what decides which processes there are: the service
`cosmicsvc.cpp` (its two waits, `HandlerEx`, the job object, the child), the
processes of the application (the mutex of `single_instance.cpp`, their start,
their exit codes and their deaths), and the driver's settings of
`nvprefs`, which a process changes when it starts, notes in an undo file, and
restores when it ends. A process can be killed between any two steps of that:
the service's job does just this. A file that a killed process left is applied
by the next one, which then starts over with its own.

The user starts and quits processes, changes settings of the driver and changes the
console session. `MaxEvents` bounds these and the failures taken together. Process
identities are used again, the least free one first, and starting by hand leaves
the service one.

Run `host_lifetime`: two sessions (`Home` has the console at the start), two
processes, two values the user can choose (`First` is there at the start), three
events, with fairness. Three events are enough for a kill, a restart and a change
between them, and two values for a record of the wrong one; the inductive invariant
has been checked with four events.

Fairness: the service's thread, the delivery of controls, the steps of a process
that is not dying and the end of one that is. None for the user, the
console or failures.

`Recoverable`: what the user last had (`chosen`) is in the driver, or the driver has
the host's value and the file says exactly that (`InTheFile`), whatever died in
between. Two exceptions are part of the statement, for the code has them:

- `abandoned`: the file is deleted although undoing failed, while the driver has the
  host's value (nvprefs_interface.cpp:85, 88);
- `outdated`: a process saves the setting, or deletes the file with nothing to undo,
  by what the setting was before it was changed. `current` is the set of
  processes whose copy is of the setting as it is: a load puts a process in it, and
  whoever saves, or the user, takes the others out. The user may choose
  between the load and the save (42-60, 177), so that the file has the choice
  before; another process may have saved in between; or the process restores, from
  memory, what a file said that it has deleted since because it could not be written
  (170, 199; this case needs four events).

Both end when the user chooses again. Assumed: `save_settings` of the driver writes
only what the session changed. A user who chooses just the value the host sets is not
told apart from the host.

Proof. The file is open in at most one process, and only the process that has it
open saves the host's value. `IInv` lists, for each point of a process, what it holds (`Handles`), what the file
records (`Records`), what a process knows whose copy is current (`Fresh`): that the
setting is what it read, or what it will write to the file; and what one knows that
has made the file (`Owners`): when it would empty or delete it, the driver does not
have the host's value.

A second invariant, `Lives`, is about who is there. Of the processes of one session
that hold the mutex at most one runs (`SingleInstance`), because an identity in the
mutex always belongs to a process that is still in that session, a killed one
included until the system has cleared up. The service has no live process but the one
it watches (`OneServiceProcess`), a session change is never lost between the
question for the console and the wait (`ChangeIsNoticed`), and the service gives a
process that asked for its end up only with the stop event set or for another session
(`QuitIsPassedOn`): the safety that `StopHonoured`, `ConsoleServed` and
`QuitStopsService` rest on.


## 3. Runs

| run | question |
|---|---|
| `session_safety` | can the threads of a session meet on the curl handle, in a join, or leave something running; does the session keep its contract? |
| `session_fair` | does an ended or terminated session come to rest, and the main thread come back? |
| `cache_two` | does a forgotten host's wallpaper stay away, and does every host get its attempts? |
| `cache_one` | does the cache converge to what is advertised, does pruning spare what is indexed, does stop return? |
| `app_loop` | is a pairing watched to its outcome, is the right machine named, is a stream shown, does quitting end? |
| `pairing_two` | is only a vouched client authorised, and a client that was told so trusted? |
| `pairing_retry` | does a viewer that tries again get paired? |
| `host_safety` | is no session used after it is destroyed, is the shared context there as long as it is used, is the count exact, does the host keep its contract? |
| `host_fair` | is a session that was stopped joined, and is a cancel answered? |
| `input_safety` | is everything pressed released, is a queued message handled, does an identifier name what it should? |
| `video_capture` | does no stream wait for a capture thread that is gone, does a shutdown and a change of display end, is a dead capture thread replaced? |
| `host_lifetime` | can the driver's setting always be restored, is the console served, is a stop honoured, does quitting stay quit? |

All hold. Every property has a mutant in `PROJECT.json`: an operator
commented "Fault" in the module, which when it takes the place of the
definition before which it stands makes the property fail. Type invariants and
inductive invariants are theorems, and not repeated in the runs.

## 4. Where code and words disagree

Stated in the modules as definitions of these names, which the models do not
satisfy and no run checks:

- `NoInheritedTermination` (ViewerSession): the worker parks "until the session really
  ends: the user stopped it, or the connection terminated itself" (session.cpp:580-586).
  A termination callback reads `s_active` (740) before it takes the mutex (679); if it
  is delayed past the end of its connection, it raises the flag of the next session, and
  that session's stream ends at once. Only a library that waits for its callbacks could
  exclude it.
- `PairSuccessRecorded` (ViewerSession): a pairing that succeeds after the user
  cancelled is not recorded; session.cpp:397 returns before the place whose comment
  (407-409) says the session's end must not be checked there.
- `RemovedLeavesNoFile` (PresenceCache): `sync` reads the forget counter only at its
  attempt, so a removal between the copy of the targets and that reading is not
  noticed, and the wallpaper of a removed host is downloaded and stays.
- `GrabOnlyWhileViewing` (AppLoop): main.cpp:722 leaves the Viewing mode only in a
  turn that still finds itself in it. If a show request comes in the turn in which
  the stream ends, the mode is already the main window, and the grab and the
  renderer stay.
- `ParkedIsAnswerable` (HostPairing): a second request of one viewer parks in the
  session of the first. If the PIN is typed after the first was given up, the
  session is past the phase in which a PIN can answer; the next PIN takes the failure
  path and erases the session it goes on to use (nvhttp.cpp:653).
- `PairingPersists` (HostPairing): "Pairing is persistent" (PROTOCOL.md:38). The state
  file is rewritten in place. A process that dies within loses every pairing, and from
  then on nothing is saved, for `save_state` gives up on a file it cannot read. Two
  viewers that pair at the same time are saved by two threads without a lock: the older
  list may be written last, an append may be undone, one may give up on the file the
  other has just truncated, or the two texts may mix into a file that is past help. All
  of this shows only after the next restart. A viewer that gave its last request up can
  read in the server's status that it is paired while the host still saves it.
- `ClearsOwnLaunch` (HostStream): `session_clear` looks at the pending launch, finds its
  own, and then pops whatever is pending by then (rtsp.cpp:521-533), which may be
  another client's.
- `BatchKeepsMotion` (HostInput): "batching is safe as long as the result doesn't
  overflow" (input.cpp:1270), but the test is inverted (1271, 1274, 1312, 1334): two
  motions are merged exactly when their sum does overflow.
- `NothingStuck` (HostInput): "reset input on session stop to avoid stuck repeated
  keys" (stream.cpp:1940); the left button and the second X button stay pressed (below).
- `TeardownNeverBlocks` (VideoCapture): the encoder's teardown is detached so that
  streaming can go on if it hangs (video.cpp:1715-1720); it keeps its display, and the
  next re-initialisation waits for that display for ever.

Seen while modelling, in the models as the code has it:

- Viewer. A pairing that comes to rest between the reading of the status
  (main.cpp:661) and that of `busy()` (934) leaves one frame with live buttons; a
  double click then starts a stream under a pair latch that reads its outcome as
  the pairing's (698-700). Closing the window while the session connects does not
  end it; it streams behind the hidden window, which the comment at main.cpp:577-579
  wants to prevent. A pairing request while a stream is shown waits until the
  stream ends. An address of spaces passes the button's test and starts nothing. A
  presence result can be stored for a host removed during the pass. The pair status
  of a connect over the plain-HTTP fallback is 0 and is stored as the truth
  (session.cpp:354); a pairing made on the way into a stream is not stored (390).
- Streaming host. The timer's handler discards whatever launch is pending, also one
  newer than the one it was set for (rtsp.cpp:512). A second launch while one is
  pending is dropped or overwritten though it was answered 200. A session that
  enters the list after the control thread's last sweep is never told to end, and
  its join runs into the watchdog. A cancel during `ANNOUNCE` joins a session that
  was not started. The time-out of a silent client and the watchdog of a join are both ten
  seconds. Two handlers can pass through `launch` together. A `launch` of no
  application, or a `resume`, that fails leaves the display configured.
- Host input. `reset` cancels the pending release of the left button and does not
  release it (597, 1638, 1643). The delayed task that finds the button pressed again
  returns and leaves its own identifier behind (619). The array of pressed buttons
  has five places, so the second X button is not tracked (110, 590). The
  reset of one session releases keys another one holds, and does not apply the key
  bindings (1650).
- Video. The last stream can join a capture thread that waits in `pop` for an image
  that it saw in `peek` and that a video thread took in between (1163, 2134-2140).
  Two places use what may be gone by then: the lock at 2168, and the optional at
  1119-1120.
- Lifetime. A console change that comes before the exit of a child that was quit
  makes the service start another one, against PLAN.md:109 (exit code 1115 stops the
  service). An instance started by hand in the console session makes each child of the
  service exit at once, and the service starts another every three seconds. A stop
  of the service kills the child, so the driver's setting stays changed until the
  next start. The named mutex is given back before the static destructor
  restores the settings. What the user chooses in the driver between a load and a
  save is overwritten and recorded nowhere: the merge at nvprefs_interface.cpp:161
  sees only changes that came before the load. `InTheFile` without its exceptions is
  what fails then.

Read but not modelled: host.cpp:66-69 promises that a manual port in host.conf is
durable, and the code replaces the line; displays.cpp:147 can mark two displays
active where PROTOCOL.md speaks of the one being captured;
single_instance.cpp creates its event after its mutex, so a second launch does
not "always" find something to signal.

## 5. Proved, checked, left out

Proved by TLAPS for every value of the constants (under the named assumptions of
the modules, which give the constants their types): the types and the inductive
invariants of all eight components; from them every safety property, action property
and refinement that a run checks; the two refinements of `SharedThread` and the
application's half of `SessionContract`, which no run checks; and the safety on which
the liveness properties rest. Where a theorem has no property of a run, its formula is
a definition of the module it is about and has been model-checked on the constants of a
run before the proof. The theorems are listed in `PROJECT.json`; each proof module
opens with the lemmas on helpers, then one lemma or step per action.

| module | theorems |
|---|---|
| `ViewerSession_proofs` | `TypeInvariant`, `Invariance`, `CurlIsExclusive`, `RefreshIsConfined`, `JoinIsExclusive`, `RestLeavesNothing`, `Handover`, `SelectionIsKept`, `NoLostNotification`, `JoinUnderMutexIsShort`, `OutcomeStays`, `Refinement` |
| `PresenceCache_proofs` | `TypeInvariant`, `Invariance`, `ForgottenIsGone`, `PruningKeepsIndexed`, `Handling`, `StopReachesWorker`, `RoundRobin` |
| `AppLoop_proofs` | `TypeInvariant`, `Invariance`, `PairingWatched`, `LabelIsRight`, `WarpIsOnItsWay`, `QuitEndsTheSession`, `ApplicationKeepsContract` |
| `HostPairing_proofs` | `Invariance`, `Authorised`, `Trust`, `NobodyIsDropped`, `RequestIsSeen` |
| `HostStream_proofs` | `TypeInvariant`, `NoUseAfterDestroy`, `ContextOutlivesUsers`, `JoinsProgress`, `SessionsCounted`, `ContractHonoured`, `EndOfContextIsJoined`, `ControlIsShared` |
| `HostInput_proofs` | `TypeInvariant`, `SystemMatches`, `RepetitionNamed`, `ReleaseIsOwed`, `WorkerIsWoken`, `MessagesAreServed`, `NothingIsStranded`, `NoKeyIsStuck`, `OrderKept` |
| `VideoCapture_proofs` | `Invariance`, `TypeInvariant`, `NobodyIsOrphaned`, `OneAtATime`, `LastLeaverJoins`, `DisplayIsThere`, `CaptureIsShared` |
| `HostLifetime_proofs` | `Invariance`, `TypeInvariant`, `AlwaysRecoverable`, `Lives`, `OneInstanceRuns`, `OneServed`, `NoChangeIsLost`, `QuitReachesService` |

`RequestIsSeen` is about one viewer.

Only model-checked: liveness, for fairness and ENABLED are out of the prover's reach.

Left out of the modelled parts: data races on the map of the host's pairing sessions
and on the verifier's chain (`map_id_sess` and `cert_chain` are used by the UI thread
and the servers with no lock; what a handler does to them before it authorises a
client, and what `verify` does, is one step here); of the races on the
list of clients, the outcome that the process dies at once is a restart, and one that
leaves a broken entry is not modelled; the bound of
30 on the queue of new certificates (every viewer of this code connects over HTTPS
right after its pairing), a full disk, the host's refusals on malformed requests;
what a failing `start_broadcast` leaves behind (a bound port); the reading of
`running()` without a lock; device back ends behind the input calls; the show event
between processes (its receiving side is in `AppLoop`).

Not modelled:

- The decoder's queue and the audio output: moonlight-common-c, a submodule that is
  absent, decides which threads call them and in which order. The forwarding of the
  viewer's input: the main thread alone, with the set of held keys as its state.
- The file of the settings and the host's own list of displays: one thread, one file,
  one function of what the system answers.
- The video renderer, drawing and the bridge's scene, fonts, theme and scale: straight
  lines to SDL and the graphics libraries; their only state is what is on the screen.
- Autostart and service control: single calls to the system's service manager and
  registry.
- The parsing of configuration, logging, network helpers: text in, values out, no
  state that interacts.
- Encoders, colour conversion, platform capture, audio capture and the Linux and macOS
  back ends: hardware and system interfaces. What the rest of the
  host relies on (a display that is held or released, an image that comes or not, a
  teardown that returns or not) is in `VideoCapture`.
- Display devices: their revert retries through the same timer the models of the
  host use, but what is retried is external.

## 6. What remains

1. `SettingsStore` and `HostDisplays`: pure state, the file and the list; the list of
   displays as an operator compared with its description in PROTOCOL.md.
2. `DecoderQueue` and `InputForwarding`: the bounded queue and its shutdown; every
   key pressed on the host is released when the viewer goes.
3. The synchronous path of `video.cpp`, and one composition of `HostStream` with
   `VideoCapture` and `HostInput`: the shutdown event of a session is that of its video
   thread, the end of its join is the reset of its input.
4. The show event between processes, with `AppLoop`.
5. Theorems: what `CacheConverges` and `CancelAnswered` rest on has not been stated as
   safety; a theorem that the index names a file, outside of the stretches in which
   `sync` has looked and not yet entered it.
