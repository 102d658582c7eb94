----------------------------- MODULE VideoCapture -----------------------------
(***************************************************************************)
(* The capture thread of the host and the video threads of its streams     *)
(* (host/sunshine/src/video.cpp, for encoders with PARALLEL_ENCODING).     *)
(*                                                                         *)
(* Each stream encodes on a thread of its own.  They share one capture     *)
(* thread through a counted reference: the first to take it starts the     *)
(* thread, the last to leave stops and joins it.  A stream hands the       *)
(* thread its event for images and borrows the display the thread opened.  *)
(* When the display changes, or the user asks for another, the thread      *)
(* raises reinit_event, waits until nobody else uses the display, opens it *)
(* anew and publishes it through a weak pointer.                           *)
(*                                                                         *)
(* A frame is only there or not there.  Of the displays that are alive,    *)
(* the published one is told from one opened and not yet published, and    *)
(* from older ones.  No image class of this tree refers to its display, so *)
(* only encoders and their teardown hold one.  The list of monitors, the   *)
(* pool of twelve buffers and the bound of thirty contexts are left out:   *)
(* five streams cannot exhaust either.                                     *)
(***************************************************************************)
EXTENDS Naturals, FiniteSets

CONSTANTS
    Session,    \* the streams; each is started once
    None,       \* no stream
    Hangs       \* whether the teardown of an encoder may never return

ASSUME SessionAssumption == IsFiniteSet(Session)
ASSUME NoneAssumption == None \notin Session
ASSUME HangsAssumption == Hangs \in BOOLEAN

VARIABLES
    thread,             \* where the video thread of a stream is
    display,            \* the display it has locked
    teardown,           \* a detached teardown holds the published display
    images_running,     \* its event for images has not been stopped
    images,             \* the streams whose event holds an image
    shutdown,           \* the streams whose shutdown event is raised
    count,              \* references to capture_thread_async
    capture,            \* where the capture thread is
    queue_running,      \* capture_ctx_queue has not been stopped
    capture_ctx_queue,  \* contexts handed over and not yet taken
    capture_ctxs,       \* contexts the capture thread serves
    disp,               \* the display the capture thread holds
    display_wp,         \* a display has been published
    reinit_event,
    sweep,              \* contexts still to visit in the wait of a reinit
    popping             \* the one whose image is being taken

borrowVars == <<display, teardown>>
eventVars == <<images_running, images, shutdown>>
queueVars == <<queue_running, capture_ctx_queue, capture_ctxs>>
displayVars == <<disp, display_wp, reinit_event>>
waitVars == <<sweep, popping>>
vars == <<thread, borrowVars, eventVars, count, capture, queueVars,
          displayVars, waitVars>>

Threads == {"idle", "raise", "check", "loop", "lock", "device", "encode",
            "image", "release", "join", "stop", "done", "fault"}
Captures == {"none", "first", "open", "capture", "peek", "pop_ctx", "wait",
             "sweep", "pop", "renew", "reopen", "publish", "resume",
             "guard", "unlisten", "exited", "fault"}
Displays == {"none", "new", "published", "old"}

\* The places of a video thread that holds a reference.
Referring ==
    {"raise", "check", "loop", "lock", "device", "encode", "image", "release",
     "fault"}

TypeOK ==
    /\ thread \in [Session -> Threads]
    /\ display \in [Session -> Displays] /\ teardown \in BOOLEAN
    /\ images_running \in [Session -> BOOLEAN]
    /\ images \subseteq Session /\ shutdown \subseteq Session
    /\ count \in Nat /\ capture \in Captures
    /\ queue_running \in BOOLEAN
    /\ capture_ctx_queue \subseteq Session /\ capture_ctxs \subseteq Session
    /\ disp \in Displays /\ display_wp \in BOOLEAN
    /\ reinit_event \in BOOLEAN
    /\ sweep \subseteq Session /\ popping \in Session \cup {None}

\* The published display is held by others; it is alive (not expired).
Borrowed == teardown \/ \E s \in Session : display[s] = "published"
Alive == display_wp /\ (Borrowed \/ disp = "published")

\* sync_t: display_wp is locked between expired() and lock().
Locked == \E s \in Session : thread[s] = "lock"

\* shared_t: its mutex is held over the destructor, which joins.
Held == \E s \in Session : thread[s] = "join"

\* A null pointer or an empty optional was dereferenced.
Faulted == capture = "fault" \/ \E s \in Session : thread[s] = "fault"

Init ==
    /\ thread = [s \in Session |-> "idle"]
    /\ display = [s \in Session |-> "none"] /\ teardown = FALSE
    /\ images_running = [s \in Session |-> TRUE]
    /\ images = {} /\ shutdown = {}
    /\ count = 0 /\ capture = "none"
    /\ queue_running = FALSE
    /\ capture_ctx_queue = {} /\ capture_ctxs = {}
    /\ disp = "none" /\ display_wp = FALSE /\ reinit_event = FALSE
    /\ sweep = {} /\ popping = None

-----------------------------------------------------------------------------
(* The video thread of a stream: capture_async. *)

Move(s, from, to) == thread[s] = from /\ thread' = [thread EXCEPT ![s] = to]

(* A stream starts with an event of its own and capture_thread_async.ref(): *)
(* the first reference constructs the context and starts the thread.        *)
Ref(s) ==
    /\ Move(s, "idle", "raise") /\ ~Held
    /\ count' = count + 1
    /\ IF count = 0
       THEN /\ capture' = "first" /\ queue_running' = TRUE
            /\ capture_ctx_queue' = {} /\ capture_ctxs' = {}
            /\ display_wp' = FALSE /\ reinit_event' = FALSE
       ELSE UNCHANGED <<capture, queueVars, display_wp, reinit_event>>
    /\ UNCHANGED <<borrowVars, eventVars, disp, waitVars>>

(* capture_ctx_queue->raise; a queue that was stopped takes nothing.        *)
Raise(s) ==
    /\ Move(s, "raise", "check")
    /\ capture_ctx_queue' = IF queue_running
                            THEN capture_ctx_queue \cup {s}
                            ELSE capture_ctx_queue
    /\ UNCHANGED <<borrowVars, eventVars, count, capture, queue_running,
                   capture_ctxs, displayVars, waitVars>>

(* Fault: the queue is not looked at again.                                 *)
CheckNothing(s) ==
    /\ Move(s, "check", "loop")
    /\ UNCHANGED <<borrowVars, eventVars, count, capture, queueVars,
                   displayVars, waitVars>>

(* The capture thread may have ended: the stream ends as well.              *)
Check(s) ==
    /\ Move(s, "check", IF queue_running THEN "loop" ELSE "release")
    /\ UNCHANGED <<borrowVars, eventVars, count, capture, queueVars,
                   displayVars, waitVars>>

(* Fault: a stopped event for images does not end the stream.              *)
EndingOnShutdown(s) == s \in shutdown

Ending(s) == s \in shutdown \/ ~images_running[s]

(* The stream is over, or there is a display to lock.  The thread sleeps    *)
(* while the display is reinitialised, and spins while it is expired.       *)
Loop(s) ==
    /\ \/ Ending(s) /\ Move(s, "loop", "release")
       \/ /\ ~Ending(s) /\ ~reinit_event
          /\ ~Locked /\ Alive
          /\ Move(s, "loop", "lock")
    /\ UNCHANGED <<borrowVars, eventVars, count, capture, queueVars,
                   displayVars, waitVars>>

(* display_wp->lock() finds nothing when the capture thread let go of the   *)
(* display after the test of expired().                                     *)
Lock(s) ==
    /\ \/ Alive /\ Move(s, "lock", "device")
          /\ display' = [display EXCEPT ![s] = "published"]
       \/ ~Alive /\ Move(s, "lock", "fault") /\ UNCHANGED display
    /\ UNCHANGED <<teardown, eventVars, count, capture, queueVars,
                   displayVars, waitVars>>

(* make_encode_device and make_encode_session: without the one the stream   *)
(* ends, without the other it tries again.  The first frame of a stream is  *)
(* encoded whatever reinit_event says.                                      *)
MakeEncoder(s) ==
    /\ \/ /\ Move(s, "device", "encode") \/ Move(s, "device", "image")
          /\ UNCHANGED display
       \/ /\ Move(s, "device", "release") \/ Move(s, "device", "loop")
          /\ display' = [display EXCEPT ![s] = "none"]
    /\ UNCHANGED <<teardown, eventVars, count, capture, queueVars,
                   displayVars, waitVars>>

(* encode_run returns: the encoder is torn down on a thread of its own,     *)
(* which keeps the display until it is done.                                *)
LeaveEncoder(s, from) ==
    /\ Move(s, from, "loop")
    /\ display' = [display EXCEPT ![s] = "none"]
    /\ teardown' = (teardown \/ display[s] = "published")
    /\ UNCHANGED <<eventVars, count, capture, queueVars, displayVars,
                   waitVars>>

(* Fault: the encoding loop does not look at reinit_event.                  *)
EncodeThroughReinit(s) ==
    \/ Ending(s) /\ LeaveEncoder(s, "encode")
    \/ /\ ~Ending(s) /\ Move(s, "encode", "image")
       /\ UNCHANGED <<borrowVars, eventVars, count, capture, queueVars,
                      displayVars, waitVars>>

(* The head of the loop of encode_run.                                      *)
Encode(s) ==
    \/ (Ending(s) \/ reinit_event) /\ LeaveEncoder(s, "encode")
    \/ /\ ~Ending(s) /\ ~reinit_event /\ Move(s, "encode", "image")
       /\ UNCHANGED <<borrowVars, eventVars, count, capture, queueVars,
                      displayVars, waitVars>>

(* images->pop(max_frametime): an image, or none in time and the last one   *)
(* is encoded again; converting or encoding may fail.                       *)
Image(s) ==
    \/ LeaveEncoder(s, "image")
    \/ /\ images_running[s] /\ Move(s, "image", "encode")
       /\ images' \in {images, images \ {s}}
       /\ s \in images => s \notin images'
       /\ UNCHANGED <<borrowVars, images_running, shutdown, count, capture,
                      queueVars, displayVars, waitVars>>

(* Fault: the last reference joins without stopping the queue.              *)
ReleaseRunning(s) ==
    /\ ~Held
    /\ count' = count - 1
    /\ Move(s, "release", IF count = 1 THEN "join" ELSE "stop")
    /\ UNCHANGED <<borrowVars, eventVars, capture, queueVars, displayVars,
                   waitVars>>

(* ~ptr_t: the last reference stops the queue, and joins under the mutex.   *)
Release(s) ==
    /\ ~Held
    /\ count' = count - 1
    /\ Move(s, "release", IF count = 1 THEN "join" ELSE "stop")
    /\ queue_running' = (queue_running /\ count # 1)
    /\ UNCHANGED <<borrowVars, eventVars, capture, capture_ctx_queue,
                   capture_ctxs, displayVars, waitVars>>

Join(s) ==
    /\ Move(s, "join", "stop")
    /\ capture = "exited" /\ capture' = "none"
    /\ UNCHANGED <<borrowVars, eventVars, count, queueVars, displayVars,
                   waitVars>>

(* The guard declared before the reference runs after it is released.  No   *)
(* image can be taken from an event that is stopped.                        *)
Stop(s) ==
    /\ Move(s, "stop", "done")
    /\ images_running' = [images_running EXCEPT ![s] = FALSE]
    /\ images' = images \ {s} /\ shutdown' = shutdown \cup {s}
    /\ UNCHANGED <<borrowVars, count, capture, queueVars, displayVars,
                   waitVars>>

StreamStep(s) ==
    \/ Raise(s) \/ Check(s) \/ Loop(s) \/ Lock(s) \/ MakeEncoder(s)
    \/ Encode(s) \/ Image(s) \/ Release(s) \/ Join(s) \/ Stop(s)

-----------------------------------------------------------------------------
(* The capture thread: captureThread. *)

Goto(from, to) == capture = from /\ capture' = to

(* The thread returns: its display goes first, the guard runs after that.   *)
Return(from) == Goto(from, "guard") /\ disp' = "none"

(* The first context, unless the queue was stopped before there was one.    *)
FirstContext ==
    /\ \/ ~queue_running /\ Return("first") /\ UNCHANGED queueVars
       \/ /\ queue_running /\ Goto("first", "open")
          /\ \E s \in capture_ctx_queue :
                 /\ capture_ctx_queue' = capture_ctx_queue \ {s}
                 /\ capture_ctxs' = {s}
          /\ UNCHANGED <<queue_running, disp>>
    /\ UNCHANGED <<thread, borrowVars, eventVars, count, display_wp,
                   reinit_event, waitVars>>

(* platf::display, which may fail; the display is published.  A teardown    *)
(* that is left over holds one of an earlier thread.                        *)
Open ==
    /\ \/ Return("open") /\ UNCHANGED <<display_wp, teardown>>
       \/ /\ Goto("open", "capture")
          /\ disp' = "published" /\ display_wp' = TRUE /\ teardown' = FALSE
    /\ UNCHANGED <<thread, display, eventVars, count, queueVars, reinit_event,
                   waitVars>>

(* display_t::capture fails or was interrupted, or the display has changed. *)
Interrupted ==
    /\ \/ Return("capture") /\ UNCHANGED reinit_event
       \/ /\ Goto("capture", "wait") /\ reinit_event' = TRUE
          /\ UNCHANGED disp
    /\ UNCHANGED <<thread, borrowVars, eventVars, count, queueVars,
                   display_wp, waitVars>>

(* The push callback, with an image or after a timeout: the contexts of     *)
(* streams that ended are dropped, the others get the image.                *)
Push ==
    /\ capture_ctxs' = {s \in capture_ctxs : images_running[s]}
    /\ images' \in {images, images \cup capture_ctxs'}
    /\ \/ queue_running /\ Goto("capture", "peek") /\ UNCHANGED disp
       \/ ~queue_running /\ Return("capture")
    /\ UNCHANGED <<thread, borrowVars, images_running, shutdown, count,
                   queue_running, capture_ctx_queue, display_wp,
                   reinit_event, waitVars>>

(* Contexts that wait are taken; a request for another display ends the     *)
(* capture as if the display had changed.                                   *)
Peek ==
    /\ IF queue_running /\ capture_ctx_queue # {}
       THEN Goto("peek", "pop_ctx") /\ UNCHANGED reinit_event
       ELSE \/ Goto("peek", "capture") /\ UNCHANGED reinit_event
            \/ Goto("peek", "wait") /\ reinit_event' = TRUE
    /\ UNCHANGED <<thread, borrowVars, eventVars, count, queueVars, disp,
                   display_wp, waitVars>>

(* The queue may have been stopped after it was peeked at: then there is    *)
(* nothing to dereference.                                                  *)
PopContext ==
    /\ \/ /\ ~queue_running /\ Goto("pop_ctx", "fault")
          /\ UNCHANGED queueVars
       \/ /\ queue_running /\ Goto("pop_ctx", "peek")
          /\ \E s \in capture_ctx_queue :
                 /\ capture_ctx_queue' = capture_ctx_queue \ {s}
                 /\ capture_ctxs' = capture_ctxs \cup {s}
          /\ UNCHANGED queue_running
    /\ UNCHANGED <<thread, borrowVars, eventVars, count, displayVars,
                   waitVars>>

(* Is the display still used by anyone else?                                *)
Wait ==
    /\ \/ Borrowed /\ Goto("wait", "sweep") /\ sweep' = capture_ctxs
       \/ ~Borrowed /\ Goto("wait", "renew") /\ UNCHANGED sweep
    /\ UNCHANGED <<thread, borrowVars, eventVars, count, queueVars,
                   displayVars, popping>>

(* One context of the sweep: dropped when its stream ended, passed when no  *)
(* image is there, else its image is to be taken.                           *)
Sweep ==
    /\ \/ sweep = {} /\ Goto("sweep", "wait")
          /\ UNCHANGED <<capture_ctxs, waitVars>>
       \/ \E s \in sweep :
              \/ /\ ~images_running[s] /\ Goto("sweep", "sweep")
                 /\ capture_ctxs' = capture_ctxs \ {s}
                 /\ sweep' = sweep \ {s} /\ UNCHANGED popping
              \/ /\ images_running[s] /\ s \notin images
                 /\ Goto("sweep", "sweep")
                 /\ sweep' = sweep \ {s} /\ UNCHANGED <<capture_ctxs, popping>>
              \/ /\ images_running[s] /\ s \in images /\ Goto("sweep", "pop")
                 /\ popping' = s /\ UNCHANGED <<capture_ctxs, sweep>>
    /\ UNCHANGED <<thread, borrowVars, eventVars, count, queue_running,
                   capture_ctx_queue, displayVars>>

(* images->pop() without a timeout: the encoder may have taken the image in *)
(* between, and only this thread provides images.                           *)
Pop ==
    /\ Goto("pop", "sweep")
    /\ ~images_running[popping] \/ popping \in images
    /\ images' = images \ {popping}
    /\ popping' = None
    /\ UNCHANGED <<thread, borrowVars, images_running, shutdown, count,
                   queueVars, displayVars, sweep>>

(* The display is closed before the displays are listed again; or the queue *)
(* was stopped meanwhile.                                                   *)
Renew ==
    /\ \/ queue_running /\ Goto("renew", "reopen") /\ disp' = "none"
       \/ ~queue_running /\ disp = "none" /\ Return("renew")
       \/ /\ ~queue_running /\ disp # "none" /\ Goto("renew", "publish")
          /\ UNCHANGED disp
    /\ UNCHANGED <<thread, borrowVars, eventVars, count, queueVars,
                   display_wp, reinit_event, waitVars>>

(* reset_display, which may fail.                                           *)
Reopen ==
    /\ \/ Goto("reopen", "renew") /\ UNCHANGED disp
       \/ Goto("reopen", "publish") /\ disp' = "new"
    /\ UNCHANGED <<thread, borrowVars, eventVars, count, queueVars,
                   display_wp, reinit_event, waitVars>>

\* What becomes of a reference when a new display is published.
Aged(d) == IF d = "published" THEN "old" ELSE d

(* A new display makes the last one old; without one, the queue having been *)
(* stopped, the same is published again.                                    *)
Publish ==
    /\ Goto("publish", "resume") /\ ~Locked
    /\ disp' = "published"
    /\ display' = IF disp = "new"
                  THEN [s \in Session |-> Aged(display[s])] ELSE display
    /\ teardown' = (teardown /\ disp # "new")
    /\ UNCHANGED <<thread, eventVars, count, queueVars, display_wp,
                   reinit_event, waitVars>>

(* reinit_event.reset(), and the head of the loop.                          *)
Resume ==
    /\ \/ queue_running /\ Goto("resume", "capture") /\ UNCHANGED disp
       \/ ~queue_running /\ Return("resume")
    /\ reinit_event' = FALSE
    /\ UNCHANGED <<thread, borrowVars, eventVars, count, queueVars,
                   display_wp, waitVars>>

(* The guard, first half: nobody can hand over a context any more.          *)
StopQueue ==
    /\ Goto("guard", "unlisten")
    /\ queue_running' = FALSE
    /\ UNCHANGED <<thread, borrowVars, eventVars, count, capture_ctx_queue,
                   capture_ctxs, displayVars, waitVars>>

(* "Stop all sessions listening to this thread" (video.cpp:967), those whose *)
(* context waits included.                                                  *)
StopListeners ==
    /\ Goto("unlisten", "exited")
    /\ images_running' =
           [s \in Session |-> images_running[s]
                              /\ s \notin capture_ctxs \cup capture_ctx_queue]
    /\ UNCHANGED <<thread, borrowVars, images, shutdown, count, queueVars,
                   displayVars, waitVars>>

CaptureStep ==
    \/ FirstContext \/ Open \/ Interrupted \/ Push \/ Peek \/ PopContext
    \/ Wait \/ Sweep \/ Pop \/ Renew \/ Reopen \/ Publish \/ Resume
    \/ StopQueue \/ StopListeners

-----------------------------------------------------------------------------
(* The rest of the host, and the driver. *)

(* The control thread or the end of the session raises the shutdown event.  *)
Shutdown(s) ==
    /\ thread[s] # "idle"
    /\ shutdown' = shutdown \cup {s}
    /\ UNCHANGED <<thread, borrowVars, images_running, images, count, capture,
                   queueVars, displayVars, waitVars>>

(* The detached teardowns return.                                           *)
TornDown ==
    /\ teardown /\ teardown' = FALSE
    /\ UNCHANGED <<thread, display, eventVars, count, capture, queueVars,
                   displayVars, waitVars>>

Next ==
    /\ ~Faulted
    /\ \/ \E s \in Session : Ref(s) \/ StreamStep(s) \/ Shutdown(s)
       \/ CaptureStep
       \/ TornDown

Spec == Init /\ [][Next]_vars

(* The threads are scheduled, and the driver returns unless it may hang.    *)
FairSpec ==
    /\ Spec
    /\ WF_vars(~Faulted /\ CaptureStep)
    /\ \A s \in Session : WF_vars(~Faulted /\ StreamStep(s))
    /\ Hangs \/ WF_vars(~Faulted /\ TornDown)

-----------------------------------------------------------------------------
(* Properties. *)

\* A stream that counts on the capture thread for images.
Listening(s) ==
    thread[s] \in {"loop", "lock", "device", "encode", "image"}

(* Once the capture thread has ended, no stream waits for it: the context   *)
(* of each is one the thread knew of, in its list or in the queue, or the   *)
(* stream finds the queue stopped (video.cpp:964-974 and 2146-2150).        *)
NoOrphan ==
    capture = "exited" =>
        \A s \in Session : Listening(s) => ~images_running[s]

\* The capture thread waits for an image of a stream that took it first.
Robbed == capture = "pop" /\ popping \notin images /\ images_running[popping]

\* The stream it waits for is the last, and joins it before it stops its event.
Deadlocked == Robbed /\ thread[popping] = "join"

(* "The capture thread only runs when other threads have a reference to" it  *)
(* (video.cpp:435): a second one is never started beside it.                *)
OneCapture ==
    [][capture' = "first" /\ capture # "first" => capture = "none"]_vars

(* A stream that is told to end does: its thread leaves the encoder, and    *)
(* the last one gets the capture thread joined wherever that is -- except   *)
(* when an image was taken between peek() and pop() of a reinit.            *)
StreamsStop ==
    \A s \in Session :
        s \in shutdown ~> thread[s] = "done" \/ Deadlocked \/ Faulted

(* The wait for the display in a reinit ends: every encoder gives it up,    *)
(* with the same exception.                                                 *)
ReinitProceeds ==
    capture \in {"wait", "sweep", "pop"}
        ~> capture \notin {"wait", "sweep", "pop"} \/ Robbed \/ Faulted

(* An encoder teardown that never returns "will allow streaming to continue *)
(* without requiring a full restart of Sunshine" (video.cpp:1718).          *)
TeardownNeverBlocks == ReinitProceeds

(* A capture thread that has ended is joined, so that the next stream gets  *)
(* a new one instead of a queue that takes nothing.                         *)
CaptureReplaced == capture = "exited" ~> capture = "none" \/ Faulted

(* The join of the last reference ends: it is made of a thread that is       *)
(* there, by one stream only, and after the queue was stopped, without which *)
(* the thread would not return.                                             *)
JoinIsOfStopped ==
    /\ Held => capture # "none" /\ ~queue_running
    /\ \A s, t \in Session :
           thread[s] = "join" /\ thread[t] = "join" => s = t

(* While it captures, and until a reinit has found nobody else to use it,    *)
(* the thread has its display and has published it: video threads wait for   *)
(* a display only while one is opened anew or after the thread has returned. *)
CapturesPublished ==
    capture \in {"capture", "peek", "pop_ctx", "wait", "sweep", "pop"}
        => disp = "published" /\ Alive

(* The capture thread is shared as thread_safe.h promises: VideoCapture      *)
(* implements SharedThread.                                                 *)
Holders == {s \in Session : thread[s] \in Referring}

Shared == INSTANCE SharedThread WITH
              User <- Session, holders <- Holders, joining <- Held,
              worker <- CASE capture = "none" -> "none"
                          [] capture = "exited" -> "over"
                          [] OTHER -> "running"

SharesCapture == Shared!Spec
=============================================================================
