------------------------------ MODULE HostInput ------------------------------
(***************************************************************************)
(* The host's input: the messages of the sessions queued by the control    *)
(* thread, the one worker of the task pool that batches them and passes    *)
(* them to the operating system, its timers (the repeated key, the delayed *)
(* release of the left button), and reset, which the thread that joins a   *)
(* session calls (input.cpp, task_pool.h, thread_pool.h).                  *)
(*                                                                         *)
(* A timer is known by the address of its task, which is free again once   *)
(* the task has run or was cancelled, so that an old id may come to name   *)
(* another timer.  key_press, mouse_press and the operating system belong  *)
(* to the worker.  key_press_repeat_id and mouse_left_button_timeout are   *)
(* read by reset with no lock: its two reads and its two cancels are four  *)
(* steps.  Timers come due in any order.                                   *)
(*                                                                         *)
(* A key stands for its scan code, the one modifier for all three, a move  *)
(* for one whose axes are alike, "middle" for every button that is tracked *)
(* and has no rule of its own.  Left out: controllers (the backend has     *)
(* none), touch and pen, what a shortcut does, the scroll accumulator      *)
(* (off by default), the nudge of the mouse that alloc schedules.          *)
(***************************************************************************)
EXTENDS Integers, Sequences, FiniteSets

CONSTANTS
    Session,            \* the input contexts one run of the host creates
    Key, Modifier,      \* the keys, and the one that modifies others
    Shortcut,           \* the keys apply_shortcut knows
    Addr,               \* the addresses of delayed tasks
    Limit,              \* a delta is in -Limit .. Limit-1: 2^15 in the code
    Device,             \* what a viewer may send in one run (a bound)
    MaxMessages         \* how many messages they send (a bound)

Button == {"left", "middle", "right", "x2"}
Word   == -Limit .. Limit - 1

ASSUME InputAssumption ==
    /\ Modifier \in Key /\ Shortcut \subseteq Key \ {Modifier}
    /\ Key \cap Button = {}
    /\ Addr \cap {"null", "disable"} = {}
    /\ Limit \in Nat \ {0}

(* The size of mouse_press leaves the last button out.                      *)
Tracked == Button \ {"x2"}

KeyMessage    == [type : {"key"}, key : Key, down : BOOLEAN, modified : BOOLEAN]
ButtonMessage == [type : {"button"}, button : Button, down : BOOLEAN]
MotionMessage == [type : {"rel", "abs", "scroll"}, arg : Word]
Message == KeyMessage \cup ButtonMessage \cup MotionMessage

(* What a delayed task does.                                                *)
NoTask == [does |-> "nothing"]
Delayed == [does : {"repeat"}, key : Key, synthetic : BOOLEAN]
           \cup [does : {"release"}, session : Session]

(* What a queued task does: pass on a message of a session, or reset.       *)
Next_message(s) == [does |-> "message", session |-> s]
Reset == [does |-> "reset"]
Queued == {Next_message(s) : s \in Session} \cup {Reset}

ASSUME DeviceAssumption ==
    /\ Device \subseteq SUBSET Message
    /\ MaxMessages \in Nat

VARIABLES
    device,             \* what the viewers of this run send
    sent,               \* how many messages they have sent
    stage,              \* the life of each input context
    input_queue, mouse_left_button_timeout, shortcutFlags,
    key_press, mouse_press, key_press_repeat_id,
    tasks, timers,      \* the task pool's two queues
    pool,               \* "running", or told to stop
    worker,             \* where the pool's thread is
    entry,              \* the message it is passing on, and whose it is
    firing,             \* the delayed task it runs, and its address
    id,                 \* what reset has read
    os                  \* what the operating system holds down

context == <<stage, input_queue, mouse_left_button_timeout, shortcutFlags>>
pressed == <<key_press, mouse_press, os>>
vars == <<device, sent, context, pressed, key_press_repeat_id, tasks, timers,
          pool, worker, entry, firing, id>>

NoEntry  == [session |-> "none"]
NoFiring == [task |-> NoTask]

Init ==
    /\ device \in Device
    /\ sent = 0
    /\ stage = [s \in Session |-> "none"]
    /\ input_queue = [s \in Session |-> <<>>]
    /\ mouse_left_button_timeout = [s \in Session |-> "null"]
    /\ shortcutFlags = [s \in Session |-> FALSE]
    /\ key_press = [k \in Key |-> FALSE]
    /\ mouse_press = [b \in Tracked |-> FALSE]
    /\ key_press_repeat_id = "null"
    /\ tasks = <<>>
    /\ timers = [a \in Addr |-> NoTask]
    /\ pool = "running" /\ worker = "idle"
    /\ entry = NoEntry /\ firing = NoFiring
    /\ id = "null" /\ os = {}

-----------------------------------------------------------------------------
(* The task pool.                                                           *)

Woken == IF worker = "asleep" THEN "idle" ELSE worker

Push(t) == tasks' = Append(tasks, t) /\ worker' = Woken

Free(pending) == {a \in Addr : pending[a] = NoTask}
                 \ (IF worker = "timer" THEN {firing.addr} ELSE {})

(* cancel(i): the timer of that address goes, if there is one.              *)
Cancelled(i) == [a \in Addr |-> IF a = i THEN NoTask ELSE timers[a]]

(* The worker: tasks first, then a timer that is due.                       *)
Awake == worker \in {"idle", "asleep"}

TakeTimer(a) ==
    /\ Awake /\ tasks = <<>> /\ timers[a] # NoTask
    /\ worker' = "timer"
    /\ firing' = [addr |-> a, task |-> timers[a]]
    /\ timers' = [timers EXCEPT ![a] = NoTask]
    /\ UNCHANGED <<device, sent, context, pressed, key_press_repeat_id, tasks,
                   pool, entry, id>>

Sleep ==
    /\ worker = "idle" /\ tasks = <<>> /\ pool = "running"
    /\ worker' = "asleep"
    /\ UNCHANGED <<device, sent, context, pressed, key_press_repeat_id, tasks,
                   timers, pool, entry, firing, id>>

(* Fault: the worker leaves what is queued when it is told to stop.         *)
WorkerExitsAtOnce ==
    /\ worker = "idle" /\ pool = "stopping"
    /\ worker' = "exited"
    /\ UNCHANGED <<device, sent, context, pressed, key_press_repeat_id, tasks,
                   timers, pool, entry, firing, id>>

(* Told to stop, the worker first executes what remains.                    *)
WorkerExits ==
    /\ worker = "idle" /\ tasks = <<>> /\ pool = "stopping"
    /\ worker' = "exited"
    /\ UNCHANGED <<device, sent, context, pressed, key_press_repeat_id, tasks,
                   timers, pool, entry, firing, id>>

(* host.cpp stops the pool after it joined the servers' threads.            *)
PoolStop ==
    /\ pool = "running" /\ \A s \in Session : stage[s] \in {"none", "gone"}
    /\ pool' = "stopping" /\ worker' = Woken
    /\ UNCHANGED <<device, sent, context, pressed, key_press_repeat_id, tasks,
                   timers, entry, firing, id>>

-----------------------------------------------------------------------------
(* The sessions' side: alloc on the RTSP thread, passthrough on the control *)
(* thread until it has seen the session stop.                               *)

Alloc(s) ==
    /\ stage[s] = "none" /\ pool = "running"
    /\ stage' = [stage EXCEPT ![s] = "open"]
    /\ UNCHANGED <<device, sent, input_queue, mouse_left_button_timeout,
                   shortcutFlags, pressed, key_press_repeat_id, tasks, timers,
                   pool, worker, entry, firing, id>>

Locked(s) == worker = "batch" /\ entry.session = s

(* Fault: a task only for a message that finds the queue empty.             *)
PassthroughOnce(s, m) ==
    /\ stage[s] = "open" /\ ~Locked(s) /\ sent < MaxMessages
    /\ sent' = sent + 1
    /\ input_queue' = [input_queue EXCEPT ![s] = Append(@, m)]
    /\ IF input_queue[s] = <<>> THEN Push(Next_message(s))
                                ELSE tasks' = tasks /\ worker' = Woken
    /\ UNCHANGED <<device, stage, mouse_left_button_timeout, shortcutFlags,
                   pressed, key_press_repeat_id, timers, pool, entry, firing,
                   id>>

Passthrough(s, m) ==
    /\ stage[s] = "open" /\ ~Locked(s) /\ sent < MaxMessages
    /\ sent' = sent + 1
    /\ input_queue' = [input_queue EXCEPT ![s] = Append(@, m)]
    /\ Push(Next_message(s))
    /\ UNCHANGED <<device, stage, mouse_left_button_timeout, shortcutFlags,
                   pressed, key_press_repeat_id, timers, pool, entry, firing,
                   id>>

(* controlEnd is raised.                                                    *)
ControlEnds(s) ==
    /\ stage[s] = "open"
    /\ stage' = [stage EXCEPT ![s] = "reset"]
    /\ UNCHANGED <<device, sent, input_queue, mouse_left_button_timeout,
                   shortcutFlags, pressed, key_press_repeat_id, tasks, timers,
                   pool, worker, entry, firing, id>>

Advance(s, from, to) ==
    /\ stage[s] = from
    /\ stage' = [stage EXCEPT ![s] = to]
    /\ UNCHANGED <<device, sent, input_queue, mouse_left_button_timeout,
                   shortcutFlags, pressed, key_press_repeat_id, pool, entry,
                   firing>>

(* Sessions are joined one at a time.                                       *)
ResetReadsRepeat(s) ==
    /\ \A t \in Session : stage[t] \in {"none", "open", "reset", "gone"}
    /\ Advance(s, "reset", "repeat")
    /\ id' = key_press_repeat_id
    /\ UNCHANGED <<tasks, timers, worker>>

ResetCancelsRepeat(s) ==
    /\ Advance(s, "repeat", "cancelled")
    /\ timers' = Cancelled(id)
    /\ UNCHANGED <<id, tasks, worker>>

ResetReadsLeft(s) ==
    /\ Advance(s, "cancelled", "left")
    /\ id' = mouse_left_button_timeout[s]
    /\ UNCHANGED <<tasks, timers, worker>>

ResetQueues(s) ==
    /\ Advance(s, "left", "gone")
    /\ timers' = Cancelled(id) /\ id' = "null"
    /\ Push(Reset)

-----------------------------------------------------------------------------
(* passthrough_next_message: the queue's lock is held from TakeMessage to   *)
(* BatchEnds.                                                               *)

Queue == input_queue[entry.session]

TakeMessage(s) ==
    /\ Awake /\ tasks # <<>> /\ Head(tasks) = Next_message(s)
    /\ tasks' = Tail(tasks)
    /\ IF input_queue[s] = <<>>
       THEN worker' = "idle" /\ UNCHANGED <<entry, input_queue>>
       ELSE /\ worker' = "batch"
            /\ entry' = [session |-> s, msg |-> Head(input_queue[s])]
            /\ input_queue' = [input_queue EXCEPT ![s] = Tail(@)]
    /\ UNCHANGED <<device, sent, stage, mouse_left_button_timeout,
                   shortcutFlags, pressed, key_press_repeat_id, timers, pool,
                   firing, id>>

Wrapped(n) == ((n + Limit) % (2 * Limit)) - Limit

(* Batching two messages.  __builtin_add_overflow returns TRUE when the sum *)
(* does not fit, and batch goes on only then, with the wrapped sum.  An     *)
(* absolute position is told apart by its reference size alone.             *)
Batchable(dest, src) ==
    /\ dest.type = src.type
    /\ CASE dest.type \in {"rel", "scroll"} -> dest.arg + src.arg \notin Word
         [] dest.type = "abs" -> dest.arg = src.arg
         [] OTHER -> FALSE

Batched(dest, src) ==
    IF dest.type = "abs" THEN src
                         ELSE [dest EXCEPT !.arg = Wrapped(@ + src.arg)]

GoesOn == Queue # <<>> /\ Batchable(entry.msg, Head(Queue))

Batch ==
    /\ worker = "batch" /\ GoesOn
    /\ entry' = [entry EXCEPT !.msg = Batched(@, Head(Queue))]
    /\ input_queue' = [input_queue EXCEPT ![entry.session] = Tail(@)]
    /\ UNCHANGED <<device, sent, stage, mouse_left_button_timeout,
                   shortcutFlags, pressed, key_press_repeat_id, tasks, timers,
                   pool, worker, firing, id>>

BatchEnds ==
    /\ worker = "batch" /\ ~GoesOn
    /\ worker' = "send"
    /\ UNCHANGED <<device, sent, context, pressed, key_press_repeat_id, tasks,
                   timers, pool, entry, firing, id>>

-----------------------------------------------------------------------------
(* passthrough of each kind of message, outside the lock.                   *)

Sender  == entry.session
Packet  == entry.msg
Sending(type) == worker = "send" /\ Packet.type = type

Sent == worker' = "idle" /\ entry' = NoEntry

(* A relative move forbids the delay of the left button, an absolute one    *)
(* allows it again.                                                         *)
SendMotion ==
    /\ worker = "send" /\ Packet.type \in {"rel", "abs", "scroll"}
    /\ Sent
    /\ mouse_left_button_timeout' =
         [mouse_left_button_timeout EXCEPT ![Sender] =
            CASE Packet.type = "rel" -> "disable"
              [] Packet.type = "abs" /\ @ = "disable" -> "null"
              [] OTHER -> @]
    /\ UNCHANGED <<device, sent, stage, input_queue, shortcutFlags, pressed,
                   key_press_repeat_id, tasks, timers, pool, firing, id>>

Timeout == mouse_left_button_timeout[Sender]
ButtonIs(down) == Sending("button") /\ Packet.down = down

(* The button is already what the viewer wants.                             *)
ButtonKnown ==
    /\ Sending("button") /\ Packet.button \in Tracked
    /\ mouse_press[Packet.button] = Packet.down

ButtonIgnored ==
    /\ ButtonKnown /\ Sent
    /\ UNCHANGED <<device, sent, context, pressed, key_press_repeat_id, tasks,
                   timers, pool, firing, id>>

MousePress(b, down) ==
    IF b \in Tracked THEN [mouse_press EXCEPT ![b] = down] ELSE mouse_press

(* The left button is released by a task, 10 ms later.                      *)
LeftIsDelayed ==
    /\ ButtonIs(FALSE) /\ ~ButtonKnown
    /\ Packet.button = "left" /\ Timeout = "null"
    /\ mouse_press' = MousePress("left", FALSE)
    /\ \E a \in Free(timers) :
         /\ timers' = [timers EXCEPT ![a] =
                         [does |-> "release", session |-> Sender]]
         /\ mouse_left_button_timeout' =
              [mouse_left_button_timeout EXCEPT ![Sender] = a]
    /\ Sent
    /\ UNCHANGED <<device, sent, stage, input_queue, shortcutFlags, key_press,
                   os, key_press_repeat_id, tasks, pool, firing, id>>

Clicks == Packet.button = "right" /\ Timeout \in Addr

(* The right button while a left release is out: down and up at once.       *)
RightClicks ==
    /\ ButtonIs(TRUE) /\ ~ButtonKnown /\ Clicks
    /\ mouse_press' = MousePress("right", FALSE)
    /\ os' = os \ {"right"}
    /\ Sent
    /\ UNCHANGED <<device, sent, context, key_press, key_press_repeat_id,
                   tasks, timers, pool, firing, id>>

ButtonDown ==
    /\ ButtonIs(TRUE) /\ ~ButtonKnown /\ ~Clicks
    /\ mouse_press' = MousePress(Packet.button, TRUE)
    /\ os' = os \cup {Packet.button}
    /\ Sent
    /\ UNCHANGED <<device, sent, context, key_press, key_press_repeat_id,
                   tasks, timers, pool, firing, id>>

ButtonUp ==
    /\ ButtonIs(FALSE) /\ ~ButtonKnown
    /\ ~(Packet.button = "left" /\ Timeout = "null")
    /\ mouse_press' = MousePress(Packet.button, FALSE)
    /\ os' = os \ {Packet.button}
    /\ Sent
    /\ UNCHANGED <<device, sent, context, key_press, key_press_repeat_id,
                   tasks, timers, pool, firing, id>>

KeyIs(down) == Sending("key") /\ Packet.down = down

KeyIgnored ==
    /\ Sending("key") /\ key_press[Packet.key] = Packet.down
    /\ Sent
    /\ UNCHANGED <<device, sent, context, pressed, key_press_repeat_id, tasks,
                   timers, pool, firing, id>>

ShortcutTaken == shortcutFlags[Sender] /\ Packet.key \in Shortcut

KeySwallowed ==
    /\ KeyIs(TRUE) /\ ~key_press[Packet.key] /\ ShortcutTaken
    /\ Sent
    /\ UNCHANGED <<device, sent, context, pressed, key_press_repeat_id, tasks,
                   timers, pool, firing, id>>

(* The modifier, if the message asks for one that the session does not      *)
(* hold, is pressed before the key and raised after it.                     *)
Synthetic ==
    /\ Packet.key # Modifier
    /\ Packet.modified /\ ~shortcutFlags[Sender]

PressedAtOS(k, synthetic) ==
    (os \cup {k}) \ (IF synthetic THEN {Modifier} ELSE {})

UpdateShortcutFlags ==
    shortcutFlags' = IF Packet.key = Modifier
                     THEN [shortcutFlags EXCEPT ![Sender] = Packet.down]
                     ELSE shortcutFlags

(* Fault: the last key's repetition is not cancelled.                       *)
KeyDownRepeatsBoth ==
    /\ KeyIs(TRUE) /\ ~key_press[Packet.key] /\ ~ShortcutTaken
    /\ key_press' = [key_press EXCEPT ![Packet.key] = TRUE]
    /\ os' = PressedAtOS(Packet.key, Synthetic)
    /\ \E a \in Free(timers) :
         /\ timers' = [timers EXCEPT ![a] =
              [does |-> "repeat", key |-> Packet.key, synthetic |-> Synthetic]]
         /\ key_press_repeat_id' = a
    /\ UpdateShortcutFlags
    /\ Sent
    /\ UNCHANGED <<device, sent, stage, input_queue, mouse_left_button_timeout,
                   mouse_press, tasks, pool, firing, id>>

KeyDown ==
    /\ KeyIs(TRUE) /\ ~key_press[Packet.key] /\ ~ShortcutTaken
    /\ key_press' = [key_press EXCEPT ![Packet.key] = TRUE]
    /\ os' = PressedAtOS(Packet.key, Synthetic)
    /\ LET left == Cancelled(key_press_repeat_id) IN
       \E a \in Free(left) :
         /\ timers' = [left EXCEPT ![a] =
              [does |-> "repeat", key |-> Packet.key, synthetic |-> Synthetic]]
         /\ key_press_repeat_id' = a
    /\ UpdateShortcutFlags
    /\ Sent
    /\ UNCHANGED <<device, sent, stage, input_queue, mouse_left_button_timeout,
                   mouse_press, tasks, pool, firing, id>>

KeyUp ==
    /\ KeyIs(FALSE) /\ key_press[Packet.key]
    /\ key_press' = [key_press EXCEPT ![Packet.key] = FALSE]
    /\ os' = os \ {Packet.key}
    /\ UpdateShortcutFlags
    /\ Sent
    /\ UNCHANGED <<device, sent, stage, input_queue, mouse_left_button_timeout,
                   mouse_press, key_press_repeat_id, tasks, timers, pool,
                   firing, id>>

-----------------------------------------------------------------------------
(* The other tasks.                                                         *)

RunReset ==
    /\ Awake /\ tasks # <<>> /\ Head(tasks) = Reset
    /\ tasks' = Tail(tasks) /\ worker' = "idle"
    /\ os' = os \ ({b \in Tracked : mouse_press[b]} \cup {k \in Key : key_press[k]})
    /\ mouse_press' = [b \in Tracked |-> FALSE]
    /\ key_press' = [k \in Key |-> FALSE]
    /\ UNCHANGED <<device, sent, context, key_press_repeat_id, timers, pool,
                   entry, firing, id>>

Fires(what) == worker = "timer" /\ firing.task.does = what
Fired == worker' = "idle" /\ firing' = NoFiring

RepeatKey ==
    /\ Fires("repeat")
    /\ Fired
    /\ \/ /\ ~key_press[firing.task.key]
          /\ key_press_repeat_id' = "null"
          /\ UNCHANGED <<os, timers>>
       \/ /\ key_press[firing.task.key]
          /\ os' = PressedAtOS(firing.task.key, firing.task.synthetic)
          /\ \E a \in Free(timers) :
               /\ timers' = [timers EXCEPT ![a] = firing.task]
               /\ key_press_repeat_id' = a
    /\ UNCHANGED <<device, sent, context, key_press, mouse_press, tasks, pool,
                   entry, id>>

(* Fault: the task believes that a button that is up was released already.  *)
ReleaseLeftOnlyIfPressed ==
    /\ Fires("release")
    /\ Fired
    /\ IF ~mouse_press["left"]
       THEN UNCHANGED <<os, mouse_left_button_timeout>>
       ELSE /\ os' = os \ {"left"}
            /\ mouse_left_button_timeout' =
                 [mouse_left_button_timeout EXCEPT ![firing.task.session] = "null"]
    /\ UNCHANGED <<device, sent, stage, input_queue, shortcutFlags, key_press,
                   mouse_press, key_press_repeat_id, tasks, timers, pool,
                   entry, id>>

(* The button may have been pressed again: then nothing is done, and the    *)
(* timeout goes on naming a task that is gone.                              *)
ReleaseLeft ==
    /\ Fires("release")
    /\ Fired
    /\ IF mouse_press["left"]
       THEN UNCHANGED <<os, mouse_left_button_timeout>>
       ELSE /\ os' = os \ {"left"}
            /\ mouse_left_button_timeout' =
                 [mouse_left_button_timeout EXCEPT ![firing.task.session] = "null"]
    /\ UNCHANGED <<device, sent, stage, input_queue, shortcutFlags, key_press,
                   mouse_press, key_press_repeat_id, tasks, timers, pool,
                   entry, id>>

-----------------------------------------------------------------------------
Send ==
    \/ SendMotion
    \/ ButtonIgnored \/ LeftIsDelayed \/ RightClicks \/ ButtonDown \/ ButtonUp
    \/ KeyIgnored \/ KeySwallowed \/ KeyDown \/ KeyUp

RunTimer == RepeatKey \/ ReleaseLeft

TakeTask == (\E s \in Session : TakeMessage(s)) \/ RunReset

ResetStep(s) ==
    \/ ResetReadsRepeat(s) \/ ResetCancelsRepeat(s)
    \/ ResetReadsLeft(s) \/ ResetQueues(s)

Next ==
    \/ \E s \in Session : Alloc(s) \/ ControlEnds(s) \/ ResetStep(s)
    \/ \E s \in Session, m \in device : Passthrough(s, m)
    \/ TakeTask \/ Batch \/ BatchEnds \/ Send
    \/ \E a \in Addr : TakeTimer(a)
    \/ RunTimer
    \/ Sleep \/ PoolStop \/ WorkerExits

Spec == Init /\ [][Next]_vars

-----------------------------------------------------------------------------
(* Properties.                                                              *)

QueueTypes ==
    /\ device \in Device /\ device \subseteq Message
    /\ sent \in Nat
    /\ stage \in [Session -> {"none", "open", "reset", "repeat", "cancelled",
                              "left", "gone"}]
    /\ input_queue \in [Session -> Seq(Message)]
    /\ mouse_left_button_timeout \in [Session -> Addr \cup {"null", "disable"}]
    /\ shortcutFlags \in [Session -> BOOLEAN]

HeldTypes ==
    /\ key_press \in [Key -> BOOLEAN]
    /\ mouse_press \in [Tracked -> BOOLEAN]
    /\ os \subseteq Key \cup Button
    /\ key_press_repeat_id \in Addr \cup {"null"}
    /\ id \in Addr \cup {"null", "disable"}

PoolTypes ==
    /\ tasks \in Seq(Queued)
    /\ timers \in [Addr -> Delayed \cup {NoTask}]
    /\ pool \in {"running", "stopping"}
    /\ worker \in {"idle", "asleep", "batch", "send", "timer", "exited"}
    /\ IF worker \in {"batch", "send"}
       THEN entry \in [session : Session, msg : Message] ELSE entry = NoEntry
    /\ IF worker = "timer"
       THEN firing \in [addr : Addr, task : Delayed] ELSE firing = NoFiring

(* Every variable keeps its type, and the worker has a message or a timer   *)
(* exactly where it works on one.                                           *)
TypeOK == QueueTypes /\ HeldTypes /\ PoolTypes

(* What the operating system holds down is what the host believes to hold:  *)
(* it is told of every key and button once, whoever presses, repeats or     *)
(* resets it.  (The modifier may be up although it is held: the synthetic   *)
(* one of another session raises it.)                                       *)
OsMatches ==
    /\ \A k \in Key \ {Modifier} : k \in os <=> key_press[k]
    /\ Modifier \in os => key_press[Modifier]
    /\ \A b \in Tracked \ {"left"} : b \in os <=> mouse_press[b]
    /\ mouse_press["left"] => "left" \in os

(* A left button that the viewer has released and the operating system      *)
(* holds is owed a release: a task for it is pending or runs.  After the    *)
(* first reset this ends, which cancels the task and does not know that the *)
(* button is still down (input.cpp:597, 1638, 1643).                        *)
Owed ==
    \/ \E a \in Addr : timers[a].does = "release"
    \/ worker = "timer" /\ firing.task.does = "release"

ResetBegun == \E s \in Session : stage[s] \in {"repeat", "cancelled", "left", "gone"}

LeftOwed == "left" \in os /\ ~mouse_press["left"] => Owed \/ ResetBegun

(* A repetition that is pending is the one key_press_repeat_id names, so no *)
(* more than one key repeats, and the next key can cancel it.               *)
RepeatNamed ==
    \A a \in Addr : timers[a].does = "repeat" => key_press_repeat_id = a

(* Every message in a queue has a task that will come for it: batching only *)
(* leaves tasks over.                                                       *)
QueueServed ==
    \A s \in Session :
        Len(input_queue[s]) <=
          Cardinality({i \in DOMAIN tasks : tasks[i] = Next_message(s)})

(* The worker sleeps only when there is nothing queued.                     *)
NoLostWakeup == worker = "asleep" => tasks = <<>>

(* Nor does it sleep, or leave, while a message waits in a queue.           *)
NothingStranded ==
    worker \in {"asleep", "exited"} =>
        \A s \in Session : input_queue[s] = <<>>

Quiet == \A s \in Session : stage[s] \in {"none", "gone"}
AtRest == Quiet /\ tasks = <<>> /\ worker \notin {"batch", "send"}

(* "Reset input on session stop to avoid stuck repeated keys"               *)
(* (stream.cpp:1940): once the last session has gone and the pool has done  *)
(* what was queued, no key is held, and none that is tracked but the left   *)
(* button.  That holds also when the pool has been stopped.                 *)
KeysReleased ==
    AtRest \/ worker = "exited" => os \subseteq {"left", "x2"}

(* The same without the exception, which the code does not keep.            *)
NothingStuck == AtRest => os = {}

(* Batching takes only the next message in line, and of the same type: no   *)
(* move passes a button or a key.                                           *)
OrderedBatch ==
    \A s \in Session :
        worker = "batch" /\ entry.session = s /\ input_queue'[s] # input_queue[s]
        => /\ Head(Queue).type = entry.msg.type
           /\ input_queue'[s] = Tail(input_queue[s])

BatchKeepsOrder == [][OrderedBatch]_vars

(* "Batching is safe as long as the result doesn't overflow a 16-bit        *)
(* integer" (input.cpp:1270): what is batched moves as far as the two       *)
(* messages would have.                                                     *)
BatchKeepsMotion ==
    [][ /\ worker = "batch" /\ entry.msg.type \in {"rel", "scroll"}
        /\ entry' # entry /\ worker' = "batch"
        => entry'.msg.arg = entry.msg.arg + Head(Queue).arg ]_vars
=============================================================================
