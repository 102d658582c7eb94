-------------------------- MODULE HostInput_proofs --------------------------
(***************************************************************************)
(* What holds of HostInput for any sets of input contexts, keys and        *)
(* addresses, and whatever the viewers send: its types, what the operating *)
(* system holds down against the host's tables, the repeated key, the left *)
(* button's release, and the keys once every session has gone.             *)
(***************************************************************************)
EXTENDS HostInput, TLAPS, FiniteSetTheorems, SequenceTheorems

(* While a repetition runs none is pending, and until the first reset the   *)
(* id names a repetition that is pending or runs, or nothing.               *)
Repeats(a) == timers[a].does = "repeat"
RepeatRuns == worker = "timer" /\ firing.task.does = "repeat"

RepeatInv ==
    /\ RepeatNamed
    /\ RepeatRuns => \A a \in Addr : ~Repeats(a)

IdInv ==
    ResetBegun \/ \/ key_press_repeat_id = "null"
                  \/ Repeats(key_press_repeat_id)
                  \/ RepeatRuns /\ firing.addr = key_press_repeat_id

(* When no session is open and none is being reset, the last task in the    *)
(* queue is a reset, or it has run and nothing came after it.               *)
NothingPressed ==
    /\ \A k \in Key : ~key_press[k]
    /\ \A b \in Tracked : ~mouse_press[b]
    /\ worker \notin {"batch", "send"}

LastInv ==
    Quiet => IF tasks = <<>> THEN NothingPressed
                             ELSE tasks[Len(tasks)] = Reset

(* The worker leaves after the sessions, and sleeps or leaves only with     *)
(* nothing to do.                                                           *)
PoolInv ==
    /\ pool = "stopping" => Quiet
    /\ worker = "exited" => pool = "stopping"
    /\ worker \in {"asleep", "exited"} => tasks = <<>>

IInv == TypeOK /\ OsMatches /\ RepeatInv /\ IdInv /\ LeftOwed /\ LastInv /\ PoolInv

LEMMA QueueTypesStep ==
    ASSUME QueueTypes, PoolTypes, Next
    PROVE  QueueTypes'
<1> DEFINE Same == UNCHANGED <<device, sent, stage, input_queue, mouse_left_button_timeout, shortcutFlags>>
<1>1. Same => QueueTypes'
  BY DEF QueueTypes
<1> HIDE DEF Same
<1>2. ASSUME NEW s \in Session, Alloc(s) PROVE QueueTypes'
  BY <1>2 DEF QueueTypes, Alloc
<1>3. ASSUME NEW s \in Session, NEW m \in device, Passthrough(s, m) PROVE QueueTypes'
  <2>1. m \in Message
    BY <1>3 DEF QueueTypes
  <2> QED
    BY <2>1, <1>3 DEF QueueTypes, Passthrough
<1>4. ASSUME NEW s \in Session, ControlEnds(s) PROVE QueueTypes'
  BY <1>4 DEF QueueTypes, ControlEnds
<1>5. ASSUME NEW s \in Session, ResetReadsRepeat(s) PROVE QueueTypes'
  BY <1>5 DEF QueueTypes, ResetReadsRepeat, Advance
<1>6. ASSUME NEW s \in Session, ResetCancelsRepeat(s) PROVE QueueTypes'
  BY <1>6 DEF QueueTypes, ResetCancelsRepeat, Advance
<1>7. ASSUME NEW s \in Session, ResetReadsLeft(s) PROVE QueueTypes'
  BY <1>7 DEF QueueTypes, ResetReadsLeft, Advance
<1>8. ASSUME NEW s \in Session, ResetQueues(s) PROVE QueueTypes'
  BY <1>8 DEF QueueTypes, ResetQueues, Advance, Push
<1>9. ASSUME NEW s \in Session, TakeMessage(s) PROVE QueueTypes'
  <2>1. CASE input_queue[s] = <<>>
    BY <2>1, <1>9 DEF QueueTypes, TakeMessage
  <2>2. CASE input_queue[s] # <<>>
    <3>1. Tail(input_queue[s]) \in Seq(Message)
      BY <2>2 DEF QueueTypes
    <3> QED
      BY <2>2, <3>1, <1>9 DEF QueueTypes, TakeMessage
  <2> QED
    BY <2>1, <2>2
<1>10. ASSUME RunReset PROVE QueueTypes'
  BY <1>1, <1>10 DEF Same, context, pressed, RunReset
<1>11. ASSUME Batch PROVE QueueTypes'
  <2>1. entry.session \in Session
    BY <1>11 DEF PoolTypes, Batch
  <2>2. Tail(Queue) \in Seq(Message)
    BY <2>1, <1>11 DEF QueueTypes, Batch, GoesOn, Queue
  <2> QED
    BY <2>1, <2>2, <1>11 DEF QueueTypes, Batch, Queue
<1>12. ASSUME BatchEnds PROVE QueueTypes'
  BY <1>1, <1>12 DEF Same, context, pressed, BatchEnds
<1>13. ASSUME SendMotion PROVE QueueTypes'
  <2>1. entry.session \in Session /\ entry.msg \in Message
    BY <1>13 DEF PoolTypes, SendMotion
  <2> QED
    BY <2>1, <1>13 DEF QueueTypes, SendMotion, Sender
<1>14. ASSUME ButtonIgnored PROVE QueueTypes'
  BY <1>1, <1>14 DEF Same, context, pressed, ButtonIgnored, Sent
<1>15. ASSUME LeftIsDelayed PROVE QueueTypes'
  <2>1. entry.session \in Session /\ entry.msg \in Message
    BY <1>15 DEF PoolTypes, LeftIsDelayed, ButtonIs, Sending
  <2> QED
    BY <2>1, <1>15 DEF QueueTypes, LeftIsDelayed, Sender, Free
<1>16. ASSUME RightClicks PROVE QueueTypes'
  BY <1>1, <1>16 DEF Same, context, pressed, RightClicks, Sent
<1>17. ASSUME ButtonDown PROVE QueueTypes'
  BY <1>1, <1>17 DEF Same, context, pressed, ButtonDown, Sent
<1>18. ASSUME ButtonUp PROVE QueueTypes'
  BY <1>1, <1>18 DEF Same, context, pressed, ButtonUp, Sent
<1>19. ASSUME KeyIgnored PROVE QueueTypes'
  BY <1>1, <1>19 DEF Same, context, pressed, KeyIgnored, Sent
<1>20. ASSUME KeySwallowed PROVE QueueTypes'
  BY <1>1, <1>20 DEF Same, context, pressed, KeySwallowed, Sent
<1>21. ASSUME KeyDown PROVE QueueTypes'
  <2>1. entry.session \in Session /\ entry.msg \in Message
    BY <1>21 DEF PoolTypes, KeyDown, KeyIs, Sending
  <2>2. Packet.down \in BOOLEAN
    BY <2>1, <1>21 DEF KeyDown, KeyIs, Sending, Packet, Message, KeyMessage,
           ButtonMessage, MotionMessage
  <2> QED
    BY <2>1, <2>2, <1>21 DEF QueueTypes, KeyDown, UpdateShortcutFlags, Sender
<1>22. ASSUME KeyUp PROVE QueueTypes'
  <2>1. entry.session \in Session /\ entry.msg \in Message
    BY <1>22 DEF PoolTypes, KeyUp, KeyIs, Sending
  <2>2. Packet.down \in BOOLEAN
    BY <2>1, <1>22 DEF KeyUp, KeyIs, Sending, Packet, Message, KeyMessage,
           ButtonMessage, MotionMessage
  <2> QED
    BY <2>1, <2>2, <1>22 DEF QueueTypes, KeyUp, UpdateShortcutFlags, Sender
<1>23. ASSUME NEW a \in Addr, TakeTimer(a) PROVE QueueTypes'
  BY <1>1, <1>23 DEF Same, context, pressed, TakeTimer
<1>24. ASSUME RepeatKey PROVE QueueTypes'
  BY <1>1, <1>24 DEF Same, context, pressed, RepeatKey, Fired
<1>25. ASSUME ReleaseLeft PROVE QueueTypes'
  <2>1. firing.task.session \in Session
    BY <1>25 DEF PoolTypes, ReleaseLeft, Fires, Delayed
  <2> QED
    BY <2>1, <1>25 DEF QueueTypes, ReleaseLeft
<1>26. ASSUME Sleep PROVE QueueTypes'
  BY <1>1, <1>26 DEF Same, context, pressed, Sleep
<1>27. ASSUME PoolStop PROVE QueueTypes'
  BY <1>1, <1>27 DEF Same, context, pressed, PoolStop
<1>28. ASSUME WorkerExits PROVE QueueTypes'
  BY <1>1, <1>28 DEF Same, context, pressed, WorkerExits
<1> HIDE DEF QueueTypes
<1> QED
  BY <1>2, <1>3, <1>4, <1>5, <1>6, <1>7, <1>8, <1>9, <1>10, <1>11, <1>12, 
     <1>13, <1>14, <1>15, <1>16, <1>17, <1>18, <1>19, <1>20, <1>21, 
     <1>22, <1>23, <1>24, <1>25, <1>26, <1>27, <1>28 DEF Next, Send, RunTimer, TakeTask, ResetStep

LEMMA HeldTypesStep ==
    ASSUME HeldTypes, QueueTypes, PoolTypes, Next
    PROVE  HeldTypes'
<1> DEFINE Same == UNCHANGED <<key_press, mouse_press, os, key_press_repeat_id, id>>
<1>1. Same => HeldTypes'
  BY DEF HeldTypes
<1> HIDE DEF Same
<1>2. ASSUME NEW s \in Session, Alloc(s) PROVE HeldTypes'
  BY <1>1, <1>2 DEF Same, context, pressed, Alloc
<1>3. ASSUME NEW s \in Session, NEW m \in device, Passthrough(s, m) PROVE HeldTypes'
  BY <1>1, <1>3 DEF Same, context, pressed, Passthrough
<1>4. ASSUME NEW s \in Session, ControlEnds(s) PROVE HeldTypes'
  BY <1>1, <1>4 DEF Same, context, pressed, ControlEnds
<1>5. ASSUME NEW s \in Session, ResetReadsRepeat(s) PROVE HeldTypes'
  BY <1>5 DEF HeldTypes, ResetReadsRepeat, Advance, pressed
<1>6. ASSUME NEW s \in Session, ResetCancelsRepeat(s) PROVE HeldTypes'
  BY <1>1, <1>6 DEF Same, context, pressed, ResetCancelsRepeat, Advance
<1>7. ASSUME NEW s \in Session, ResetReadsLeft(s) PROVE HeldTypes'
  BY <1>7 DEF HeldTypes, QueueTypes, ResetReadsLeft, Advance, pressed
<1>8. ASSUME NEW s \in Session, ResetQueues(s) PROVE HeldTypes'
  BY <1>8 DEF HeldTypes, ResetQueues, Advance, pressed
<1>9. ASSUME NEW s \in Session, TakeMessage(s) PROVE HeldTypes'
  BY <1>1, <1>9 DEF Same, context, pressed, TakeMessage
<1>10. ASSUME RunReset PROVE HeldTypes'
  BY <1>10 DEF HeldTypes, RunReset
<1>11. ASSUME Batch PROVE HeldTypes'
  BY <1>1, <1>11 DEF Same, context, pressed, Batch
<1>12. ASSUME BatchEnds PROVE HeldTypes'
  BY <1>1, <1>12 DEF Same, context, pressed, BatchEnds
<1>13. ASSUME SendMotion PROVE HeldTypes'
  BY <1>1, <1>13 DEF Same, context, pressed, SendMotion, Sent
<1>14. ASSUME ButtonIgnored PROVE HeldTypes'
  BY <1>1, <1>14 DEF Same, context, pressed, ButtonIgnored, Sent
<1>15. ASSUME LeftIsDelayed PROVE HeldTypes'
  BY <1>15 DEF HeldTypes, LeftIsDelayed, MousePress, Tracked
<1>16. ASSUME RightClicks PROVE HeldTypes'
  BY <1>16 DEF HeldTypes, RightClicks, MousePress, Tracked
<1>17. ASSUME ButtonDown PROVE HeldTypes'
  <2>1. entry.session \in Session /\ entry.msg \in Message
    BY <1>17 DEF PoolTypes, ButtonDown, ButtonIs, Sending
  <2>2. Packet.button \in Button
    BY <2>1, <1>17 DEF ButtonDown, ButtonIs, Sending, Packet, Message,
       KeyMessage,
           ButtonMessage, MotionMessage
  <2> QED
    BY <2>2, <1>17 DEF HeldTypes, ButtonDown, MousePress
<1>18. ASSUME ButtonUp PROVE HeldTypes'
  <2>1. entry.session \in Session /\ entry.msg \in Message
    BY <1>18 DEF PoolTypes, ButtonUp, ButtonIs, Sending
  <2>2. Packet.button \in Button
    BY <2>1, <1>18 DEF ButtonUp, ButtonIs, Sending, Packet, Message, KeyMessage,
           ButtonMessage, MotionMessage
  <2> QED
    BY <2>2, <1>18 DEF HeldTypes, ButtonUp, MousePress
<1>19. ASSUME KeyIgnored PROVE HeldTypes'
  BY <1>1, <1>19 DEF Same, context, pressed, KeyIgnored, Sent
<1>20. ASSUME KeySwallowed PROVE HeldTypes'
  BY <1>1, <1>20 DEF Same, context, pressed, KeySwallowed, Sent
<1>21. ASSUME KeyDown PROVE HeldTypes'
  <2>1. entry.session \in Session /\ entry.msg \in Message
    BY <1>21 DEF PoolTypes, KeyDown, KeyIs, Sending
  <2>2. Packet.key \in Key
    BY <2>1, <1>21 DEF KeyDown, KeyIs, Sending, Packet, Message, KeyMessage,
           ButtonMessage, MotionMessage
  <2> QED
    BY <2>2, <1>21 DEF HeldTypes, KeyDown, Free, PressedAtOS
<1>22. ASSUME KeyUp PROVE HeldTypes'
  <2>1. entry.session \in Session /\ entry.msg \in Message
    BY <1>22 DEF PoolTypes, KeyUp, KeyIs, Sending
  <2>2. Packet.key \in Key
    BY <2>1, <1>22 DEF KeyUp, KeyIs, Sending, Packet, Message, KeyMessage,
           ButtonMessage, MotionMessage
  <2> QED
    BY <2>2, <1>22 DEF HeldTypes, KeyUp
<1>23. ASSUME NEW a \in Addr, TakeTimer(a) PROVE HeldTypes'
  BY <1>1, <1>23 DEF Same, context, pressed, TakeTimer
<1>24. ASSUME RepeatKey PROVE HeldTypes'
  <2>1. firing.task.key \in Key
    BY <1>24 DEF PoolTypes, RepeatKey, Fires, Delayed
  <2> QED
    BY <2>1, <1>24 DEF HeldTypes, RepeatKey, Free, PressedAtOS
<1>25. ASSUME ReleaseLeft PROVE HeldTypes'
  BY <1>25 DEF HeldTypes, ReleaseLeft
<1>26. ASSUME Sleep PROVE HeldTypes'
  BY <1>1, <1>26 DEF Same, context, pressed, Sleep
<1>27. ASSUME PoolStop PROVE HeldTypes'
  BY <1>1, <1>27 DEF Same, context, pressed, PoolStop
<1>28. ASSUME WorkerExits PROVE HeldTypes'
  BY <1>1, <1>28 DEF Same, context, pressed, WorkerExits
<1> HIDE DEF HeldTypes
<1> QED
  BY <1>2, <1>3, <1>4, <1>5, <1>6, <1>7, <1>8, <1>9, <1>10, <1>11, <1>12, 
     <1>13, <1>14, <1>15, <1>16, <1>17, <1>18, <1>19, <1>20, <1>21, 
     <1>22, <1>23, <1>24, <1>25, <1>26, <1>27, <1>28 DEF Next, Send, RunTimer, TakeTask, ResetStep

(* A batched message is a message: a sum is wrapped into the range.         *)
LEMMA WrappedInWord == \A n \in Int : Wrapped(n) \in Word
<1>1. 2 * Limit \in Nat /\ 2 * Limit > 0
  BY InputAssumption
<1>2. SUFFICES ASSUME NEW n \in Int PROVE Wrapped(n) \in Word
  OBVIOUS
<1>3. (n + Limit) % (2 * Limit) \in 0 .. 2 * Limit - 1
  BY <1>1, <1>2, InputAssumption
<1> QED
  BY <1>3, InputAssumption DEF Wrapped, Word

LEMMA BatchedIsMessage ==
    ASSUME NEW dest \in Message, NEW src \in Message, Batchable(dest, src)
    PROVE  Batched(dest, src) \in Message
<1>1. dest.type \in {"rel", "abs", "scroll"}
  BY DEF Batchable
<1>2. dest \in MotionMessage /\ src \in MotionMessage
  BY <1>1 DEF Batchable, Message, KeyMessage, ButtonMessage, MotionMessage
<1>3. dest.arg + src.arg \in Int
  BY <1>2, InputAssumption DEF MotionMessage, Word
<1>4. Wrapped(dest.arg + src.arg) \in Word
  BY <1>3, WrappedInWord
<1>5. [dest EXCEPT !.arg = Wrapped(@ + src.arg)] \in MotionMessage
  BY <1>2, <1>4 DEF MotionMessage
<1> QED
  BY <1>2, <1>5 DEF Batched, Message

LEMMA PoolTypesStep ==
    ASSUME PoolTypes, QueueTypes, HeldTypes, Next
    PROVE  PoolTypes'
<1> DEFINE Same == UNCHANGED <<tasks, timers, pool, worker, entry, firing>>
<1>1. Same => PoolTypes'
  BY DEF PoolTypes
<1> HIDE DEF Same
<1>2. ASSUME NEW s \in Session, Alloc(s) PROVE PoolTypes'
  BY <1>1, <1>2 DEF Same, context, pressed, Alloc
<1>3. ASSUME NEW s \in Session, NEW m \in device, Passthrough(s, m) PROVE PoolTypes'
  <2>1. Next_message(s) \in Queued
    BY DEF Queued
  <2> QED
    BY <2>1, <1>3 DEF PoolTypes, Passthrough, Push, Woken, NoEntry
<1>4. ASSUME NEW s \in Session, ControlEnds(s) PROVE PoolTypes'
  BY <1>1, <1>4 DEF Same, context, pressed, ControlEnds
<1>5. ASSUME NEW s \in Session, ResetReadsRepeat(s) PROVE PoolTypes'
  BY <1>1, <1>5 DEF Same, context, pressed, ResetReadsRepeat, Advance
<1>6. ASSUME NEW s \in Session, ResetCancelsRepeat(s) PROVE PoolTypes'
  BY <1>6 DEF PoolTypes, ResetCancelsRepeat, Advance, Cancelled
<1>7. ASSUME NEW s \in Session, ResetReadsLeft(s) PROVE PoolTypes'
  BY <1>1, <1>7 DEF Same, context, pressed, ResetReadsLeft, Advance
<1>8. ASSUME NEW s \in Session, ResetQueues(s) PROVE PoolTypes'
  <2>1. Reset \in Queued
    BY DEF Queued
  <2>2. Cancelled(id) \in [Addr -> Delayed \cup {NoTask}]
    BY DEF PoolTypes, Cancelled
  <2> QED
    BY <2>1, <2>2, <1>8 DEF PoolTypes, ResetQueues, Advance, Push, Woken
<1>9. ASSUME NEW s \in Session, TakeMessage(s) PROVE PoolTypes'
  <2>1. Tail(tasks) \in Seq(Queued)
    BY <1>9 DEF PoolTypes, TakeMessage
  <2>2. CASE input_queue[s] = <<>>
    BY <2>1, <2>2, <1>9 DEF PoolTypes, TakeMessage, Awake
  <2>3. CASE input_queue[s] # <<>>
    <3>1. Head(input_queue[s]) \in Message
      BY <2>3 DEF QueueTypes
    <3> QED
      BY <2>1, <2>3, <3>1, <1>9 DEF PoolTypes, TakeMessage, Awake
  <2> QED
    BY <2>2, <2>3
<1>10. ASSUME RunReset PROVE PoolTypes'
  BY <1>10 DEF PoolTypes, RunReset, Awake
<1>11. ASSUME Batch PROVE PoolTypes'
  <2>1. entry \in [session : Session, msg : Message]
    BY <1>11 DEF PoolTypes, Batch
  <2>2. Head(Queue) \in Message
    BY <2>1, <1>11 DEF QueueTypes, Batch, GoesOn, Queue
  <2>3. Batched(entry.msg, Head(Queue)) \in Message
    BY <2>1, <2>2, <1>11, BatchedIsMessage DEF Batch, GoesOn
  <2>4. entry' \in [session : Session, msg : Message]
    BY <2>1, <2>3, <1>11 DEF Batch
  <2> QED
    BY <2>4, <1>11 DEF PoolTypes, Batch
<1>12. ASSUME BatchEnds PROVE PoolTypes'
  BY <1>12 DEF PoolTypes, BatchEnds
<1>13. ASSUME SendMotion PROVE PoolTypes'
  BY <1>13 DEF PoolTypes, SendMotion, Sent
<1>14. ASSUME ButtonIgnored PROVE PoolTypes'
  BY <1>14 DEF PoolTypes, ButtonIgnored, Sent, ButtonKnown, Sending
<1>15. ASSUME LeftIsDelayed PROVE PoolTypes'
  <2>1. entry.session \in Session
    BY <1>15 DEF PoolTypes, LeftIsDelayed, ButtonIs, Sending
  <2>2. [does |-> "release", session |-> Sender] \in Delayed
    BY <2>1 DEF Delayed, Sender
  <2>3. timers' \in [Addr -> Delayed \cup {NoTask}]
    BY <2>2, <1>15 DEF PoolTypes, LeftIsDelayed
  <2> QED
    BY <2>3, <1>15 DEF PoolTypes, LeftIsDelayed, Sent, ButtonIs, Sending
<1>16. ASSUME RightClicks PROVE PoolTypes'
  BY <1>16 DEF PoolTypes, RightClicks, Sent, ButtonIs, Sending
<1>17. ASSUME ButtonDown PROVE PoolTypes'
  BY <1>17 DEF PoolTypes, ButtonDown, Sent, ButtonIs, Sending
<1>18. ASSUME ButtonUp PROVE PoolTypes'
  BY <1>18 DEF PoolTypes, ButtonUp, Sent, ButtonIs, Sending
<1>19. ASSUME KeyIgnored PROVE PoolTypes'
  BY <1>19 DEF PoolTypes, KeyIgnored, Sent, Sending
<1>20. ASSUME KeySwallowed PROVE PoolTypes'
  BY <1>20 DEF PoolTypes, KeySwallowed, Sent, KeyIs, Sending
<1>21. ASSUME KeyDown PROVE PoolTypes'
  <2>1. entry.msg \in Message
    BY <1>21 DEF PoolTypes, KeyDown, KeyIs, Sending
  <2>2. Packet.key \in Key
    BY <2>1, <1>21 DEF KeyDown, KeyIs, Sending, Packet, Message, KeyMessage,
           ButtonMessage, MotionMessage
  <2>3. Synthetic \in BOOLEAN
    BY DEF Synthetic
  <2>4. [does |-> "repeat", key |-> Packet.key, synthetic |-> Synthetic] \in Delayed
    BY <2>2, <2>3 DEF Delayed
  <2>5. Cancelled(key_press_repeat_id) \in [Addr -> Delayed \cup {NoTask}]
    BY DEF PoolTypes, Cancelled
  <2>6. timers' \in [Addr -> Delayed \cup {NoTask}]
    BY <2>4, <2>5, <1>21 DEF KeyDown
  <2> QED
    BY <2>6, <1>21 DEF PoolTypes, KeyDown, Sent, KeyIs, Sending
<1>22. ASSUME KeyUp PROVE PoolTypes'
  BY <1>22 DEF PoolTypes, KeyUp, Sent, KeyIs, Sending
<1>23. ASSUME NEW a \in Addr, TakeTimer(a) PROVE PoolTypes'
  <2>1. timers[a] \in Delayed
    BY <1>23 DEF PoolTypes, TakeTimer
  <2>2. timers' \in [Addr -> Delayed \cup {NoTask}]
    BY <1>23 DEF PoolTypes, TakeTimer
  <2> QED
    BY <2>1, <2>2, <1>23 DEF PoolTypes, TakeTimer, Awake
<1>24. ASSUME RepeatKey PROVE PoolTypes'
  <2>1. firing.task \in Delayed
    BY <1>24 DEF PoolTypes, RepeatKey, Fires
  <2>2. timers' \in [Addr -> Delayed \cup {NoTask}]
    BY <2>1, <1>24 DEF PoolTypes, RepeatKey
  <2> QED
    BY <2>2, <1>24 DEF PoolTypes, RepeatKey, Fires, Fired
<1>25. ASSUME ReleaseLeft PROVE PoolTypes'
  BY <1>25 DEF PoolTypes, ReleaseLeft, Fires, Fired
<1>26. ASSUME Sleep PROVE PoolTypes'
  BY <1>26 DEF PoolTypes, Sleep
<1>27. ASSUME PoolStop PROVE PoolTypes'
  BY <1>27 DEF PoolTypes, PoolStop, Woken
<1>28. ASSUME WorkerExits PROVE PoolTypes'
  BY <1>28 DEF PoolTypes, WorkerExits
<1> HIDE DEF PoolTypes
<1> QED
  BY <1>2, <1>3, <1>4, <1>5, <1>6, <1>7, <1>8, <1>9, <1>10, <1>11, <1>12, 
     <1>13, <1>14, <1>15, <1>16, <1>17, <1>18, <1>19, <1>20, <1>21, 
     <1>22, <1>23, <1>24, <1>25, <1>26, <1>27, <1>28 DEF Next, Send, RunTimer, TakeTask, ResetStep

(* The system and the tables go together.                                    *)
LEMMA OsMatchesStep ==
    ASSUME TypeOK, OsMatches, Next
    PROVE  OsMatches'
<1> DEFINE Same == UNCHANGED <<key_press, mouse_press, os>>
<1>1. Same => OsMatches'
  BY DEF OsMatches
<1> HIDE DEF Same
<1>2. ASSUME NEW s \in Session, Alloc(s) PROVE OsMatches'
  BY <1>1, <1>2 DEF Same, context, pressed, Alloc
<1>3. ASSUME NEW s \in Session, NEW m \in device, Passthrough(s, m) PROVE OsMatches'
  BY <1>1, <1>3 DEF Same, context, pressed, Passthrough
<1>4. ASSUME NEW s \in Session, ControlEnds(s) PROVE OsMatches'
  BY <1>1, <1>4 DEF Same, context, pressed, ControlEnds
<1>5. ASSUME NEW s \in Session, ResetReadsRepeat(s) PROVE OsMatches'
  BY <1>1, <1>5 DEF Same, context, pressed, ResetReadsRepeat, Advance
<1>6. ASSUME NEW s \in Session, ResetCancelsRepeat(s) PROVE OsMatches'
  BY <1>1, <1>6 DEF Same, context, pressed, ResetCancelsRepeat, Advance
<1>7. ASSUME NEW s \in Session, ResetReadsLeft(s) PROVE OsMatches'
  BY <1>1, <1>7 DEF Same, context, pressed, ResetReadsLeft, Advance
<1>8. ASSUME NEW s \in Session, ResetQueues(s) PROVE OsMatches'
  BY <1>1, <1>8 DEF Same, context, pressed, ResetQueues, Advance
<1>9. ASSUME NEW s \in Session, TakeMessage(s) PROVE OsMatches'
  BY <1>1, <1>9 DEF Same, context, pressed, TakeMessage
<1>10. ASSUME RunReset PROVE OsMatches'
  BY <1>10, InputAssumption DEF TypeOK, HeldTypes, OsMatches, RunReset,
     Tracked, Button
<1>11. ASSUME Batch PROVE OsMatches'
  BY <1>1, <1>11 DEF Same, context, pressed, Batch
<1>12. ASSUME BatchEnds PROVE OsMatches'
  BY <1>1, <1>12 DEF Same, context, pressed, BatchEnds
<1>13. ASSUME SendMotion PROVE OsMatches'
  BY <1>1, <1>13 DEF Same, context, pressed, SendMotion, Sent
<1>14. ASSUME ButtonIgnored PROVE OsMatches'
  BY <1>1, <1>14 DEF Same, context, pressed, ButtonIgnored, Sent
<1>15. ASSUME LeftIsDelayed PROVE OsMatches'
  BY <1>15 DEF TypeOK, HeldTypes, OsMatches, LeftIsDelayed, MousePress, Tracked
<1>16. ASSUME RightClicks PROVE OsMatches'
  BY <1>16, InputAssumption DEF TypeOK, HeldTypes, OsMatches, RightClicks,
     MousePress, Tracked, Button
<1>17. ASSUME ButtonDown PROVE OsMatches'
  <2>1. Packet \in ButtonMessage
    BY <1>17 DEF TypeOK, PoolTypes, ButtonDown, ButtonIs, Sending, Packet,
       Message, KeyMessage,
           ButtonMessage, MotionMessage
  <2>2. Packet.button \in Button /\ Packet.button \notin Key
    BY <2>1, InputAssumption DEF ButtonMessage
  <2>3. CASE Packet.button \in Tracked
    BY <2>2, <2>3, <1>17, InputAssumption DEF TypeOK, HeldTypes,
       OsMatches, ButtonDown,
           MousePress, Tracked, Button
  <2>4. CASE Packet.button \notin Tracked
    BY <2>2, <2>4, <1>17, InputAssumption DEF TypeOK, HeldTypes,
       OsMatches, ButtonDown,
           MousePress, Tracked, Button
  <2> QED
    BY <2>3, <2>4
<1>18. ASSUME ButtonUp PROVE OsMatches'
  <2>1. Packet \in ButtonMessage
    BY <1>18 DEF TypeOK, PoolTypes, ButtonUp, ButtonIs, Sending, Packet,
       Message, KeyMessage,
           ButtonMessage, MotionMessage
  <2>2. Packet.button \in Button /\ Packet.button \notin Key
    BY <2>1, InputAssumption DEF ButtonMessage
  <2>3. CASE Packet.button \in Tracked
    BY <2>2, <2>3, <1>18, InputAssumption DEF TypeOK, HeldTypes,
       OsMatches, ButtonUp,
           MousePress, Tracked, Button
  <2>4. CASE Packet.button \notin Tracked
    BY <2>2, <2>4, <1>18, InputAssumption DEF TypeOK, HeldTypes,
       OsMatches, ButtonUp,
           MousePress, Tracked, Button
  <2> QED
    BY <2>3, <2>4
<1>19. ASSUME KeyIgnored PROVE OsMatches'
  BY <1>1, <1>19 DEF Same, context, pressed, KeyIgnored, Sent
<1>20. ASSUME KeySwallowed PROVE OsMatches'
  BY <1>1, <1>20 DEF Same, context, pressed, KeySwallowed, Sent
<1>21. ASSUME KeyDown PROVE OsMatches'
  <2>1. Packet.key \in Key
    BY <1>21 DEF TypeOK, PoolTypes, KeyDown, KeyIs, Sending, Packet,
       Message, KeyMessage,
           ButtonMessage, MotionMessage
  <2>2. Packet.key \notin Tracked /\ Modifier \in Key /\ Modifier \notin Tracked
    BY <2>1, InputAssumption DEF Tracked
  <2> QED
    BY <2>1, <2>2, <1>21 DEF TypeOK, HeldTypes, OsMatches, KeyDown,
       PressedAtOS, Synthetic, Tracked, Button
<1>22. ASSUME KeyUp PROVE OsMatches'
  <2>1. Packet.key \in Key
    BY <1>22 DEF TypeOK, PoolTypes, KeyUp, KeyIs, Sending, Packet,
       Message, KeyMessage,
           ButtonMessage, MotionMessage
  <2>2. Packet.key \notin Tracked /\ Modifier \in Key /\ Modifier \notin Tracked
    BY <2>1, InputAssumption DEF Tracked
  <2> QED
    BY <2>1, <2>2, <1>22 DEF TypeOK, HeldTypes, OsMatches, KeyUp, Tracked,
       Button
<1>23. ASSUME NEW a \in Addr, TakeTimer(a) PROVE OsMatches'
  BY <1>1, <1>23 DEF Same, context, pressed, TakeTimer
<1>24. ASSUME RepeatKey PROVE OsMatches'
  <2>1. firing.task.key \in Key
    BY <1>24 DEF TypeOK, PoolTypes, RepeatKey, Fires, Delayed
  <2>2. Modifier \in Key /\ Key \cap Button = {}
    BY InputAssumption
  <2> QED
    BY <2>1, <2>2, <1>24 DEF TypeOK, HeldTypes, OsMatches, RepeatKey,
       PressedAtOS,
           Tracked, Button
<1>25. ASSUME ReleaseLeft PROVE OsMatches'
  BY <1>25, InputAssumption DEF TypeOK, HeldTypes, OsMatches, ReleaseLeft,
     Tracked, Button
<1>26. ASSUME Sleep PROVE OsMatches'
  BY <1>1, <1>26 DEF Same, context, pressed, Sleep
<1>27. ASSUME PoolStop PROVE OsMatches'
  BY <1>1, <1>27 DEF Same, context, pressed, PoolStop
<1>28. ASSUME WorkerExits PROVE OsMatches'
  BY <1>1, <1>28 DEF Same, context, pressed, WorkerExits
<1> HIDE DEF OsMatches
<1> QED
  BY <1>2, <1>3, <1>4, <1>5, <1>6, <1>7, <1>8, <1>9, <1>10, <1>11, <1>12, 
     <1>13, <1>14, <1>15, <1>16, <1>17, <1>18, <1>19, <1>20, <1>21, 
     <1>22, <1>23, <1>24, <1>25, <1>26, <1>27, <1>28 DEF Next, Send, RunTimer, TakeTask, ResetStep

(* The repetition that is pending or runs is the only one.                  *)
LEMMA RepeatInvStep ==
    ASSUME TypeOK, RepeatInv, Next
    PROVE  RepeatInv'
<1> DEFINE Same == UNCHANGED <<timers, key_press_repeat_id, worker, firing>>
<1>1. Same => RepeatInv'
  BY DEF RepeatInv, RepeatNamed, RepeatRuns, Repeats
<1> HIDE DEF Same
<1>2. ASSUME NEW s \in Session, Alloc(s) PROVE RepeatInv'
  BY <1>1, <1>2 DEF Same, context, pressed, Alloc
<1>3. ASSUME NEW s \in Session, NEW m \in device, Passthrough(s, m) PROVE RepeatInv'
  BY <1>3 DEF TypeOK, PoolTypes, RepeatInv, RepeatNamed, RepeatRuns,
     Repeats, Passthrough, context, pressed, Push, Woken
<1>4. ASSUME NEW s \in Session, ControlEnds(s) PROVE RepeatInv'
  BY <1>1, <1>4 DEF Same, context, pressed, ControlEnds
<1>5. ASSUME NEW s \in Session, ResetReadsRepeat(s) PROVE RepeatInv'
  BY <1>1, <1>5 DEF Same, context, pressed, ResetReadsRepeat, Advance
<1>6. ASSUME NEW s \in Session, ResetCancelsRepeat(s) PROVE RepeatInv'
  BY <1>6 DEF TypeOK, PoolTypes, RepeatInv, RepeatNamed, RepeatRuns,
     Repeats, ResetCancelsRepeat, context, pressed, Advance, Cancelled,
     NoTask
<1>7. ASSUME NEW s \in Session, ResetReadsLeft(s) PROVE RepeatInv'
  BY <1>1, <1>7 DEF Same, context, pressed, ResetReadsLeft, Advance
<1>8. ASSUME NEW s \in Session, ResetQueues(s) PROVE RepeatInv'
  BY <1>8 DEF TypeOK, PoolTypes, RepeatInv, RepeatNamed, RepeatRuns,
     Repeats, ResetQueues, context, pressed, Advance, Push, Woken,
     Cancelled, NoTask
<1>9. ASSUME NEW s \in Session, TakeMessage(s) PROVE RepeatInv'
  BY <1>9 DEF TypeOK, PoolTypes, RepeatInv, RepeatNamed, RepeatRuns,
     Repeats, TakeMessage, context, pressed, Awake
<1>10. ASSUME RunReset PROVE RepeatInv'
  BY <1>10 DEF TypeOK, PoolTypes, RepeatInv, RepeatNamed, RepeatRuns,
     Repeats, RunReset, context, pressed, Awake
<1>11. ASSUME Batch PROVE RepeatInv'
  BY <1>1, <1>11 DEF Same, context, pressed, Batch
<1>12. ASSUME BatchEnds PROVE RepeatInv'
  BY <1>12 DEF TypeOK, PoolTypes, RepeatInv, RepeatNamed, RepeatRuns,
     Repeats, BatchEnds, context, pressed
<1>13. ASSUME SendMotion PROVE RepeatInv'
  BY <1>13 DEF TypeOK, PoolTypes, RepeatInv, RepeatNamed, RepeatRuns,
     Repeats, SendMotion, context, pressed, Sent
<1>14. ASSUME ButtonIgnored PROVE RepeatInv'
  BY <1>14 DEF TypeOK, PoolTypes, RepeatInv, RepeatNamed, RepeatRuns,
     Repeats, ButtonIgnored, context, pressed, Sent
<1>15. ASSUME LeftIsDelayed PROVE RepeatInv'
  BY <1>15 DEF TypeOK, PoolTypes, RepeatInv, RepeatNamed, RepeatRuns,
     Repeats, LeftIsDelayed, context, pressed, Sent, Free
<1>16. ASSUME RightClicks PROVE RepeatInv'
  BY <1>16 DEF TypeOK, PoolTypes, RepeatInv, RepeatNamed, RepeatRuns,
     Repeats, RightClicks, context, pressed, Sent
<1>17. ASSUME ButtonDown PROVE RepeatInv'
  BY <1>17 DEF TypeOK, PoolTypes, RepeatInv, RepeatNamed, RepeatRuns,
     Repeats, ButtonDown, context, pressed, Sent
<1>18. ASSUME ButtonUp PROVE RepeatInv'
  BY <1>18 DEF TypeOK, PoolTypes, RepeatInv, RepeatNamed, RepeatRuns,
     Repeats, ButtonUp, context, pressed, Sent
<1>19. ASSUME KeyIgnored PROVE RepeatInv'
  BY <1>19 DEF TypeOK, PoolTypes, RepeatInv, RepeatNamed, RepeatRuns,
     Repeats, KeyIgnored, context, pressed, Sent
<1>20. ASSUME KeySwallowed PROVE RepeatInv'
  BY <1>20 DEF TypeOK, PoolTypes, RepeatInv, RepeatNamed, RepeatRuns,
     Repeats, KeySwallowed, context, pressed, Sent
<1>21. ASSUME KeyDown PROVE RepeatInv'
  BY <1>21 DEF TypeOK, PoolTypes, RepeatInv, RepeatNamed, RepeatRuns,
     Repeats, KeyDown, context, pressed, Sent, UpdateShortcutFlags,
     Cancelled, NoTask, Free
<1>22. ASSUME KeyUp PROVE RepeatInv'
  BY <1>22 DEF TypeOK, PoolTypes, RepeatInv, RepeatNamed, RepeatRuns,
     Repeats, KeyUp, context, pressed, Sent, UpdateShortcutFlags
<1>23. ASSUME NEW a \in Addr, TakeTimer(a) PROVE RepeatInv'
  BY <1>23 DEF TypeOK, PoolTypes, RepeatInv, RepeatNamed, RepeatRuns,
     Repeats, TakeTimer, context, pressed, NoTask
<1>24. ASSUME RepeatKey PROVE RepeatInv'
  BY <1>24 DEF TypeOK, PoolTypes, RepeatInv, RepeatNamed, RepeatRuns,
     Repeats, RepeatKey, context, pressed, Fired, Free, Fires
<1>25. ASSUME ReleaseLeft PROVE RepeatInv'
  BY <1>25 DEF TypeOK, PoolTypes, RepeatInv, RepeatNamed, RepeatRuns,
     Repeats, ReleaseLeft, context, pressed, Fired
<1>26. ASSUME Sleep PROVE RepeatInv'
  BY <1>26 DEF TypeOK, PoolTypes, RepeatInv, RepeatNamed, RepeatRuns,
     Repeats, Sleep, context, pressed
<1>27. ASSUME PoolStop PROVE RepeatInv'
  BY <1>27 DEF TypeOK, PoolTypes, RepeatInv, RepeatNamed, RepeatRuns,
     Repeats, PoolStop, context, pressed, Woken
<1>28. ASSUME WorkerExits PROVE RepeatInv'
  BY <1>28 DEF TypeOK, PoolTypes, RepeatInv, RepeatNamed, RepeatRuns,
     Repeats, WorkerExits, context, pressed
<1> HIDE DEF RepeatInv
<1> QED
  BY <1>2, <1>3, <1>4, <1>5, <1>6, <1>7, <1>8, <1>9, <1>10, <1>11, <1>12, 
     <1>13, <1>14, <1>15, <1>16, <1>17, <1>18, <1>19, <1>20, <1>21, 
     <1>22, <1>23, <1>24, <1>25, <1>26, <1>27, <1>28 DEF Next, Send, RunTimer, TakeTask, ResetStep

(* Until the first reset the id is nobody else's.                            *)
LEMMA IdInvStep ==
    ASSUME TypeOK, IdInv, Next
    PROVE  IdInv'
<1> DEFINE Same == UNCHANGED <<timers, key_press_repeat_id, worker, firing, stage>>
<1>1. Same => IdInv'
  BY DEF IdInv, RepeatRuns, Repeats, ResetBegun
<1> HIDE DEF Same
<1>2. ASSUME NEW s \in Session, Alloc(s) PROVE IdInv'
  BY <1>2 DEF TypeOK, PoolTypes, QueueTypes, IdInv, RepeatRuns, Repeats,
     ResetBegun, Alloc, context, pressed
<1>3. ASSUME NEW s \in Session, NEW m \in device, Passthrough(s, m) PROVE IdInv'
  BY <1>3 DEF TypeOK, PoolTypes, QueueTypes, IdInv, RepeatRuns, Repeats,
     ResetBegun, Passthrough, context, pressed, Push, Woken
<1>4. ASSUME NEW s \in Session, ControlEnds(s) PROVE IdInv'
  BY <1>4 DEF TypeOK, PoolTypes, QueueTypes, IdInv, RepeatRuns, Repeats,
     ResetBegun, ControlEnds, context, pressed
<1>5. ASSUME NEW s \in Session, ResetReadsRepeat(s) PROVE IdInv'
  BY <1>5 DEF TypeOK, PoolTypes, QueueTypes, IdInv, RepeatRuns, Repeats,
     ResetBegun, ResetReadsRepeat, context, pressed, Advance
<1>6. ASSUME NEW s \in Session, ResetCancelsRepeat(s) PROVE IdInv'
  BY <1>6 DEF TypeOK, PoolTypes, QueueTypes, IdInv, RepeatRuns, Repeats,
     ResetBegun, ResetCancelsRepeat, context, pressed, Advance
<1>7. ASSUME NEW s \in Session, ResetReadsLeft(s) PROVE IdInv'
  BY <1>7 DEF TypeOK, PoolTypes, QueueTypes, IdInv, RepeatRuns, Repeats,
     ResetBegun, ResetReadsLeft, context, pressed, Advance
<1>8. ASSUME NEW s \in Session, ResetQueues(s) PROVE IdInv'
  BY <1>8 DEF TypeOK, PoolTypes, QueueTypes, IdInv, RepeatRuns, Repeats,
     ResetBegun, ResetQueues, context, pressed, Advance, Push
<1>9. ASSUME NEW s \in Session, TakeMessage(s) PROVE IdInv'
  BY <1>9 DEF TypeOK, PoolTypes, QueueTypes, IdInv, RepeatRuns, Repeats,
     ResetBegun, TakeMessage, context, pressed, Awake
<1>10. ASSUME RunReset PROVE IdInv'
  BY <1>10 DEF TypeOK, PoolTypes, QueueTypes, IdInv, RepeatRuns, Repeats,
     ResetBegun, RunReset, context, pressed, Awake
<1>11. ASSUME Batch PROVE IdInv'
  BY <1>1, <1>11 DEF Same, context, pressed, Batch
<1>12. ASSUME BatchEnds PROVE IdInv'
  BY <1>12 DEF TypeOK, PoolTypes, QueueTypes, IdInv, RepeatRuns, Repeats,
     ResetBegun, BatchEnds, context, pressed
<1>13. ASSUME SendMotion PROVE IdInv'
  BY <1>13 DEF TypeOK, PoolTypes, QueueTypes, IdInv, RepeatRuns, Repeats,
     ResetBegun, SendMotion, context, pressed, Sent
<1>14. ASSUME ButtonIgnored PROVE IdInv'
  BY <1>14 DEF TypeOK, PoolTypes, QueueTypes, IdInv, RepeatRuns, Repeats,
     ResetBegun, ButtonIgnored, context, pressed, Sent, ButtonKnown, Sending
<1>15. ASSUME LeftIsDelayed PROVE IdInv'
  BY <1>15 DEF TypeOK, PoolTypes, QueueTypes, IdInv, RepeatRuns, Repeats,
     ResetBegun, LeftIsDelayed, context, pressed, Sent, ButtonIs, Sending,
     Free, NoTask
<1>16. ASSUME RightClicks PROVE IdInv'
  BY <1>16 DEF TypeOK, PoolTypes, QueueTypes, IdInv, RepeatRuns, Repeats,
     ResetBegun, RightClicks, context, pressed, Sent, ButtonIs, Sending
<1>17. ASSUME ButtonDown PROVE IdInv'
  BY <1>17 DEF TypeOK, PoolTypes, QueueTypes, IdInv, RepeatRuns, Repeats,
     ResetBegun, ButtonDown, context, pressed, Sent, ButtonIs, Sending
<1>18. ASSUME ButtonUp PROVE IdInv'
  BY <1>18 DEF TypeOK, PoolTypes, QueueTypes, IdInv, RepeatRuns, Repeats,
     ResetBegun, ButtonUp, context, pressed, Sent, ButtonIs, Sending
<1>19. ASSUME KeyIgnored PROVE IdInv'
  BY <1>19 DEF TypeOK, PoolTypes, QueueTypes, IdInv, RepeatRuns, Repeats,
     ResetBegun, KeyIgnored, context, pressed, Sent, Sending
<1>20. ASSUME KeySwallowed PROVE IdInv'
  BY <1>20 DEF TypeOK, PoolTypes, QueueTypes, IdInv, RepeatRuns, Repeats,
     ResetBegun, KeySwallowed, context, pressed, Sent, KeyIs, Sending
<1>21. ASSUME KeyDown PROVE IdInv'
  BY <1>21 DEF TypeOK, PoolTypes, QueueTypes, IdInv, RepeatRuns, Repeats,
     ResetBegun, KeyDown, context, pressed, Sent, UpdateShortcutFlags,
     Cancelled, Free
<1>22. ASSUME KeyUp PROVE IdInv'
  BY <1>22 DEF TypeOK, PoolTypes, QueueTypes, IdInv, RepeatRuns, Repeats,
     ResetBegun, KeyUp, context, pressed, Sent, UpdateShortcutFlags, KeyIs,
     Sending
<1>23. ASSUME NEW a \in Addr, TakeTimer(a) PROVE IdInv'
  BY <1>23 DEF TypeOK, PoolTypes, QueueTypes, IdInv, RepeatRuns, Repeats,
     ResetBegun, TakeTimer, context, pressed, NoTask, Awake
<1>24. ASSUME RepeatKey PROVE IdInv'
  BY <1>24 DEF TypeOK, PoolTypes, QueueTypes, IdInv, RepeatRuns, Repeats,
     ResetBegun, RepeatKey, context, pressed, Fired, Free, Fires
<1>25. ASSUME ReleaseLeft PROVE IdInv'
  BY <1>25 DEF TypeOK, PoolTypes, QueueTypes, IdInv, RepeatRuns, Repeats,
     ResetBegun, ReleaseLeft, context, pressed, Fired, Fires
<1>26. ASSUME Sleep PROVE IdInv'
  BY <1>26 DEF TypeOK, PoolTypes, QueueTypes, IdInv, RepeatRuns, Repeats,
     ResetBegun, Sleep, context, pressed
<1>27. ASSUME PoolStop PROVE IdInv'
  BY <1>27 DEF TypeOK, PoolTypes, QueueTypes, IdInv, RepeatRuns, Repeats,
     ResetBegun, PoolStop, context, pressed, Woken
<1>28. ASSUME WorkerExits PROVE IdInv'
  BY <1>28 DEF TypeOK, PoolTypes, QueueTypes, IdInv, RepeatRuns, Repeats,
     ResetBegun, WorkerExits, context, pressed
<1> HIDE DEF IdInv
<1> QED
  BY <1>2, <1>3, <1>4, <1>5, <1>6, <1>7, <1>8, <1>9, <1>10, <1>11, <1>12, 
     <1>13, <1>14, <1>15, <1>16, <1>17, <1>18, <1>19, <1>20, <1>21, 
     <1>22, <1>23, <1>24, <1>25, <1>26, <1>27, <1>28 DEF Next, Send, RunTimer, TakeTask, ResetStep

(* The release that is owed is not lost before the first reset.             *)
LEMMA LeftOwedStep ==
    ASSUME TypeOK, IdInv, LeftOwed, Next
    PROVE  LeftOwed'
<1> DEFINE Same == UNCHANGED <<timers, worker, firing, stage, os, mouse_press>>
<1>1. Same => LeftOwed'
  BY DEF LeftOwed, Owed, ResetBegun
<1> HIDE DEF Same
<1>2. ASSUME NEW s \in Session, Alloc(s) PROVE LeftOwed'
  BY <1>2, InputAssumption DEF TypeOK, PoolTypes, QueueTypes, HeldTypes,
     LeftOwed, Owed, ResetBegun, Alloc, context, pressed
<1>3. ASSUME NEW s \in Session, NEW m \in device, Passthrough(s, m) PROVE LeftOwed'
  BY <1>3, InputAssumption DEF TypeOK, PoolTypes, QueueTypes, HeldTypes,
     LeftOwed, Owed, ResetBegun, Passthrough, context, pressed, Push, Woken
<1>4. ASSUME NEW s \in Session, ControlEnds(s) PROVE LeftOwed'
  BY <1>4, InputAssumption DEF TypeOK, PoolTypes, QueueTypes, HeldTypes,
     LeftOwed, Owed, ResetBegun, ControlEnds, context, pressed
<1>5. ASSUME NEW s \in Session, ResetReadsRepeat(s) PROVE LeftOwed'
  BY <1>5, InputAssumption DEF TypeOK, PoolTypes, QueueTypes, HeldTypes,
     LeftOwed, Owed, ResetBegun, ResetReadsRepeat, context, pressed, Advance
<1>6. ASSUME NEW s \in Session, ResetCancelsRepeat(s) PROVE LeftOwed'
  BY <1>6, InputAssumption DEF TypeOK, PoolTypes, QueueTypes, HeldTypes,
     LeftOwed, Owed, ResetBegun, ResetCancelsRepeat, context, pressed,
     Advance
<1>7. ASSUME NEW s \in Session, ResetReadsLeft(s) PROVE LeftOwed'
  BY <1>7, InputAssumption DEF TypeOK, PoolTypes, QueueTypes, HeldTypes,
     LeftOwed, Owed, ResetBegun, ResetReadsLeft, context, pressed, Advance
<1>8. ASSUME NEW s \in Session, ResetQueues(s) PROVE LeftOwed'
  BY <1>8, InputAssumption DEF TypeOK, PoolTypes, QueueTypes, HeldTypes,
     LeftOwed, Owed, ResetBegun, ResetQueues, context, pressed, Advance,
     Push
<1>9. ASSUME NEW s \in Session, TakeMessage(s) PROVE LeftOwed'
  BY <1>9, InputAssumption DEF TypeOK, PoolTypes, QueueTypes, HeldTypes,
     LeftOwed, Owed, ResetBegun, TakeMessage, context, pressed, Awake
<1>10. ASSUME RunReset PROVE LeftOwed'
  <2>1. Owed' <=> Owed
    BY <1>10 DEF Owed, RunReset, Awake
  <2>2. ResetBegun' <=> ResetBegun
    BY <1>10 DEF ResetBegun, RunReset, context
  <2>3. "left" \in os' => "left" \in os /\ ~mouse_press["left"]
    BY <1>10 DEF RunReset, Tracked, Button
  <2> QED
    BY <2>1, <2>2, <2>3 DEF LeftOwed
<1>11. ASSUME Batch PROVE LeftOwed'
  BY <1>1, <1>11 DEF Same, context, pressed, Batch
<1>12. ASSUME BatchEnds PROVE LeftOwed'
  BY <1>12, InputAssumption DEF TypeOK, PoolTypes, QueueTypes, HeldTypes,
     LeftOwed, Owed, ResetBegun, BatchEnds, context, pressed
<1>13. ASSUME SendMotion PROVE LeftOwed'
  BY <1>13, InputAssumption DEF TypeOK, PoolTypes, QueueTypes, HeldTypes,
     LeftOwed, Owed, ResetBegun, SendMotion, context, pressed, Sent
<1>14. ASSUME ButtonIgnored PROVE LeftOwed'
  BY <1>14, InputAssumption DEF TypeOK, PoolTypes, QueueTypes, HeldTypes,
     LeftOwed, Owed, ResetBegun, ButtonIgnored, context, pressed, Sent,
     ButtonKnown, Sending
<1>15. ASSUME LeftIsDelayed PROVE LeftOwed'
  BY <1>15, InputAssumption DEF TypeOK, PoolTypes, QueueTypes, HeldTypes,
     LeftOwed, Owed, ResetBegun, LeftIsDelayed, context, pressed, Sent,
     Free, MousePress, Tracked
<1>16. ASSUME RightClicks PROVE LeftOwed'
  BY <1>16, InputAssumption DEF TypeOK, PoolTypes, QueueTypes, HeldTypes,
     LeftOwed, Owed, ResetBegun, RightClicks, context, pressed, Sent,
     MousePress, ButtonIs, Sending
<1>17. ASSUME ButtonDown PROVE LeftOwed'
  BY <1>17, InputAssumption DEF TypeOK, PoolTypes, QueueTypes, HeldTypes,
     LeftOwed, Owed, ResetBegun, ButtonDown, context, pressed, Sent,
     MousePress, ButtonIs, Sending, Tracked, Button
<1>18. ASSUME ButtonUp PROVE LeftOwed'
  BY <1>18, InputAssumption DEF TypeOK, PoolTypes, QueueTypes, HeldTypes,
     LeftOwed, Owed, ResetBegun, ButtonUp, context, pressed, Sent,
     MousePress, ButtonIs, Sending
<1>19. ASSUME KeyIgnored PROVE LeftOwed'
  BY <1>19, InputAssumption DEF TypeOK, PoolTypes, QueueTypes, HeldTypes,
     LeftOwed, Owed, ResetBegun, KeyIgnored, context, pressed, Sent, Sending
<1>20. ASSUME KeySwallowed PROVE LeftOwed'
  BY <1>20, InputAssumption DEF TypeOK, PoolTypes, QueueTypes, HeldTypes,
     LeftOwed, Owed, ResetBegun, KeySwallowed, context, pressed, Sent,
     KeyIs, Sending
<1>21. ASSUME KeyDown PROVE LeftOwed'
  <2>1. Packet.key \in Key /\ worker = "send"
    BY <1>21 DEF TypeOK, PoolTypes, KeyDown, KeyIs, Sending, Packet,
       Message, KeyMessage,
           ButtonMessage, MotionMessage
  <2>2. "left" \in os' => "left" \in os
    BY <2>1, <1>21, InputAssumption DEF KeyDown, PressedAtOS, Button
  <2>3. mouse_press' = mouse_press /\ (ResetBegun' <=> ResetBegun)
    BY <1>21 DEF KeyDown, ResetBegun
  <2>4. CASE ~ResetBegun /\ Owed
    <3>1. PICK b \in Addr : timers[b].does = "release"
      BY <2>1, <2>4 DEF Owed
    <3>2. b # "null"
      BY InputAssumption
    <3>3. ASSUME b = key_press_repeat_id PROVE FALSE
      <4>1. Repeats(b)
        BY <2>1, <2>4, <3>2, <3>3 DEF IdInv, RepeatRuns
      <4> QED
        BY <3>1, <4>1 DEF Repeats
    <3>4. Cancelled(key_press_repeat_id)[b] = timers[b]
      BY <3>3 DEF Cancelled
    <3>5. timers'[b] = timers[b]
      BY <3>1, <3>4, <1>21 DEF KeyDown, Free, NoTask, TypeOK, PoolTypes
    <3> QED
      BY <3>1, <3>5 DEF LeftOwed, Owed
  <2> QED
    BY <2>2, <2>3, <2>4 DEF LeftOwed
<1>22. ASSUME KeyUp PROVE LeftOwed'
  BY <1>22, InputAssumption DEF TypeOK, PoolTypes, QueueTypes, HeldTypes,
     LeftOwed, Owed, ResetBegun, KeyUp, context, pressed, Sent,
     UpdateShortcutFlags, KeyIs, Sending
<1>23. ASSUME NEW a \in Addr, TakeTimer(a) PROVE LeftOwed'
  BY <1>23, InputAssumption DEF TypeOK, PoolTypes, QueueTypes, HeldTypes,
     LeftOwed, Owed, ResetBegun, TakeTimer, context, pressed, NoTask, Awake
<1>24. ASSUME RepeatKey PROVE LeftOwed'
  <2>1. firing.task.key \in Key /\ worker = "timer" /\ firing.task.does = "repeat"
    BY <1>24 DEF TypeOK, PoolTypes, RepeatKey, Fires, Delayed
  <2>2. "left" \in os' => "left" \in os
    BY <2>1, <1>24, InputAssumption DEF RepeatKey, PressedAtOS, Button
  <2>3. mouse_press' = mouse_press /\ (ResetBegun' <=> ResetBegun)
    BY <1>24 DEF RepeatKey, ResetBegun, context
  <2>4. CASE Owed
    <3>1. PICK b \in Addr : timers[b].does = "release"
      BY <2>1, <2>4 DEF Owed
    <3>2. timers'[b] = timers[b]
      BY <3>1, <1>24 DEF RepeatKey, Free, NoTask, TypeOK, PoolTypes
    <3> QED
      BY <3>1, <3>2 DEF LeftOwed, Owed
  <2> QED
    BY <2>2, <2>3, <2>4 DEF LeftOwed
<1>25. ASSUME ReleaseLeft PROVE LeftOwed'
  BY <1>25, InputAssumption DEF TypeOK, PoolTypes, QueueTypes, HeldTypes,
     LeftOwed, Owed, ResetBegun, ReleaseLeft, context, pressed, Fired, Fires
<1>26. ASSUME Sleep PROVE LeftOwed'
  BY <1>26, InputAssumption DEF TypeOK, PoolTypes, QueueTypes, HeldTypes,
     LeftOwed, Owed, ResetBegun, Sleep, context, pressed
<1>27. ASSUME PoolStop PROVE LeftOwed'
  BY <1>27, InputAssumption DEF TypeOK, PoolTypes, QueueTypes, HeldTypes,
     LeftOwed, Owed, ResetBegun, PoolStop, context, pressed, Woken
<1>28. ASSUME WorkerExits PROVE LeftOwed'
  BY <1>28, InputAssumption DEF TypeOK, PoolTypes, QueueTypes, HeldTypes,
     LeftOwed, Owed, ResetBegun, WorkerExits, context, pressed
<1> HIDE DEF LeftOwed
<1> QED
  BY <1>2, <1>3, <1>4, <1>5, <1>6, <1>7, <1>8, <1>9, <1>10, <1>11, <1>12, 
     <1>13, <1>14, <1>15, <1>16, <1>17, <1>18, <1>19, <1>20, <1>21, 
     <1>22, <1>23, <1>24, <1>25, <1>26, <1>27, <1>28 DEF Next, Send, RunTimer, TakeTask, ResetStep

(* The last session's reset comes last.                                      *)
LEMMA LastInvStep ==
    ASSUME TypeOK, LastInv, Next
    PROVE  LastInv'
<1> DEFINE Same == UNCHANGED <<stage, tasks, key_press, mouse_press, worker>>
<1>1. Same => LastInv'
  BY DEF LastInv, NothingPressed, Quiet
<1> HIDE DEF Same
<1>2. ASSUME NEW s \in Session, Alloc(s) PROVE LastInv'
  BY <1>2 DEF TypeOK, QueueTypes, PoolTypes, HeldTypes, LastInv,
     NothingPressed, Quiet, Alloc, context, pressed
<1>3. ASSUME NEW s \in Session, NEW m \in device, Passthrough(s, m) PROVE LastInv'
  BY <1>3 DEF TypeOK, QueueTypes, PoolTypes, HeldTypes, LastInv,
     NothingPressed, Quiet, Passthrough, context, pressed, Push, Woken
<1>4. ASSUME NEW s \in Session, ControlEnds(s) PROVE LastInv'
  BY <1>4 DEF TypeOK, QueueTypes, PoolTypes, HeldTypes, LastInv,
     NothingPressed, Quiet, ControlEnds, context, pressed
<1>5. ASSUME NEW s \in Session, ResetReadsRepeat(s) PROVE LastInv'
  BY <1>5 DEF TypeOK, QueueTypes, PoolTypes, HeldTypes, LastInv,
     NothingPressed, Quiet, ResetReadsRepeat, context, pressed, Advance
<1>6. ASSUME NEW s \in Session, ResetCancelsRepeat(s) PROVE LastInv'
  BY <1>6 DEF TypeOK, QueueTypes, PoolTypes, HeldTypes, LastInv,
     NothingPressed, Quiet, ResetCancelsRepeat, context, pressed, Advance
<1>7. ASSUME NEW s \in Session, ResetReadsLeft(s) PROVE LastInv'
  BY <1>7 DEF TypeOK, QueueTypes, PoolTypes, HeldTypes, LastInv,
     NothingPressed, Quiet, ResetReadsLeft, context, pressed, Advance
<1>8. ASSUME NEW s \in Session, ResetQueues(s) PROVE LastInv'
  <2>1. tasks' # <<>> /\ tasks'[Len(tasks')] = Reset
    BY <1>8 DEF TypeOK, PoolTypes, ResetQueues, Push
  <2> QED
    BY <2>1 DEF LastInv
<1>9. ASSUME NEW s \in Session, TakeMessage(s) PROVE LastInv'
  <2>1. Tail(tasks) # <<>> => Tail(tasks)[Len(Tail(tasks))] = tasks[Len(tasks)]
    BY <1>9 DEF TypeOK, PoolTypes, TakeMessage
  <2>2. Next_message(s) # Reset
    BY DEF Next_message, Reset
  <2>3. Tail(tasks) = <<>> => tasks[Len(tasks)] = Head(tasks)
    <3>1. tasks \in Seq(Queued) /\ tasks # <<>>
      BY <1>9 DEF TypeOK, PoolTypes, TakeMessage
    <3>2. ASSUME Tail(tasks) = <<>> PROVE Len(tasks) = 1
      <4>1. Len(tasks) \in Nat /\ Len(tasks) > 0
        BY <3>1
      <4>2. Tail(tasks) \in Seq(Queued) /\ Len(Tail(tasks)) = Len(tasks) - 1
        BY <3>1
      <4>3. \A q \in Seq(Queued) : q = <<>> => Len(q) = 0
        OBVIOUS
      <4>4. Len(tasks) - 1 = 0
        BY <3>2, <4>2, <4>3
      <4> DEFINE n == Len(tasks)
      <4> HIDE DEF n
      <4>5. n \in Nat /\ n - 1 = 0 => n = 1
        OBVIOUS
      <4> QED
        BY <4>1, <4>4, <4>5 DEF n
    <3>3. Head(tasks) = tasks[1]
      BY <3>1
    <3> QED
      BY <3>2, <3>3
  <2>4. tasks # <<>> /\ tasks' = Tail(tasks) /\ Head(tasks) # Reset
    BY <2>2, <1>9 DEF TakeMessage
  <2>5. Quiet' <=> Quiet
    BY <1>9 DEF Quiet, TakeMessage
  <2> QED
    BY <2>1, <2>3, <2>4, <2>5 DEF LastInv
<1>10. ASSUME RunReset PROVE LastInv'
  <2>1. Tail(tasks) # <<>> => Tail(tasks)[Len(Tail(tasks))] = tasks[Len(tasks)]
    BY <1>10 DEF TypeOK, PoolTypes, RunReset
  <2>2. Quiet' <=> Quiet
    BY <1>10 DEF Quiet, RunReset, context
  <2>3. NothingPressed'
    BY <1>10 DEF NothingPressed, RunReset
  <2>4. tasks # <<>> /\ tasks' = Tail(tasks)
    BY <1>10 DEF RunReset
  <2> QED
    BY <2>1, <2>2, <2>3, <2>4 DEF LastInv
<1>11. ASSUME Batch PROVE LastInv'
  BY <1>1, <1>11 DEF Same, context, pressed, Batch
<1>12. ASSUME BatchEnds PROVE LastInv'
  BY <1>12 DEF TypeOK, QueueTypes, PoolTypes, HeldTypes, LastInv,
     NothingPressed, Quiet, BatchEnds, context, pressed
<1>13. ASSUME SendMotion PROVE LastInv'
  BY <1>13 DEF TypeOK, QueueTypes, PoolTypes, HeldTypes, LastInv,
     NothingPressed, Quiet, SendMotion, context, pressed, Sent
<1>14. ASSUME ButtonIgnored PROVE LastInv'
  BY <1>14 DEF TypeOK, QueueTypes, PoolTypes, HeldTypes, LastInv,
     NothingPressed, Quiet, ButtonIgnored, context, pressed, Sent,
     ButtonKnown, Sending
<1>15. ASSUME LeftIsDelayed PROVE LastInv'
  BY <1>15 DEF TypeOK, QueueTypes, PoolTypes, HeldTypes, LastInv,
     NothingPressed, Quiet, LeftIsDelayed, context, pressed, Sent, ButtonIs,
     Sending
<1>16. ASSUME RightClicks PROVE LastInv'
  BY <1>16 DEF TypeOK, QueueTypes, PoolTypes, HeldTypes, LastInv,
     NothingPressed, Quiet, RightClicks, context, pressed, Sent, ButtonIs,
     Sending
<1>17. ASSUME ButtonDown PROVE LastInv'
  BY <1>17 DEF TypeOK, QueueTypes, PoolTypes, HeldTypes, LastInv,
     NothingPressed, Quiet, ButtonDown, context, pressed, Sent, ButtonIs,
     Sending
<1>18. ASSUME ButtonUp PROVE LastInv'
  BY <1>18 DEF TypeOK, QueueTypes, PoolTypes, HeldTypes, LastInv,
     NothingPressed, Quiet, ButtonUp, context, pressed, Sent, ButtonIs,
     Sending
<1>19. ASSUME KeyIgnored PROVE LastInv'
  BY <1>19 DEF TypeOK, QueueTypes, PoolTypes, HeldTypes, LastInv,
     NothingPressed, Quiet, KeyIgnored, context, pressed, Sent, Sending
<1>20. ASSUME KeySwallowed PROVE LastInv'
  BY <1>20 DEF TypeOK, QueueTypes, PoolTypes, HeldTypes, LastInv,
     NothingPressed, Quiet, KeySwallowed, context, pressed, Sent, KeyIs,
     Sending
<1>21. ASSUME KeyDown PROVE LastInv'
  BY <1>21 DEF TypeOK, QueueTypes, PoolTypes, HeldTypes, LastInv,
     NothingPressed, Quiet, KeyDown, context, pressed, Sent,
     UpdateShortcutFlags, KeyIs, Sending
<1>22. ASSUME KeyUp PROVE LastInv'
  BY <1>22 DEF TypeOK, QueueTypes, PoolTypes, HeldTypes, LastInv,
     NothingPressed, Quiet, KeyUp, context, pressed, Sent,
     UpdateShortcutFlags, KeyIs, Sending
<1>23. ASSUME NEW a \in Addr, TakeTimer(a) PROVE LastInv'
  BY <1>23 DEF TypeOK, QueueTypes, PoolTypes, HeldTypes, LastInv,
     NothingPressed, Quiet, TakeTimer, context, pressed
<1>24. ASSUME RepeatKey PROVE LastInv'
  BY <1>24 DEF TypeOK, QueueTypes, PoolTypes, HeldTypes, LastInv,
     NothingPressed, Quiet, RepeatKey, context, pressed, Fired, Fires
<1>25. ASSUME ReleaseLeft PROVE LastInv'
  BY <1>25 DEF TypeOK, QueueTypes, PoolTypes, HeldTypes, LastInv,
     NothingPressed, Quiet, ReleaseLeft, context, pressed, Fired, Fires
<1>26. ASSUME Sleep PROVE LastInv'
  BY <1>26 DEF TypeOK, QueueTypes, PoolTypes, HeldTypes, LastInv,
     NothingPressed, Quiet, Sleep, context, pressed
<1>27. ASSUME PoolStop PROVE LastInv'
  BY <1>27 DEF TypeOK, QueueTypes, PoolTypes, HeldTypes, LastInv,
     NothingPressed, Quiet, PoolStop, context, pressed, Woken
<1>28. ASSUME WorkerExits PROVE LastInv'
  BY <1>28 DEF TypeOK, QueueTypes, PoolTypes, HeldTypes, LastInv,
     NothingPressed, Quiet, WorkerExits, context, pressed
<1> HIDE DEF LastInv
<1> QED
  BY <1>2, <1>3, <1>4, <1>5, <1>6, <1>7, <1>8, <1>9, <1>10, <1>11, <1>12, 
     <1>13, <1>14, <1>15, <1>16, <1>17, <1>18, <1>19, <1>20, <1>21, 
     <1>22, <1>23, <1>24, <1>25, <1>26, <1>27, <1>28 DEF Next, Send, RunTimer, TakeTask, ResetStep

LEMMA PoolInvStep ==
    ASSUME TypeOK, PoolInv, Next
    PROVE  PoolInv'
<1> DEFINE Same == UNCHANGED <<stage, tasks, pool, worker>>
<1>1. Same => PoolInv'
  BY DEF PoolInv, Quiet
<1> HIDE DEF Same
<1>2. ASSUME NEW s \in Session, Alloc(s) PROVE PoolInv'
  BY <1>2 DEF TypeOK, QueueTypes, PoolTypes, PoolInv, Quiet, Alloc, context,
     pressed
<1>3. ASSUME NEW s \in Session, NEW m \in device, Passthrough(s, m) PROVE PoolInv'
  BY <1>3 DEF TypeOK, QueueTypes, PoolTypes, PoolInv, Quiet, Passthrough,
     context, pressed, Push, Woken
<1>4. ASSUME NEW s \in Session, ControlEnds(s) PROVE PoolInv'
  BY <1>4 DEF TypeOK, QueueTypes, PoolTypes, PoolInv, Quiet, ControlEnds,
     context, pressed
<1>5. ASSUME NEW s \in Session, ResetReadsRepeat(s) PROVE PoolInv'
  BY <1>5 DEF TypeOK, QueueTypes, PoolTypes, PoolInv, Quiet,
     ResetReadsRepeat, context, pressed, Advance
<1>6. ASSUME NEW s \in Session, ResetCancelsRepeat(s) PROVE PoolInv'
  BY <1>6 DEF TypeOK, QueueTypes, PoolTypes, PoolInv, Quiet,
     ResetCancelsRepeat, context, pressed, Advance
<1>7. ASSUME NEW s \in Session, ResetReadsLeft(s) PROVE PoolInv'
  BY <1>7 DEF TypeOK, QueueTypes, PoolTypes, PoolInv, Quiet, ResetReadsLeft,
     context, pressed, Advance
<1>8. ASSUME NEW s \in Session, ResetQueues(s) PROVE PoolInv'
  BY <1>8 DEF TypeOK, QueueTypes, PoolTypes, PoolInv, Quiet, ResetQueues,
     context, pressed, Advance, Push, Woken
<1>9. ASSUME NEW s \in Session, TakeMessage(s) PROVE PoolInv'
  BY <1>9 DEF TypeOK, QueueTypes, PoolTypes, PoolInv, Quiet, TakeMessage,
     context, pressed, Awake
<1>10. ASSUME RunReset PROVE PoolInv'
  BY <1>10 DEF TypeOK, QueueTypes, PoolTypes, PoolInv, Quiet, RunReset,
     context, pressed, Awake
<1>11. ASSUME Batch PROVE PoolInv'
  BY <1>1, <1>11 DEF Same, context, pressed, Batch
<1>12. ASSUME BatchEnds PROVE PoolInv'
  BY <1>12 DEF TypeOK, QueueTypes, PoolTypes, PoolInv, Quiet, BatchEnds,
     context, pressed
<1>13. ASSUME SendMotion PROVE PoolInv'
  BY <1>13 DEF TypeOK, QueueTypes, PoolTypes, PoolInv, Quiet, SendMotion,
     context, pressed, Sent
<1>14. ASSUME ButtonIgnored PROVE PoolInv'
  BY <1>14 DEF TypeOK, QueueTypes, PoolTypes, PoolInv, Quiet, ButtonIgnored,
     context, pressed, Sent, ButtonKnown, Sending
<1>15. ASSUME LeftIsDelayed PROVE PoolInv'
  BY <1>15 DEF TypeOK, QueueTypes, PoolTypes, PoolInv, Quiet, LeftIsDelayed,
     context, pressed, Sent, ButtonIs, Sending
<1>16. ASSUME RightClicks PROVE PoolInv'
  BY <1>16 DEF TypeOK, QueueTypes, PoolTypes, PoolInv, Quiet, RightClicks,
     context, pressed, Sent, ButtonIs, Sending
<1>17. ASSUME ButtonDown PROVE PoolInv'
  BY <1>17 DEF TypeOK, QueueTypes, PoolTypes, PoolInv, Quiet, ButtonDown,
     context, pressed, Sent, ButtonIs, Sending
<1>18. ASSUME ButtonUp PROVE PoolInv'
  BY <1>18 DEF TypeOK, QueueTypes, PoolTypes, PoolInv, Quiet, ButtonUp,
     context, pressed, Sent, ButtonIs, Sending
<1>19. ASSUME KeyIgnored PROVE PoolInv'
  BY <1>19 DEF TypeOK, QueueTypes, PoolTypes, PoolInv, Quiet, KeyIgnored,
     context, pressed, Sent, Sending
<1>20. ASSUME KeySwallowed PROVE PoolInv'
  BY <1>20 DEF TypeOK, QueueTypes, PoolTypes, PoolInv, Quiet, KeySwallowed,
     context, pressed, Sent, KeyIs, Sending
<1>21. ASSUME KeyDown PROVE PoolInv'
  BY <1>21 DEF TypeOK, QueueTypes, PoolTypes, PoolInv, Quiet, KeyDown,
     context, pressed, Sent, UpdateShortcutFlags, KeyIs, Sending
<1>22. ASSUME KeyUp PROVE PoolInv'
  BY <1>22 DEF TypeOK, QueueTypes, PoolTypes, PoolInv, Quiet, KeyUp,
     context, pressed, Sent, UpdateShortcutFlags, KeyIs, Sending
<1>23. ASSUME NEW a \in Addr, TakeTimer(a) PROVE PoolInv'
  BY <1>23 DEF TypeOK, QueueTypes, PoolTypes, PoolInv, Quiet, TakeTimer,
     context, pressed, Awake
<1>24. ASSUME RepeatKey PROVE PoolInv'
  BY <1>24 DEF TypeOK, QueueTypes, PoolTypes, PoolInv, Quiet, RepeatKey,
     context, pressed, Fired, Fires
<1>25. ASSUME ReleaseLeft PROVE PoolInv'
  BY <1>25 DEF TypeOK, QueueTypes, PoolTypes, PoolInv, Quiet, ReleaseLeft,
     context, pressed, Fired, Fires
<1>26. ASSUME Sleep PROVE PoolInv'
  BY <1>26 DEF TypeOK, QueueTypes, PoolTypes, PoolInv, Quiet, Sleep,
     context, pressed
<1>27. ASSUME PoolStop PROVE PoolInv'
  BY <1>27 DEF TypeOK, QueueTypes, PoolTypes, PoolInv, Quiet, PoolStop,
     context, pressed, Woken
<1>28. ASSUME WorkerExits PROVE PoolInv'
  BY <1>28 DEF TypeOK, QueueTypes, PoolTypes, PoolInv, Quiet, WorkerExits,
     context, pressed
<1> HIDE DEF PoolInv
<1> QED
  BY <1>2, <1>3, <1>4, <1>5, <1>6, <1>7, <1>8, <1>9, <1>10, <1>11, <1>12, 
     <1>13, <1>14, <1>15, <1>16, <1>17, <1>18, <1>19, <1>20, <1>21, 
     <1>22, <1>23, <1>24, <1>25, <1>26, <1>27, <1>28 DEF Next, Send, RunTimer, TakeTask, ResetStep

-----------------------------------------------------------------------------
LEMMA InitInvariant == Init => IInv
<1>1. Init => QueueTypes
  BY InputAssumption, DeviceAssumption DEF Init, QueueTypes
<1>2. Init => HeldTypes
  BY DEF Init, HeldTypes
<1>3. Init => PoolTypes
  BY DEF Init, PoolTypes
<1>4. Init => OsMatches
  BY InputAssumption DEF Init, OsMatches, Tracked, Button
<1>5. Init => RepeatInv /\ IdInv
  BY DEF Init, RepeatInv, IdInv, RepeatNamed, Repeats, RepeatRuns, NoTask
<1>6. Init => LeftOwed
  BY DEF Init, LeftOwed
<1>7. Init => LastInv /\ PoolInv
  BY DEF Init, LastInv, PoolInv, NothingPressed, Quiet
<1> QED
  BY <1>1, <1>2, <1>3, <1>4, <1>5, <1>6, <1>7 DEF IInv, TypeOK

LEMMA NextInvariant == IInv /\ [Next]_vars => IInv'
<1> SUFFICES ASSUME IInv, [Next]_vars PROVE IInv'
  OBVIOUS
<1>1. CASE Next
  <2>1. TypeOK'
    BY <1>1, QueueTypesStep, HeldTypesStep, PoolTypesStep DEF IInv, TypeOK
  <2>2. OsMatches' /\ RepeatInv' /\ IdInv' /\ LeftOwed'
    BY <1>1, OsMatchesStep, RepeatInvStep, IdInvStep, LeftOwedStep DEF IInv
  <2>3. LastInv' /\ PoolInv'
    BY <1>1, LastInvStep, PoolInvStep DEF IInv
  <2> QED
    BY <2>1, <2>2, <2>3 DEF IInv
<1>2. CASE UNCHANGED vars
  <2>1. TypeOK'
    BY <1>2 DEF IInv, TypeOK, QueueTypes, HeldTypes, PoolTypes, vars, context,
           pressed
  <2>2. OsMatches' /\ RepeatInv' /\ IdInv'
    BY <1>2 DEF IInv, OsMatches, RepeatInv, RepeatNamed, IdInv, RepeatRuns,
           Repeats, ResetBegun, vars, context, pressed
  <2>3. LeftOwed' /\ LastInv' /\ PoolInv'
    BY <1>2 DEF IInv, LeftOwed, Owed, LastInv, PoolInv, NothingPressed, Quiet,
           ResetBegun, vars, context, pressed
  <2> QED
    BY <2>1, <2>2, <2>3 DEF IInv
<1> QED
  BY <1>1, <1>2

(* IInv holds of every state the host's input can reach.                    *)
THEOREM Invariant == Spec => []IInv
  BY InitInvariant, NextInvariant, PTL DEF Spec

(* Every variable keeps its type.                                           *)
THEOREM TypeInvariant == Spec => []TypeOK
<1>1. IInv => TypeOK
  BY DEF IInv
<1> QED
  BY <1>1, Invariant, PTL

(* The operating system holds down what the host's tables say, for every    *)
(* key and every button but the left one, whoever pressed, repeated or      *)
(* reset it.                                                                *)
THEOREM SystemMatches == Spec => []OsMatches
<1>1. IInv => OsMatches
  BY DEF IInv
<1> QED
  BY <1>1, Invariant, PTL

(* At most one key repeats, and the host knows which task repeats it.       *)
THEOREM RepetitionNamed == Spec => []RepeatNamed
<1>1. IInv => RepeatNamed
  BY DEF IInv, RepeatInv
<1> QED
  BY <1>1, Invariant, PTL

(* Until a session is reset, a left button that the viewer released will be *)
(* released.                                                                *)
THEOREM ReleaseIsOwed == Spec => []LeftOwed
<1>1. IInv => LeftOwed
  BY DEF IInv
<1> QED
  BY <1>1, Invariant, PTL

(* The worker never sleeps on a queue that is not empty.                    *)
THEOREM WorkerIsWoken == Spec => []NoLostWakeup
<1>1. IInv => NoLostWakeup
  BY DEF IInv, PoolInv, NoLostWakeup
<1> QED
  BY <1>1, Invariant, PTL

(* Once the sessions have gone and the queue is empty, no key is held, also *)
(* after the pool was stopped.                                              *)
THEOREM NoKeyIsStuck == Spec => []KeysReleased
<1>1. IInv => KeysReleased
  <2> SUFFICES ASSUME IInv, AtRest \/ worker = "exited"
               PROVE  os \subseteq {"left", "x2"}
    BY DEF KeysReleased
  <2>1. Quiet /\ tasks = <<>>
    BY DEF IInv, PoolInv, AtRest
  <2>2. NothingPressed
    BY <2>1 DEF IInv, LastInv
  <2>3. os \subseteq Key \cup Button
    BY DEF IInv, TypeOK, HeldTypes
  <2> QED
    BY <2>2, <2>3 DEF IInv, OsMatches, NothingPressed, Tracked, Button
<1> QED
  BY <1>1, Invariant, PTL

-----------------------------------------------------------------------------
(* How many tasks of a kind wait in a queue.                                *)
Places(q, t) == {i \in DOMAIN q : q[i] = t}

LEMMA PlacesAreFinite ==
    ASSUME NEW S, NEW q \in Seq(S), NEW t
    PROVE  IsFiniteSet(Places(q, t)) /\ Cardinality(Places(q, t)) \in Nat
<1>1. IsFiniteSet(1 .. Len(q))
  BY FS_Interval
<1>2. Places(q, t) \in SUBSET (1 .. Len(q))
  BY DEF Places
<1>3. IsFiniteSet(Places(q, t))
  BY <1>1, <1>2, FS_Subset
<1> QED
  BY <1>3, FS_CardinalityType

(* A task that is queued adds a place to its kind alone.                    *)
LEMMA PlacesAppended ==
    ASSUME NEW S, NEW q \in Seq(S), NEW u \in S, NEW t
    PROVE  Cardinality(Places(Append(q, u), t)) =
               Cardinality(Places(q, t)) + (IF u = t THEN 1 ELSE 0)
<1>1. /\ DOMAIN Append(q, u) = 1 .. Len(q) + 1
      /\ DOMAIN q = 1 .. Len(q)
      /\ \A i \in 1 .. Len(q) : Append(q, u)[i] = q[i]
      /\ Append(q, u)[Len(q) + 1] = u
      /\ Len(q) \in Nat
  OBVIOUS
<1>2. Places(Append(q, u), t) =
          IF u = t THEN Places(q, t) \cup {Len(q) + 1} ELSE Places(q, t)
  BY <1>1 DEF Places
<1>3. Len(q) + 1 \notin Places(q, t)
  BY <1>1 DEF Places
<1>4. IsFiniteSet(Places(q, t)) /\ Cardinality(Places(q, t)) \in Nat
  BY PlacesAreFinite
<1>5. Cardinality(Places(q, t) \cup {Len(q) + 1}) =
          Cardinality(Places(q, t)) + 1
  BY <1>3, <1>4, FS_AddElement
<1> QED
  BY <1>2, <1>4, <1>5

(* The task that is taken frees a place of its kind alone.                  *)
LEMMA PlacesTaken ==
    ASSUME NEW S, NEW q \in Seq(S), q # <<>>, NEW t
    PROVE  Cardinality(Places(Tail(q), t)) =
               Cardinality(Places(q, t)) - (IF Head(q) = t THEN 1 ELSE 0)
<1>1. /\ Len(q) \in Nat \ {0}
      /\ DOMAIN q = 1 .. Len(q)
      /\ Tail(q) \in Seq(S)
      /\ DOMAIN Tail(q) = 1 .. Len(q) - 1
      /\ \A i \in 1 .. Len(q) - 1 : Tail(q)[i] = q[i + 1]
      /\ Head(q) = q[1]
  BY HeadTailProperties, EmptySeq, LenProperties
<1>2. ExistsBijection(Places(Tail(q), t), Places(q, t) \ {1})
  <2> DEFINE A == Places(Tail(q), t)
             B == Places(q, t) \ {1}
             f == [i \in A |-> i + 1]
  <2>1. f \in [A -> B]
    BY <1>1 DEF Places
  <2>2. \A i, j \in A : f[i] = f[j] => i = j
    BY <1>1 DEF Places
  <2>3. \A k \in B : \E i \in A : f[i] = k
    <3>1. SUFFICES ASSUME NEW k \in B PROVE k - 1 \in A /\ f[k - 1] = k
      OBVIOUS
    <3> QED
      BY <1>1 DEF Places
  <2> HIDE DEF A, B, f
  <2>4. f \in Bijection(A, B)
    BY <2>1, <2>2, <2>3 DEF Bijection, Injection, IsInjective, Surjection
  <2>5. ExistsBijection(A, B)
    BY <2>4 DEF ExistsBijection
  <2> QED
    BY <2>5 DEF A, B
<1>3. /\ IsFiniteSet(Places(q, t)) /\ Cardinality(Places(q, t)) \in Nat
      /\ IsFiniteSet(Places(Tail(q), t))
  BY <1>1, PlacesAreFinite
<1>4. Cardinality(Places(Tail(q), t)) = Cardinality(Places(q, t) \ {1})
  BY <1>2, <1>3, FS_Bijection
<1>5. 1 \in Places(q, t) <=> Head(q) = t
  BY <1>1 DEF Places
<1>6. Cardinality(Places(q, t) \ {1}) =
          IF 1 \in Places(q, t) THEN Cardinality(Places(q, t)) - 1
                                ELSE Cardinality(Places(q, t))
  BY <1>3, FS_RemoveElement
<1> QED
  BY <1>3, <1>4, <1>5, <1>6

(* What a step does to a session's queue and to the tasks of that session.  *)
LEMMA QueueServedStep ==
    ASSUME TypeOK, QueueServed, Next
    PROVE  QueueServed'
<1> DEFINE Coming(s) == Cardinality(Places(tasks, Next_message(s)))
           Same == UNCHANGED <<input_queue, tasks>>
<1> USE DEF TypeOK
<1>1. /\ \A s \in Session : Len(input_queue[s]) <= Coming(s)
      /\ input_queue \in [Session -> Seq(Message)] /\ tasks \in Seq(Queued)
  BY DEF QueueServed, QueueTypes, PoolTypes, Places
<1>2. SUFFICES ASSUME NEW s \in Session
               PROVE  Len(input_queue'[s]) <= Coming(s)'
  BY DEF QueueServed, Places
<1>3. Coming(s) \in Nat /\ Len(input_queue[s]) \in Nat
  BY <1>1, PlacesAreFinite
<1>4. \A t : Coming(t) = Cardinality(Places(tasks, Next_message(t)))
  OBVIOUS
<1> HIDE DEF Coming
<1>5. Same => Len(input_queue'[s]) <= Coming(s)'
  BY <1>1, <1>4 DEF Coming
<1>6. ASSUME NEW u \in Queued, tasks' = Append(tasks, u)
      PROVE  Coming(s)' = Coming(s) + (IF u = Next_message(s) THEN 1 ELSE 0)
  BY <1>1, <1>6, PlacesAppended DEF Coming
<1>7. ASSUME tasks # <<>>, tasks' = Tail(tasks)
      PROVE  Coming(s)' =
                 Coming(s) - (IF Head(tasks) = Next_message(s) THEN 1 ELSE 0)
  BY <1>1, <1>7, PlacesTaken DEF Coming
<1>8. ASSUME NEW t \in Session, NEW m \in device, Passthrough(t, m)
      PROVE  Len(input_queue'[s]) <= Coming(s)'
  <2>1. Next_message(t) \in Queued /\ tasks' = Append(tasks, Next_message(t))
    BY <1>8 DEF Passthrough, Push, Queued
  <2>2. m \in Message
    BY DEF QueueTypes
  <2>3. CASE t = s
    <3>1. Len(input_queue'[s]) = Len(input_queue[s]) + 1
      BY <1>1, <1>8, <2>2, <2>3 DEF Passthrough
    <3> QED
      BY <1>1, <1>3, <1>6, <2>1, <2>3, <3>1
  <2>4. CASE t # s
    <3>1. input_queue'[s] = input_queue[s]
      BY <1>1, <1>8, <2>4 DEF Passthrough
    <3>2. Next_message(t) # Next_message(s)
      BY <2>4 DEF Next_message
    <3> QED
      BY <1>1, <1>3, <1>6, <2>1, <3>1, <3>2
  <2> QED
    BY <2>3, <2>4
<1>9. ASSUME NEW t \in Session, ResetQueues(t)
      PROVE  Len(input_queue'[s]) <= Coming(s)'
  <2>1. /\ Reset \in Queued /\ Reset # Next_message(s)
        /\ tasks' = Append(tasks, Reset) /\ input_queue' = input_queue
    BY <1>9 DEF ResetQueues, Advance, Push, Queued, Reset, Next_message
  <2> QED
    BY <1>1, <1>3, <1>6, <2>1
<1>10. ASSUME NEW t \in Session, TakeMessage(t)
       PROVE  Len(input_queue'[s]) <= Coming(s)'
  <2>1. tasks # <<>> /\ tasks' = Tail(tasks) /\ Head(tasks) = Next_message(t)
    BY <1>10 DEF TakeMessage
  <2>2. CASE t = s
    <3>1. Coming(s)' = Coming(s) - 1
      BY <1>7, <2>1, <2>2
    <3>2. CASE input_queue[s] = <<>>
      <4>1. Coming(s)' \in Nat
        <5>1. tasks' \in Seq(Queued)
          BY <1>1, <2>1
        <5> QED
          BY <5>1, PlacesAreFinite DEF Coming
      <4>2. Len(input_queue'[s]) = 0
        BY <1>10, <2>2, <3>2 DEF TakeMessage
      <4> QED
        BY <4>1, <4>2
    <3>3. CASE input_queue[s] # <<>>
      <4>1. Len(input_queue'[s]) = Len(input_queue[s]) - 1
        BY <1>1, <1>10, <2>2, <3>3 DEF TakeMessage
      <4> QED
        BY <1>1, <1>3, <3>1, <4>1
    <3> QED
      BY <3>2, <3>3
  <2>3. CASE t # s
    <3>1. input_queue'[s] = input_queue[s]
      BY <1>1, <1>10, <2>3 DEF TakeMessage
    <3>2. Next_message(t) # Next_message(s)
      BY <2>3 DEF Next_message
    <3> QED
      BY <1>1, <1>3, <1>7, <2>1, <3>1, <3>2
  <2> QED
    BY <2>2, <2>3
<1>11. ASSUME RunReset PROVE Len(input_queue'[s]) <= Coming(s)'
  <2>1. /\ tasks # <<>> /\ tasks' = Tail(tasks)
        /\ Head(tasks) # Next_message(s) /\ input_queue' = input_queue
    BY <1>11 DEF RunReset, Reset, Next_message, context
  <2> QED
    BY <1>1, <1>3, <1>7, <2>1
<1>12. ASSUME Batch PROVE Len(input_queue'[s]) <= Coming(s)'
  <2>1. entry.session \in Session /\ tasks' = tasks
    BY <1>12 DEF Batch, PoolTypes
  <2>2. Coming(s)' = Coming(s)
    BY <2>1 DEF Coming
  <2>3. Len(input_queue'[s]) <= Len(input_queue[s])
    <3>1. CASE entry.session = s
      BY <1>1, <1>12, <3>1 DEF Batch, GoesOn, Queue
    <3>2. CASE entry.session # s
      BY <1>1, <1>12, <3>2, <1>3 DEF Batch
    <3> QED
      BY <3>1, <3>2
  <2>4. Len(input_queue'[s]) \in Nat
    BY <1>1, <1>12, <2>1 DEF Batch, GoesOn, Queue
  <2> QED
    BY <1>1, <1>3, <2>2, <2>3, <2>4
<1>13. ASSUME Send \/ RunTimer \/ BatchEnds PROVE Same
  BY <1>13 DEF Send, SendMotion, ButtonIgnored, LeftIsDelayed, RightClicks,
     ButtonDown, ButtonUp, KeyIgnored, KeySwallowed, KeyDown, KeyUp, RunTimer,
     RepeatKey, ReleaseLeft, BatchEnds, context
<1>14. ASSUME \/ \E t \in Session : Alloc(t) \/ ControlEnds(t)
              \/ \E t \in Session : \/ ResetReadsRepeat(t)
                                    \/ ResetCancelsRepeat(t)
                                    \/ ResetReadsLeft(t)
              \/ \E a \in Addr : TakeTimer(a)
              \/ Sleep \/ PoolStop \/ WorkerExits
       PROVE  Same
  BY <1>14 DEF Alloc, ControlEnds, ResetReadsRepeat, ResetCancelsRepeat,
     ResetReadsLeft, Advance, TakeTimer, Sleep, PoolStop, WorkerExits, context
<1> HIDE DEF Same
<1> QED
  BY <1>5, <1>8, <1>9, <1>10, <1>11, <1>12, <1>13, <1>14
     DEF Next, ResetStep, TakeTask

(* Every message in a queue has a task that will come for it, however much  *)
(* batching takes before that: the worker never has to look at a queue that *)
(* no task names.                                                           *)
THEOREM MessagesAreServed == Spec => []QueueServed
<1>1. Init => QueueServed
  <2> SUFFICES ASSUME Init, NEW s \in Session
               PROVE  Len(input_queue[s]) <=
                          Cardinality(Places(tasks, Next_message(s)))
    BY DEF QueueServed, Places
  <2>1. Cardinality(Places(<<>>, Next_message(s))) \in Nat
    <3>1. <<>> \in Seq(Queued)
      OBVIOUS
    <3> QED
      BY <3>1, PlacesAreFinite
  <2> QED
    BY <2>1 DEF Init
<1>2. TypeOK /\ QueueServed /\ [Next]_vars => QueueServed'
  BY QueueServedStep DEF QueueServed, vars, context
<1> QED
  BY <1>1, <1>2, TypeInvariant, PTL DEF Spec

(* While the worker sleeps, and after it has left, no viewer's message is   *)
(* left in any queue: what was sent before a session ended was passed on.   *)
THEOREM NothingIsStranded == Spec => []NothingStranded
<1>1. IInv /\ QueueServed => NothingStranded
  <2> SUFFICES ASSUME IInv, QueueServed, worker \in {"asleep", "exited"},
                      NEW s \in Session
               PROVE  input_queue[s] = <<>>
    BY DEF NothingStranded
  <2>1. tasks = <<>>
    BY DEF IInv, PoolInv
  <2>2. {i \in DOMAIN tasks : tasks[i] = Next_message(s)} = {}
    BY <2>1
  <2>3. Len(input_queue[s]) <= 0
    BY <2>2, FS_EmptySet DEF QueueServed
  <2>4. input_queue[s] \in Seq(Message)
    BY DEF IInv, TypeOK, QueueTypes
  <2> QED
    BY <2>3, <2>4
<1> QED
  BY <1>1, Invariant, MessagesAreServed, PTL

(* No move passes a button or a key on its way through the queue.           *)
THEOREM OrderKept == Spec => BatchKeepsOrder
<1>1. IInv /\ [Next]_vars => [OrderedBatch]_vars
  <2> SUFFICES ASSUME IInv, Next,
                      NEW s \in Session, worker = "batch", entry.session = s,
                      input_queue'[s] # input_queue[s]
               PROVE  /\ Head(Queue).type = entry.msg.type
                      /\ input_queue'[s] = Tail(input_queue[s])
    BY DEF OrderedBatch
  <2> DEFINE Same == UNCHANGED input_queue
  <2>1. ~Same
    OBVIOUS
  <2>2. input_queue \in [Session -> Seq(Message)]
    BY DEF IInv, TypeOK, QueueTypes
  <2>3. CASE Batch
    BY <2>2, <2>3 DEF Batch, GoesOn, Batchable, Queue
  <2>4. ASSUME NEW t \in Session, NEW m \in device, Passthrough(t, m)
        PROVE  FALSE
    BY <2>2, <2>4 DEF Passthrough, Locked
  <2>5. ASSUME NEW t \in Session, TakeMessage(t) PROVE FALSE
    BY <2>5 DEF TakeMessage, Awake
  <2>6. ASSUME TakeTask \/ Send \/ RunTimer \/ BatchEnds PROVE Same
    BY <2>5, <2>6 DEF TakeTask, RunReset, Send, SendMotion, ButtonIgnored,
       LeftIsDelayed, RightClicks, ButtonDown, ButtonUp, KeyIgnored,
       KeySwallowed, KeyDown, KeyUp, RunTimer, RepeatKey, ReleaseLeft,
       BatchEnds, context
  <2>7. ASSUME \/ \E t \in Session : Alloc(t) \/ ControlEnds(t) \/ ResetStep(t)
               \/ \E a \in Addr : TakeTimer(a)
               \/ Sleep \/ PoolStop \/ WorkerExits
        PROVE  Same
    BY <2>7 DEF Alloc, ControlEnds, ResetStep, ResetReadsRepeat,
       ResetCancelsRepeat, ResetReadsLeft, ResetQueues, Advance, TakeTimer,
       Sleep, PoolStop, WorkerExits, context
  <2> HIDE DEF Same
  <2> QED
    BY <2>1, <2>3, <2>4, <2>6, <2>7 DEF Next
<1> QED
  BY <1>1, Invariant, PTL DEF Spec, BatchKeepsOrder
=============================================================================
