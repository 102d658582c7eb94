------------------------- MODULE VideoCapture_proofs -------------------------
(***************************************************************************)
(* Theorems about VideoCapture, for any finite set of streams.             *)
(*                                                                         *)
(* That no stream is left to wait for a capture thread that has ended      *)
(* rests on where its context is: every stream that got past the second    *)
(* look at the queue and whose event runs is in the queue or in the list   *)
(* of the thread.  A new thread empties both, so no stream may be past     *)
(* that point when one is started: the counter must be exact, and the      *)
(* mutex of the shared context be held until the old thread is joined.     *)
(***************************************************************************)
EXTENDS VideoCapture, FiniteSetTheorems, TLAPS

\* The contexts the capture thread can find.
Known == capture_ctx_queue \cup capture_ctxs

CountIsExact == count = Cardinality(Holders)

\* Under the mutex nobody else holds a reference, and otherwise the thread
\* only runs for a holder.
Referenced ==
    /\ Held => count = 0
    /\ capture # "none" => count # 0 \/ Held

QueueStopped == capture \in {"none", "unlisten", "exited"} => ~queue_running
FirstIsEmpty == capture = "first" => capture_ctxs = {}

RaisedIsKnown ==
    \A s \in Session :
        thread[s] = "check" /\ queue_running /\ images_running[s] => s \in Known
ListenerIsKnown ==
    \A s \in Session : Listening(s) /\ images_running[s] => s \in Known

IInv ==
    /\ TypeOK
    /\ CountIsExact
    /\ Referenced
    /\ QueueStopped
    /\ FirstIsEmpty
    /\ RaisedIsKnown
    /\ ListenerIsKnown
    /\ NoOrphan
-----------------------------------------------------------------------------
(* The counter. *)

(* The streams that hold a reference are finitely many, and the counter is   *)
(* not zero when there is one.                                              *)
LEMMA Counted ==
    ASSUME TypeOK, CountIsExact
    PROVE  /\ IsFiniteSet(Holders)
           /\ count = 0 <=> Holders = {}
<1>1. IsFiniteSet(Holders)
  BY SessionAssumption, FS_Subset DEF Holders
<1> QED BY <1>1, FS_EmptySet DEF CountIsExact

(* A move of one stream, as a change of that set.                           *)
LEMMA HoldersMoved ==
    ASSUME TypeOK, NEW s \in Session, NEW from, NEW to \in Threads,
           Move(s, from, to)
    PROVE  Holders' = IF to \in Referring THEN Holders \cup {s}
                                           ELSE Holders \ {s}
<1>1. \A t \in Session : thread'[t] = IF t = s THEN to ELSE thread[t]
  BY DEF Move, TypeOK
<1> QED BY <1>1 DEF Holders

(* Types. *)

LEMMA TypePreserved ==
    ASSUME TypeOK, CountIsExact, Next
    PROVE  TypeOK'
<1> USE DEF TypeOK, Threads, Captures, Displays,
           borrowVars, eventVars, queueVars, displayVars, waitVars
<1>1. ASSUME NEW s \in Session, Ref(s)
      PROVE  TypeOK'
  <2>1. thread' \in [Session -> Threads] /\ count' \in Nat
    BY <1>1 DEF Ref, Move
  <2>2. /\ capture' \in Captures /\ queue_running' \in BOOLEAN
        /\ capture_ctx_queue' \subseteq Session
        /\ capture_ctxs' \subseteq Session
        /\ display_wp' \in BOOLEAN /\ reinit_event' \in BOOLEAN
    <3>1. CASE count = 0 BY <1>1, <3>1 DEF Ref
    <3>2. CASE count # 0 BY <1>1, <3>2 DEF Ref
    <3> QED BY <3>1, <3>2
  <2> QED BY <1>1, <2>1, <2>2 DEF Ref
<1>2. ASSUME NEW s \in Session, Raise(s)
      PROVE  TypeOK'
  BY <1>2 DEF Raise, Move
<1>3. ASSUME NEW s \in Session, Check(s)
      PROVE  TypeOK'
  BY <1>3 DEF Check, Move
<1>4. ASSUME NEW s \in Session, Loop(s)
      PROVE  TypeOK'
  BY <1>4 DEF Loop, Move
<1>5. ASSUME NEW s \in Session, Lock(s)
      PROVE  TypeOK'
  BY <1>5 DEF Lock, Move
<1>6. ASSUME NEW s \in Session, MakeEncoder(s)
      PROVE  TypeOK'
  BY <1>6 DEF MakeEncoder, Move
<1>7. ASSUME NEW s \in Session, Encode(s)
      PROVE  TypeOK'
  <2>1. CASE LeaveEncoder(s, "encode")
    BY <2>1 DEF LeaveEncoder, Move
  <2>2. CASE ~LeaveEncoder(s, "encode")
    BY <1>7, <2>2 DEF Encode, Move
  <2> QED BY <2>1, <2>2
<1>8. ASSUME NEW s \in Session, Image(s)
      PROVE  TypeOK'
  <2>1. CASE LeaveEncoder(s, "image")
    BY <2>1 DEF LeaveEncoder, Move
  <2>2. CASE ~LeaveEncoder(s, "image")
    BY <1>8, <2>2 DEF Image, Move
  <2> QED BY <2>1, <2>2
<1>9. ASSUME NEW s \in Session, Release(s)
      PROVE  TypeOK'
  <2>1. s \in Holders
    BY <1>9 DEF Release, Move, Holders, Referring
  <2>2. count' \in Nat
    BY <1>9, <2>1, Counted DEF Release
  <2>3. thread' \in [Session -> Threads]
    BY <1>9 DEF Release, Move
  <2> QED BY <1>9, <2>2, <2>3 DEF Release
<1>10. ASSUME NEW s \in Session, Join(s)
      PROVE  TypeOK'
  BY <1>10 DEF Join, Move
<1>11. ASSUME NEW s \in Session, Stop(s)
      PROVE  TypeOK'
  BY <1>11 DEF Stop, Move
<1>12. ASSUME NEW s \in Session, Shutdown(s)
      PROVE  TypeOK'
  BY <1>12 DEF Shutdown
<1>13. CASE FirstContext
  BY <1>13 DEF FirstContext, Goto, Return
<1>14. CASE Open
  BY <1>14 DEF Open, Goto, Return
<1>15. CASE Interrupted
  BY <1>15 DEF Interrupted, Goto, Return
<1>16. CASE Push
  BY <1>16 DEF Push, Goto, Return
<1>17. CASE Peek
  BY <1>17 DEF Peek, Goto
<1>18. CASE PopContext
  BY <1>18 DEF PopContext, Goto
<1>19. CASE Wait
  BY <1>19 DEF Wait, Goto
<1>20. CASE Sweep
  BY <1>20 DEF Sweep, Goto
<1>21. CASE Pop
  BY <1>21 DEF Pop, Goto
<1>22. CASE Renew
  BY <1>22 DEF Renew, Goto, Return
<1>23. CASE Reopen
  BY <1>23 DEF Reopen, Goto
<1>24. CASE Publish
  BY <1>24 DEF Publish, Goto, Aged
<1>25. CASE Resume
  BY <1>25 DEF Resume, Goto, Return
<1>26. CASE StopQueue
  BY <1>26 DEF StopQueue, Goto
<1>27. CASE StopListeners
  BY <1>27 DEF StopListeners, Goto
<1>28. CASE TornDown
  BY <1>28 DEF TornDown
<1> HIDE DEF TypeOK, Threads, Captures, Displays,
           borrowVars, eventVars, queueVars, displayVars, waitVars
<1> QED
  BY <1>1, <1>2, <1>3, <1>4, <1>5, <1>6, <1>7, <1>8, <1>9, <1>10, <1>11, <1>12, <1>13, <1>14, <1>15, <1>16, <1>17, <1>18, <1>19, <1>20, <1>21, <1>22, <1>23, <1>24, <1>25, <1>26, <1>27, <1>28
     DEF Next, StreamStep, CaptureStep

(* Only the first and the last place of a video thread change who holds a   *)
(* reference.                                                               *)
LEMMA CountPreserved ==
    ASSUME TypeOK, CountIsExact, Next
    PROVE  CountIsExact'
<1> USE DEF borrowVars, eventVars, queueVars, displayVars, waitVars
<1>1. ASSUME NEW s \in Session, Ref(s)
      PROVE  CountIsExact'
  <2>1. Move(s, "idle", "raise") /\ count' = count + 1
    BY <1>1 DEF Ref
  <2>2. Holders' = Holders \cup {s} /\ s \notin Holders
    BY <2>1, HoldersMoved DEF Holders, Referring, Threads, Move
  <2>3. Cardinality(Holders') = Cardinality(Holders) + 1
    BY <2>2, Counted, FS_AddElement
  <2> QED BY <2>1, <2>3 DEF CountIsExact
<1>2. ASSUME NEW s \in Session, Raise(s)
      PROVE  CountIsExact'
  <2>1. Holders' = Holders /\ count' = count
    BY <1>2 DEF Raise, Move, Holders, Referring
  <2> QED BY <2>1 DEF CountIsExact
<1>3. ASSUME NEW s \in Session, Check(s)
      PROVE  CountIsExact'
  <2>1. Holders' = Holders /\ count' = count
    BY <1>3 DEF Check, Move, Holders, Referring
  <2> QED BY <2>1 DEF CountIsExact
<1>4. ASSUME NEW s \in Session, Loop(s)
      PROVE  CountIsExact'
  <2>1. PICK from \in Referring, to \in Referring : Move(s, from, to)
    BY <1>4 DEF Loop, Referring
  <2>2. count' = count
    BY <1>4 DEF Loop, Move
  <2>3. Holders' = Holders
    BY <2>1, HoldersMoved DEF Holders, Referring, Threads, Move
  <2> QED BY <2>2, <2>3 DEF CountIsExact
<1>5. ASSUME NEW s \in Session, Lock(s)
      PROVE  CountIsExact'
  <2>1. PICK from \in Referring, to \in Referring : Move(s, from, to)
    BY <1>5 DEF Lock, Referring
  <2>2. count' = count
    BY <1>5 DEF Lock, Move
  <2>3. Holders' = Holders
    BY <2>1, HoldersMoved DEF Holders, Referring, Threads, Move
  <2> QED BY <2>2, <2>3 DEF CountIsExact
<1>6. ASSUME NEW s \in Session, MakeEncoder(s)
      PROVE  CountIsExact'
  <2>1. PICK from \in Referring, to \in Referring : Move(s, from, to)
    BY <1>6 DEF MakeEncoder, Referring
  <2>2. count' = count
    BY <1>6 DEF MakeEncoder, Move
  <2>3. Holders' = Holders
    BY <2>1, HoldersMoved DEF Holders, Referring, Threads, Move
  <2> QED BY <2>2, <2>3 DEF CountIsExact
<1>7. ASSUME NEW s \in Session, Encode(s)
      PROVE  CountIsExact'
  <2>1. PICK from \in Referring, to \in Referring : Move(s, from, to)
    BY <1>7 DEF Encode, LeaveEncoder, Referring
  <2>2. count' = count
    BY <1>7 DEF Encode, LeaveEncoder, Move
  <2>3. Holders' = Holders
    BY <2>1, HoldersMoved DEF Holders, Referring, Threads, Move
  <2> QED BY <2>2, <2>3 DEF CountIsExact
<1>8. ASSUME NEW s \in Session, Image(s)
      PROVE  CountIsExact'
  <2>1. PICK from \in Referring, to \in Referring : Move(s, from, to)
    BY <1>8 DEF Image, LeaveEncoder, Referring
  <2>2. count' = count
    BY <1>8 DEF Image, LeaveEncoder, Move
  <2>3. Holders' = Holders
    BY <2>1, HoldersMoved DEF Holders, Referring, Threads, Move
  <2> QED BY <2>2, <2>3 DEF CountIsExact
<1>9. ASSUME NEW s \in Session, Release(s)
      PROVE  CountIsExact'
  <2>1. PICK to \in {"join", "stop"} : Move(s, "release", to)
    BY <1>9 DEF Release
  <2>2. Holders' = Holders \ {s} /\ s \in Holders /\ count' = count - 1
    BY <1>9, <2>1, HoldersMoved DEF Holders, Referring, Threads, Move, Release
  <2>3. Cardinality(Holders') = Cardinality(Holders) - 1
    BY <2>2, Counted, FS_RemoveElement
  <2> QED BY <2>2, <2>3 DEF CountIsExact
<1>10. ASSUME NEW s \in Session, Join(s)
      PROVE  CountIsExact'
  <2>1. Holders' = Holders /\ count' = count
    BY <1>10 DEF Join, Move, Holders, Referring
  <2> QED BY <2>1 DEF CountIsExact
<1>11. ASSUME NEW s \in Session, Stop(s)
      PROVE  CountIsExact'
  <2>1. Holders' = Holders /\ count' = count
    BY <1>11 DEF Stop, Move, Holders, Referring
  <2> QED BY <2>1 DEF CountIsExact
<1>12. ASSUME NEW s \in Session, Shutdown(s)
      PROVE  CountIsExact'
  <2>1. Holders' = Holders /\ count' = count
    BY <1>12 DEF Shutdown, Holders, Referring
  <2> QED BY <2>1 DEF CountIsExact
<1>13. CASE FirstContext
  <2>1. Holders' = Holders /\ count' = count
    BY <1>13 DEF FirstContext, Goto, Return, Holders, Referring
  <2> QED BY <2>1 DEF CountIsExact
<1>14. CASE Open
  <2>1. Holders' = Holders /\ count' = count
    BY <1>14 DEF Open, Goto, Return, Holders, Referring
  <2> QED BY <2>1 DEF CountIsExact
<1>15. CASE Interrupted
  <2>1. Holders' = Holders /\ count' = count
    BY <1>15 DEF Interrupted, Goto, Return, Holders, Referring
  <2> QED BY <2>1 DEF CountIsExact
<1>16. CASE Push
  <2>1. Holders' = Holders /\ count' = count
    BY <1>16 DEF Push, Goto, Return, Holders, Referring
  <2> QED BY <2>1 DEF CountIsExact
<1>17. CASE Peek
  <2>1. Holders' = Holders /\ count' = count
    BY <1>17 DEF Peek, Goto, Holders, Referring
  <2> QED BY <2>1 DEF CountIsExact
<1>18. CASE PopContext
  <2>1. Holders' = Holders /\ count' = count
    BY <1>18 DEF PopContext, Goto, Holders, Referring
  <2> QED BY <2>1 DEF CountIsExact
<1>19. CASE Wait
  <2>1. Holders' = Holders /\ count' = count
    BY <1>19 DEF Wait, Goto, Holders, Referring
  <2> QED BY <2>1 DEF CountIsExact
<1>20. CASE Sweep
  <2>1. Holders' = Holders /\ count' = count
    BY <1>20 DEF Sweep, Goto, Holders, Referring
  <2> QED BY <2>1 DEF CountIsExact
<1>21. CASE Pop
  <2>1. Holders' = Holders /\ count' = count
    BY <1>21 DEF Pop, Goto, Holders, Referring
  <2> QED BY <2>1 DEF CountIsExact
<1>22. CASE Renew
  <2>1. Holders' = Holders /\ count' = count
    BY <1>22 DEF Renew, Goto, Return, Holders, Referring
  <2> QED BY <2>1 DEF CountIsExact
<1>23. CASE Reopen
  <2>1. Holders' = Holders /\ count' = count
    BY <1>23 DEF Reopen, Goto, Holders, Referring
  <2> QED BY <2>1 DEF CountIsExact
<1>24. CASE Publish
  <2>1. Holders' = Holders /\ count' = count
    BY <1>24 DEF Publish, Goto, Aged, Holders, Referring
  <2> QED BY <2>1 DEF CountIsExact
<1>25. CASE Resume
  <2>1. Holders' = Holders /\ count' = count
    BY <1>25 DEF Resume, Goto, Return, Holders, Referring
  <2> QED BY <2>1 DEF CountIsExact
<1>26. CASE StopQueue
  <2>1. Holders' = Holders /\ count' = count
    BY <1>26 DEF StopQueue, Goto, Holders, Referring
  <2> QED BY <2>1 DEF CountIsExact
<1>27. CASE StopListeners
  <2>1. Holders' = Holders /\ count' = count
    BY <1>27 DEF StopListeners, Goto, Holders, Referring
  <2> QED BY <2>1 DEF CountIsExact
<1>28. CASE TornDown
  <2>1. Holders' = Holders /\ count' = count
    BY <1>28 DEF TornDown, Holders, Referring
  <2> QED BY <2>1 DEF CountIsExact
<1> HIDE DEF borrowVars, eventVars, queueVars, displayVars, waitVars
<1> QED
  BY <1>1, <1>2, <1>3, <1>4, <1>5, <1>6, <1>7, <1>8, <1>9, <1>10, <1>11, <1>12, <1>13, <1>14, <1>15, <1>16, <1>17, <1>18, <1>19, <1>20, <1>21, <1>22, <1>23, <1>24, <1>25, <1>26, <1>27, <1>28
     DEF Next, StreamStep, CaptureStep

(* The capture thread runs for somebody, and a queue that was stopped stays  *)
(* so until there is a new thread.                                          *)
LEMMA ThreadPreserved ==
    ASSUME TypeOK, Referenced, QueueStopped, FirstIsEmpty, Next
    PROVE  Referenced' /\ QueueStopped' /\ FirstIsEmpty'
<1> USE DEF Referenced, QueueStopped, FirstIsEmpty, Held, TypeOK,
           borrowVars, eventVars, queueVars, displayVars, waitVars
<1>1. ASSUME NEW s \in Session, Ref(s)
      PROVE  Referenced' /\ QueueStopped' /\ FirstIsEmpty'
  BY <1>1 DEF Ref, Move
<1>2. ASSUME NEW s \in Session, Raise(s)
      PROVE  Referenced' /\ QueueStopped' /\ FirstIsEmpty'
  BY <1>2 DEF Raise, Move
<1>3. ASSUME NEW s \in Session, Check(s)
      PROVE  Referenced' /\ QueueStopped' /\ FirstIsEmpty'
  BY <1>3 DEF Check, Move
<1>4. ASSUME NEW s \in Session, Loop(s)
      PROVE  Referenced' /\ QueueStopped' /\ FirstIsEmpty'
  BY <1>4 DEF Loop, Move
<1>5. ASSUME NEW s \in Session, Lock(s)
      PROVE  Referenced' /\ QueueStopped' /\ FirstIsEmpty'
  BY <1>5 DEF Lock, Move
<1>6. ASSUME NEW s \in Session, MakeEncoder(s)
      PROVE  Referenced' /\ QueueStopped' /\ FirstIsEmpty'
  BY <1>6 DEF MakeEncoder, Move
<1>7. ASSUME NEW s \in Session, Encode(s)
      PROVE  Referenced' /\ QueueStopped' /\ FirstIsEmpty'
  BY <1>7 DEF Encode, LeaveEncoder, Move
<1>8. ASSUME NEW s \in Session, Image(s)
      PROVE  Referenced' /\ QueueStopped' /\ FirstIsEmpty'
  BY <1>8 DEF Image, LeaveEncoder, Move
<1>9. ASSUME NEW s \in Session, Release(s)
      PROVE  Referenced' /\ QueueStopped' /\ FirstIsEmpty'
  BY <1>9 DEF Release, Move
<1>10. ASSUME NEW s \in Session, Join(s)
      PROVE  Referenced' /\ QueueStopped' /\ FirstIsEmpty'
  BY <1>10 DEF Join, Move
<1>11. ASSUME NEW s \in Session, Stop(s)
      PROVE  Referenced' /\ QueueStopped' /\ FirstIsEmpty'
  BY <1>11 DEF Stop, Move
<1>12. ASSUME NEW s \in Session, Shutdown(s)
      PROVE  Referenced' /\ QueueStopped' /\ FirstIsEmpty'
  BY <1>12 DEF Shutdown
<1>13. CASE FirstContext
  BY <1>13 DEF FirstContext, Goto, Return
<1>14. CASE Open
  BY <1>14 DEF Open, Goto, Return
<1>15. CASE Interrupted
  BY <1>15 DEF Interrupted, Goto, Return
<1>16. CASE Push
  BY <1>16 DEF Push, Goto, Return
<1>17. CASE Peek
  BY <1>17 DEF Peek, Goto
<1>18. CASE PopContext
  BY <1>18 DEF PopContext, Goto
<1>19. CASE Wait
  BY <1>19 DEF Wait, Goto
<1>20. CASE Sweep
  BY <1>20 DEF Sweep, Goto
<1>21. CASE Pop
  BY <1>21 DEF Pop, Goto
<1>22. CASE Renew
  BY <1>22 DEF Renew, Goto, Return
<1>23. CASE Reopen
  BY <1>23 DEF Reopen, Goto
<1>24. CASE Publish
  BY <1>24 DEF Publish, Goto, Aged
<1>25. CASE Resume
  BY <1>25 DEF Resume, Goto, Return
<1>26. CASE StopQueue
  BY <1>26 DEF StopQueue, Goto
<1>27. CASE StopListeners
  BY <1>27 DEF StopListeners, Goto
<1>28. CASE TornDown
  BY <1>28 DEF TornDown
<1> HIDE DEF Referenced, QueueStopped, FirstIsEmpty, Held, TypeOK,
           borrowVars, eventVars, queueVars, displayVars, waitVars
<1> QED
  BY <1>1, <1>2, <1>3, <1>4, <1>5, <1>6, <1>7, <1>8, <1>9, <1>10, <1>11, <1>12, <1>13, <1>14, <1>15, <1>16, <1>17, <1>18, <1>19, <1>20, <1>21, <1>22, <1>23, <1>24, <1>25, <1>26, <1>27, <1>28
     DEF Next, StreamStep, CaptureStep

(* Where the contexts are.                                                  *)
LEMMA ContextsPreserved ==
    ASSUME IInv, Next
    PROVE  RaisedIsKnown' /\ ListenerIsKnown' /\ NoOrphan'
<1> USE DEF IInv, RaisedIsKnown, ListenerIsKnown, NoOrphan, Listening, Known,
           QueueStopped, FirstIsEmpty, TypeOK, borrowVars, eventVars, queueVars, displayVars, waitVars
<1>1. ASSUME NEW s \in Session, Ref(s)
      PROVE  RaisedIsKnown' /\ ListenerIsKnown' /\ NoOrphan'
  <2>1. \A t \in Session : t # s => thread'[t] = thread[t]
    BY <1>1 DEF Ref, Move
  <2>2. thread'[s] = "raise"
    BY <1>1 DEF Ref, Move
  <2>3. CASE count = 0
    <3>1. \A t \in Session : thread[t] \notin Referring
      BY <2>3, Counted DEF Holders
    <3> QED BY <1>1, <2>1, <2>2, <2>3, <3>1 DEF Ref, Referring
  <2>4. CASE count # 0
    BY <1>1, <2>1, <2>2, <2>4 DEF Ref
  <2> QED BY <2>3, <2>4
<1>2. ASSUME NEW s \in Session, Raise(s)
      PROVE  RaisedIsKnown' /\ ListenerIsKnown' /\ NoOrphan'
  BY <1>2 DEF Raise, Move
<1>3. ASSUME NEW s \in Session, Check(s)
      PROVE  RaisedIsKnown' /\ ListenerIsKnown' /\ NoOrphan'
  BY <1>3 DEF Check, Move
<1>4. ASSUME NEW s \in Session, Loop(s)
      PROVE  RaisedIsKnown' /\ ListenerIsKnown' /\ NoOrphan'
  BY <1>4 DEF Loop, Move
<1>5. ASSUME NEW s \in Session, Lock(s)
      PROVE  RaisedIsKnown' /\ ListenerIsKnown' /\ NoOrphan'
  BY <1>5 DEF Lock, Move
<1>6. ASSUME NEW s \in Session, MakeEncoder(s)
      PROVE  RaisedIsKnown' /\ ListenerIsKnown' /\ NoOrphan'
  BY <1>6 DEF MakeEncoder, Move
<1>7. ASSUME NEW s \in Session, Encode(s)
      PROVE  RaisedIsKnown' /\ ListenerIsKnown' /\ NoOrphan'
  BY <1>7 DEF Encode, LeaveEncoder, Move
<1>8. ASSUME NEW s \in Session, Image(s)
      PROVE  RaisedIsKnown' /\ ListenerIsKnown' /\ NoOrphan'
  BY <1>8 DEF Image, LeaveEncoder, Move
<1>9. ASSUME NEW s \in Session, Release(s)
      PROVE  RaisedIsKnown' /\ ListenerIsKnown' /\ NoOrphan'
  BY <1>9 DEF Release, Move
<1>10. ASSUME NEW s \in Session, Join(s)
      PROVE  RaisedIsKnown' /\ ListenerIsKnown' /\ NoOrphan'
  BY <1>10 DEF Join, Move
<1>11. ASSUME NEW s \in Session, Stop(s)
      PROVE  RaisedIsKnown' /\ ListenerIsKnown' /\ NoOrphan'
  BY <1>11 DEF Stop, Move
<1>12. ASSUME NEW s \in Session, Shutdown(s)
      PROVE  RaisedIsKnown' /\ ListenerIsKnown' /\ NoOrphan'
  BY <1>12 DEF Shutdown
<1>13. CASE FirstContext
  BY <1>13 DEF FirstContext, Goto, Return
<1>14. CASE Open
  BY <1>14 DEF Open, Goto, Return
<1>15. CASE Interrupted
  BY <1>15 DEF Interrupted, Goto, Return
<1>16. CASE Push
  <2>1. capture_ctxs' = {s \in capture_ctxs : images_running[s]}
    BY <1>16 DEF Push
  <2>2. \A s \in Session : images_running[s] => (s \in Known' <=> s \in Known)
    BY <1>16, <2>1 DEF Push
  <2>3. capture \notin {"exited"} /\ capture' \notin {"exited"}
    BY <1>16 DEF Push, Goto, Return
  <2>4. ListenerIsKnown'
    BY <1>16, <2>2 DEF Push
  <2> QED BY <1>16, <2>1, <2>3, <2>4 DEF Push
<1>17. CASE Peek
  BY <1>17 DEF Peek, Goto
<1>18. CASE PopContext
  BY <1>18 DEF PopContext, Goto
<1>19. CASE Wait
  BY <1>19 DEF Wait, Goto
<1>20. CASE Sweep
  <2>1. \A s \in Session : images_running[s] => (s \in Known' <=> s \in Known)
    BY <1>20 DEF Sweep
  <2>3. capture' \notin {"exited"}
    BY <1>20 DEF Sweep, Goto
  <2>4. ListenerIsKnown'
    BY <1>20, <2>1 DEF Sweep
  <2> QED BY <1>20, <2>1, <2>3, <2>4 DEF Sweep
<1>21. CASE Pop
  BY <1>21 DEF Pop, Goto
<1>22. CASE Renew
  BY <1>22 DEF Renew, Goto, Return
<1>23. CASE Reopen
  BY <1>23 DEF Reopen, Goto
<1>24. CASE Publish
  BY <1>24 DEF Publish, Goto, Aged
<1>25. CASE Resume
  BY <1>25 DEF Resume, Goto, Return
<1>26. CASE StopQueue
  BY <1>26 DEF StopQueue, Goto
<1>27. CASE StopListeners
  BY <1>27 DEF StopListeners, Goto
<1>28. CASE TornDown
  BY <1>28 DEF TornDown
<1> HIDE DEF IInv, RaisedIsKnown, ListenerIsKnown, NoOrphan, Listening, Known,
           QueueStopped, FirstIsEmpty, TypeOK, borrowVars, eventVars, queueVars, displayVars, waitVars
<1> QED
  BY <1>1, <1>2, <1>3, <1>4, <1>5, <1>6, <1>7, <1>8, <1>9, <1>10, <1>11, <1>12, <1>13, <1>14, <1>15, <1>16, <1>17, <1>18, <1>19, <1>20, <1>21, <1>22, <1>23, <1>24, <1>25, <1>26, <1>27, <1>28
     DEF Next, StreamStep, CaptureStep

(* Every step keeps the invariant, and a thread is only started when there   *)
(* is none.                                                                 *)
LEMMA InvPreserved ==
    ASSUME IInv, [Next]_vars
    PROVE  IInv'
<1>1. CASE Next
  BY <1>1, TypePreserved, CountPreserved, ThreadPreserved, ContextsPreserved
     DEF IInv
<1>2. CASE UNCHANGED vars
  <2> USE DEF vars, borrowVars, eventVars, queueVars, displayVars, waitVars
  <2>1. TypeOK' BY <1>2 DEF IInv, TypeOK
  <2>2. CountIsExact' BY <1>2 DEF IInv, CountIsExact, Holders
  <2>3. Referenced' /\ QueueStopped' /\ FirstIsEmpty'
    BY <1>2 DEF IInv, Referenced, QueueStopped, FirstIsEmpty, Held
  <2>4. RaisedIsKnown' /\ ListenerIsKnown' /\ NoOrphan'
    BY <1>2 DEF IInv, RaisedIsKnown, ListenerIsKnown, NoOrphan, Listening,
                Known
  <2> QED BY <2>1, <2>2, <2>3, <2>4 DEF IInv
<1> QED BY <1>1, <1>2

LEMMA InvInit == Init => IInv
<1> SUFFICES ASSUME Init PROVE IInv
  OBVIOUS
<1>1. TypeOK
  BY DEF Init, TypeOK, Threads, Captures, Displays
<1>2. CountIsExact
  <2>1. Holders = {} /\ count = 0
    BY DEF Init, Holders, Referring
  <2> QED BY <2>1, FS_EmptySet DEF CountIsExact
<1>3. Referenced /\ QueueStopped /\ FirstIsEmpty
  BY DEF Init, Referenced, QueueStopped, FirstIsEmpty, Held
<1>4. RaisedIsKnown /\ ListenerIsKnown /\ NoOrphan
  BY DEF Init, RaisedIsKnown, ListenerIsKnown, NoOrphan, Listening
<1> QED BY <1>1, <1>2, <1>3, <1>4 DEF IInv

(* The inductive invariant, for any finite set of streams.                  *)
THEOREM Invariance == Spec => []IInv
<1> QED
  BY InvInit, InvPreserved, PTL DEF Spec

-----------------------------------------------------------------------------
(* The results. *)

(* Every variable keeps its type; the counter never falls below zero.       *)
THEOREM TypeInvariant == Spec => []TypeOK
<1>1. IInv => TypeOK BY DEF IInv
<1> QED BY <1>1, Invariance, PTL

(* Once the capture thread has ended no stream waits for its images,        *)
(* whatever it was doing when it ended and whoever joined meanwhile.        *)
THEOREM NobodyIsOrphaned == Spec => []NoOrphan
<1>1. IInv => NoOrphan BY DEF IInv
<1> QED BY <1>1, Invariance, PTL

(* Two capture threads never run beside each other.                         *)
THEOREM OneAtATime == Spec => OneCapture
<1>1. ASSUME IInv, [Next]_vars
      PROVE  [capture' = "first" /\ capture # "first" => capture = "none"]_vars
  <2> SUFFICES ASSUME Next, capture' = "first", capture # "first"
               PROVE  capture = "none"
    BY <1>1
  <2>1. PICK s \in Session : Ref(s)
    BY DEF Next, StreamStep, CaptureStep, Goto, Return, Raise, Check, Loop,
           Lock, MakeEncoder, Encode, Image, LeaveEncoder, Release, Join,
           Stop, Shutdown, TornDown, FirstContext, Open, Interrupted, Push,
           Peek, PopContext, Wait, Sweep, Pop, Renew, Reopen, Publish, Resume,
           StopQueue, StopListeners
  <2>2. count = 0 /\ ~Held
    BY <2>1 DEF Ref
  <2> QED BY <1>1, <2>2 DEF IInv, Referenced
<1> QED BY <1>1, Invariance, PTL DEF Spec, OneCapture

-----------------------------------------------------------------------------
(* The join of the last reference. *)

(* Nobody joins a thread before a reference was taken, and then the thread   *)
(* is there until it is joined.                                             *)
Joinable ==
    /\ JoinIsOfStopped
    /\ count # 0 => capture # "none"

LEMMA JoinableStep == IInv /\ Joinable /\ [Next]_vars => Joinable'
<1> SUFFICES ASSUME IInv, Joinable, [Next]_vars PROVE Joinable'
  OBVIOUS
<1> USE DEF Joinable, JoinIsOfStopped, Held, borrowVars, eventVars, queueVars,
            displayVars, waitVars
<1>1. TypeOK /\ CountIsExact /\ Referenced /\ count \in Nat
      /\ thread \in [Session -> Threads]
  BY DEF IInv, TypeOK
<1>2. ASSUME NEW s \in Session, Ref(s)
      PROVE  Joinable'
  <2>1. /\ thread[s] = "idle" /\ thread' = [thread EXCEPT ![s] = "raise"]
        /\ ~Held /\ count' = count + 1
    BY <1>2 DEF Ref, Move
  <2>2. \A t \in Session : thread'[t] # "join"
    BY <1>1, <2>1
  <2>3. capture' # "none"
    BY <1>1, <1>2 DEF Ref
  <2> QED BY <1>1, <2>1, <2>2, <2>3
<1>3. ASSUME NEW s \in Session, Release(s)
      PROVE  Joinable'
  <2>1. /\ ~Held /\ count' = count - 1 /\ thread[s] = "release"
        /\ thread' = [thread EXCEPT ![s] = IF count = 1 THEN "join" ELSE "stop"]
        /\ queue_running' = (queue_running /\ count # 1) /\ UNCHANGED capture
    BY <1>3 DEF Release, Move
  <2>2. s \in Holders
    BY <2>1 DEF Holders, Referring
  <2>3. count # 0 /\ capture # "none"
    BY <1>1, <2>2, Counted
  <2>4. \A t \in Session : thread'[t] = "join" => t = s /\ count = 1
    BY <1>1, <2>1
  <2> QED BY <1>1, <2>1, <2>3, <2>4
<1>4. ASSUME NEW s \in Session, Join(s)
      PROVE  Joinable'
  <2>1. /\ thread[s] = "join" /\ thread' = [thread EXCEPT ![s] = "stop"]
        /\ UNCHANGED count
    BY <1>4 DEF Join, Move
  <2>2. count = 0
    BY <1>1, <2>1 DEF Referenced
  <2>3. \A t \in Session : thread'[t] # "join"
    BY <1>1, <2>1
  <2> QED BY <1>1, <2>1, <2>2, <2>3
<1>5. ASSUME NEW s \in Session,
             Raise(s) \/ Check(s) \/ Loop(s) \/ Lock(s) \/ MakeEncoder(s)
             \/ Encode(s) \/ Image(s) \/ Stop(s)
      PROVE  Joinable'
  <2>1. PICK to \in Threads : thread' = [thread EXCEPT ![s] = to] /\ to # "join"
    BY <1>5 DEF Raise, Check, Loop, Lock, MakeEncoder, Encode, Image,
                LeaveEncoder, Stop, Move, Threads
  <2>2. UNCHANGED <<count, capture, queue_running>>
    BY <1>5 DEF Raise, Check, Loop, Lock, MakeEncoder, Encode, Image,
                LeaveEncoder, Stop
  <2>3. \A t \in Session : thread'[t] = "join" => thread[t] = "join"
    BY <1>1, <2>1
  <2> QED BY <1>1, <2>2, <2>3
<1>6. CASE CaptureStep
  <2>1. /\ UNCHANGED <<thread, count>>
        /\ queue_running' = queue_running \/ queue_running' = FALSE
        /\ capture # "none" /\ capture' # "none"
    BY <1>6, Zenon
    DEF CaptureStep, Goto, Return, FirstContext, Open, Interrupted, Push,
        Peek, PopContext, Wait, Sweep, Pop, Renew, Reopen, Publish, Resume,
        StopQueue, StopListeners
  <2> QED BY <2>1
<1>7. CASE (\E s \in Session : Shutdown(s)) \/ TornDown \/ UNCHANGED vars
  BY <1>7 DEF Shutdown, TornDown, vars
<1> QED BY <1>2, <1>3, <1>4, <1>5, <1>6, <1>7 DEF Next, StreamStep

(* Whoever gives back the last reference is alone in it, finds a thread to   *)
(* join, and has told it to return.                                         *)
THEOREM LastLeaverJoins == Spec => []JoinIsOfStopped
<1>1. Init => Joinable
  BY DEF Init, Joinable, JoinIsOfStopped, Held
<1>2. Joinable => JoinIsOfStopped
  BY DEF Joinable
<1> QED BY <1>1, <1>2, JoinableStep, Invariance, PTL DEF Spec

-----------------------------------------------------------------------------
(* The display. *)

(* Where the capture thread has its display, by what it does next.           *)
DisplayInv ==
    /\ capture \in {"capture", "peek", "pop_ctx", "wait", "sweep", "pop",
                    "resume"} => disp = "published" /\ display_wp
    /\ capture \in {"renew", "reopen", "publish"} => display_wp
    /\ capture = "publish" => disp # "none"

LEMMA DisplayStep == IInv /\ DisplayInv /\ [Next]_vars => DisplayInv'
<1> SUFFICES ASSUME IInv, DisplayInv, [Next]_vars PROVE DisplayInv'
  OBVIOUS
<1> USE DEF DisplayInv, borrowVars, eventVars, queueVars, displayVars, waitVars
<1>1. ASSUME NEW s \in Session, Ref(s)
      PROVE  DisplayInv'
  <2>1. CASE count = 0
    BY <1>1, <2>1 DEF Ref
  <2>2. CASE count # 0
    BY <1>1, <2>2 DEF Ref
  <2> QED BY <2>1, <2>2
<1>2. ASSUME NEW s \in Session, StreamStep(s)
      PROVE  DisplayInv'
  <2>1. UNCHANGED displayVars /\ (capture' = capture \/ capture' = "none")
    BY <1>2, Zenon
    DEF StreamStep, Raise, Check, Loop, Lock, MakeEncoder, Encode, Image,
        LeaveEncoder, Release, Join, Stop
  <2> QED BY <2>1
<1>3. CASE CaptureStep
  BY <1>3
  DEF CaptureStep, Goto, Return, FirstContext, Open, Interrupted, Push, Peek,
      PopContext, Wait, Sweep, Pop, Renew, Reopen, Publish, Resume, StopQueue,
      StopListeners
<1>4. CASE (\E s \in Session : Shutdown(s)) \/ TornDown \/ UNCHANGED vars
  BY <1>4 DEF Shutdown, TornDown, vars
<1> QED BY <1>1, <1>2, <1>3, <1>4 DEF Next

(* A display is there while the thread captures.                             *)
THEOREM DisplayIsThere == Spec => []CapturesPublished
<1>1. Init => DisplayInv
  BY DEF Init, DisplayInv
<1>2. DisplayInv => CapturesPublished
  BY DEF DisplayInv, CapturesPublished, Alive
<1> QED BY <1>1, <1>2, DisplayStep, Invariance, PTL DEF Spec

-----------------------------------------------------------------------------
(* The refinement of SharedThread. *)

(* A stream gives back the last reference exactly when it was the only one   *)
(* to hold one.                                                             *)
LEMMA LastHolder ==
    ASSUME TypeOK, CountIsExact, NEW s \in Session, s \in Holders
    PROVE  count = 1 <=> Holders \ {s} = {}
<1>1. IsFiniteSet(Holders)
  BY Counted
<1>2. /\ IsFiniteSet(Holders \ {s})
      /\ Cardinality(Holders \ {s}) = Cardinality(Holders) - 1
  BY <1>1, FS_RemoveElement
<1>3. Cardinality(Holders \ {s}) = 0 <=> Holders \ {s} = {}
  BY <1>2, FS_EmptySet
<1>4. Cardinality(Holders) \in Nat
  BY <1>1, FS_CardinalityType
<1> QED BY <1>2, <1>3, <1>4 DEF CountIsExact

(* Every step is one of the shared thread, or changes nothing of it.         *)
LEMMA SharedStep ==
    IInv /\ Joinable /\ [Next]_vars => [Shared!Next]_(Shared!sharedVars)
<1> SUFFICES ASSUME IInv, Joinable, [Next]_vars
             PROVE  Shared!Next \/ UNCHANGED Shared!sharedVars
  OBVIOUS
<1> DEFINE W == CASE capture = "none" -> "none"
                  [] capture = "exited" -> "over"
                  [] OTHER -> "running"
<1>0. TypeOK /\ CountIsExact /\ Referenced /\ JoinIsOfStopped
      /\ (count # 0 => capture # "none")
      /\ thread \in [Session -> Threads] /\ count \in Nat
  BY DEF IInv, Joinable, TypeOK
<1>1. ASSUME NEW s \in Session, Ref(s)
      PROVE  Shared!Ref(s)
  <2>1. /\ thread[s] = "idle" /\ thread' = [thread EXCEPT ![s] = "raise"]
        /\ ~Held
    BY <1>1 DEF Ref, Move
  <2>2. s \notin Holders /\ Holders' = Holders \cup {s}
    BY <1>0, <1>1, <2>1, HoldersMoved DEF Ref, Holders, Referring, Threads
  <2>3. Held' = Held
    BY <1>0, <2>1 DEF Held
  <2>4. W' = IF Holders = {} THEN "running" ELSE W
    <3>1. CASE count = 0
      BY <1>0, <1>1, <3>1, Counted DEF Ref
    <3>2. CASE count # 0
      BY <1>0, <1>1, <3>2, Counted DEF Ref
    <3> QED BY <3>1, <3>2
  <2> QED BY <2>1, <2>2, <2>3, <2>4 DEF Shared!Ref
<1>2. ASSUME NEW s \in Session, Release(s)
      PROVE  Shared!Release(s)
  <2>1. /\ ~Held /\ thread[s] = "release" /\ UNCHANGED capture
        /\ Move(s, "release", IF count = 1 THEN "join" ELSE "stop")
        /\ thread' = [thread EXCEPT ![s] = IF count = 1 THEN "join" ELSE "stop"]
    BY <1>2 DEF Release, Move
  <2>2. s \in Holders
    BY <2>1 DEF Holders, Referring
  <2>3. Holders' = Holders \ {s}
    <3>1. \A t \in Session : thread'[t] \in Referring <=>
                                 t # s /\ thread[t] \in Referring
      BY <1>0, <2>1 DEF Referring
    <3> QED BY <3>1 DEF Holders
  <2>4. Held' = (Holders' = {})
    <3>1. count = 1 <=> Holders' = {}
      BY <1>0, <2>2, <2>3, LastHolder
    <3>2. Held' <=> count = 1
      BY <1>0, <2>1 DEF Held
    <3> QED BY <3>1, <3>2 DEF Held
  <2> QED BY <2>1, <2>2, <2>3, <2>4 DEF Shared!Release
<1>3. ASSUME NEW s \in Session, Join(s)
      PROVE  Shared!Joined
  <2>1. /\ thread[s] = "join" /\ thread' = [thread EXCEPT ![s] = "stop"]
        /\ capture = "exited" /\ capture' = "none"
    BY <1>3 DEF Join, Move
  <2>2. Held /\ Held' = FALSE
    BY <1>0, <2>1 DEF Held, JoinIsOfStopped
  <2>3. \A t \in Session : thread'[t] \in Referring <=> thread[t] \in Referring
    BY <1>0, <2>1 DEF Referring
  <2>4. UNCHANGED Holders
    BY <2>3 DEF Holders
  <2> QED BY <2>1, <2>2, <2>4 DEF Shared!Joined
<1>4. ASSUME NEW s \in Session,
             Raise(s) \/ Check(s) \/ Loop(s) \/ Lock(s) \/ MakeEncoder(s)
             \/ Encode(s) \/ Image(s) \/ Stop(s)
      PROVE  UNCHANGED Shared!sharedVars
  <2>1. PICK to : /\ thread' = [thread EXCEPT ![s] = to]
                  /\ thread[s] # "join" /\ to # "join"
                  /\ to \in Referring <=> thread[s] \in Referring
    BY <1>4 DEF Raise, Check, Loop, Lock, MakeEncoder, Encode, Image,
                LeaveEncoder, Stop, Move, Referring
  <2>2. UNCHANGED capture
    BY <1>4 DEF Raise, Check, Loop, Lock, MakeEncoder, Encode, Image,
                LeaveEncoder, Stop
  <2>3. \A t \in Session : /\ (thread'[t] \in Referring <=> thread[t] \in Referring)
                           /\ (thread'[t] = "join" <=> thread[t] = "join")
    <3> SUFFICES ASSUME NEW t \in Session
                 PROVE  /\ (thread'[t] \in Referring <=> thread[t] \in Referring)
                        /\ (thread'[t] = "join" <=> thread[t] = "join")
      OBVIOUS
    <3>1. thread'[t] = IF t = s THEN to ELSE thread[t]
      BY <1>0, <2>1
    <3> QED BY <2>1, <3>1
  <2>4. Holders' = Holders
    BY <2>3 DEF Holders
  <2>5. Held' = Held
    BY <2>3 DEF Held
  <2> QED BY <2>2, <2>4, <2>5 DEF Shared!sharedVars
<1>5. CASE CaptureStep
  <2>1. UNCHANGED thread
    BY <1>5, Zenon
    DEF CaptureStep, FirstContext, Open, Interrupted, Push, Peek, PopContext,
        Wait, Sweep, Pop, Renew, Reopen, Publish, Resume, StopQueue,
        StopListeners
  <2>2. UNCHANGED <<Holders, Held>>
    BY <2>1 DEF Holders, Held
  <2>3. /\ capture \notin {"none", "exited"}
        /\ capture' # "none"
    BY <1>5, Zenon
    DEF CaptureStep, Goto, Return, FirstContext, Open, Interrupted, Push,
        Peek, PopContext, Wait, Sweep, Pop, Renew, Reopen, Publish, Resume,
        StopQueue, StopListeners
  <2>4. W = "running" /\ W' \in {"running", "over"}
    BY <2>3
  <2> QED BY <2>2, <2>4 DEF Shared!Next, Shared!Returns, Shared!sharedVars
<1>6. CASE (\E s \in Session : Shutdown(s)) \/ TornDown \/ UNCHANGED vars
  <2>1. UNCHANGED <<thread, capture>>
    BY <1>6 DEF Shutdown, TornDown, vars
  <2> QED BY <2>1 DEF Shared!sharedVars, Holders, Held
<1> QED BY <1>1, <1>2, <1>3, <1>4, <1>5, <1>6
        DEF Next, StreamStep, Shared!Next

(* The capture thread is started by the first stream and joined by the last, *)
(* under the lock: VideoCapture implements SharedThread.                    *)
THEOREM CaptureIsShared == Spec => SharesCapture
<1>1. Init => Shared!Init
  <2> SUFFICES ASSUME Init PROVE Shared!Init
    OBVIOUS
  <2>1. Holders = {} /\ Held = FALSE /\ capture = "none"
    BY DEF Init, Holders, Held, Referring
  <2> QED BY <2>1 DEF Shared!Init
<1>2. Init => Joinable
  BY DEF Init, Joinable, JoinIsOfStopped, Held
<1> QED BY <1>1, <1>2, JoinableStep, SharedStep, Invariance, PTL
        DEF Spec, SharesCapture, Shared!Spec
=============================================================================
