------------------------- MODULE HostStream_proofs -------------------------
(***************************************************************************)
(* Theorems about HostStream, for every number of sessions, launches,      *)
(* handler threads and streams.                                            *)
(***************************************************************************)
EXTENDS HostStream, FiniteSetTheorems, TLAPS

StartPlace == {"insert", "ref", "list", "threads", "running", "counted",
               "remove"}

(* The holder of the lock is inside clear, ANNOUNCE knows the session it    *)
(* starts, a peer is recorded for a session, and without a context there is *)
(* no control thread.                                                       *)
PlaceInv ==
    /\ slots_lock # None => at[slots_lock] \in ClearPlace
    /\ starting # None <=> at["rtsp"] \in StartPlace
    /\ claimed # None <=> control = "pop"
    /\ broadcast = "down" => control = "off"

TypeInv == TypeOK /\ PlaceInv
-----------------------------------------------------------------------------
(* Destroying a session leaves the fields of all of them of their types.    *)
LEMMA DestroyTypes ==
    ASSUME TypeOK, NEW s \in Session, NEW t \in Thread \cup {None},
           Destroy(s, t), UNCHANGED <<running, ctrl>>
    PROVE  /\ SessionTypes' /\ ContextTypes'
           /\ broadcast' = "down" => broadcast = "down"
<1>1. SessionTypes'
  BY SMTT(40) DEF Destroy, TypeOK, SessionTypes, State
<1>2. CASE LastReference(s)
  BY <1>1, <1>2 DEF Destroy, TypeOK, ContextTypes, ctrl
<1>3. CASE ~LastReference(s)
  BY <1>1, <1>3 DEF Destroy, TypeOK, ContextTypes, ctrl, shared
<1> QED BY <1>2, <1>3

(* Every step keeps the types. *)
LEMMA TypePreserved == TypeInv /\ [Next]_vars => TypeInv'
<1> SUFFICES ASSUME TypeInv, [Next]_vars
             PROVE  TypeInv'
  OBVIOUS
<1> DEFINE Goal == TypeInv'
<1> USE HostAssumption
    DEF TypeInv, TypeOK, RequestTypes, RtspTypes, SessionTypes, ContextTypes,
        HostTypes, PlaceInv, StartPlace, vars, requests, pending, clearing,
        session, ctrl, shared, Thread, HandlerPlace, RtspPlace, MainPlace,
        State, ControlPlace, AfterClear, ClearPlace
<1>1. Goal
  <2>1. ASSUME NEW h \in Handler, NEW l \in Launch, LaunchBegin(h, l)
       PROVE  Goal
    BY <2>1, SMTT(40)
       DEF LaunchBegin, Go, NoticeExit, Running
  <2>2. ASSUME NEW h \in Handler, NEW l \in Launch, ResumeBegin(h, l)
       PROVE  Goal
    BY <2>2, SMTT(40)
       DEF ResumeBegin, Go, Running
  <2>3. ASSUME NEW h \in Handler, GiveUp(h)
       PROVE  Goal
    BY <2>3, SMTT(40)
       DEF GiveUp, Go
  <2>4. ASSUME NEW h \in Handler, NEW works \in BOOLEAN, Execute(h, works)
       PROVE  Goal
    BY <2>4, SMTT(40)
       DEF Execute, Go
  <2>5. ASSUME NEW h \in Handler, ExecuteNothing(h)
       PROVE  Goal
    BY <2>5, SMTT(40)
       DEF ExecuteNothing, Go
  <2>6. ASSUME NEW h \in Handler, SessionRaise(h)
       PROVE  Goal
    BY <2>6, SMTT(40)
       DEF SessionRaise, Go
  <2>46. ASSUME NEW h \in Handler, SetLaunch(h)
       PROVE  Goal
    BY <2>46, SMTT(40)
       DEF SetLaunch, Go
  <2>7. ASSUME NEW h \in Handler, CancelBegin(h)
       PROVE  Goal
    BY <2>7, SMTT(40)
       DEF CancelBegin, Go
  <2>8. ASSUME NEW h \in Handler, CancelTerminate(h)
       PROVE  Goal
    BY <2>8, SMTT(40)
       DEF CancelTerminate, Go
  <2>9. CASE ServerInfo
    BY <2>9, SMTT(40)
       DEF ServerInfo, NoticeExit
  <2>10. CASE AppExits
    BY <2>10, SMTT(40)
       DEF AppExits
  <2>11. CASE HostShutdown
    BY <2>11, SMTT(40)
       DEF HostShutdown, Go
  <2>12. CASE Accept
    BY <2>12, SMTT(40)
       DEF Accept, Go, AtLoop
  <2>13. CASE TimerHandler
    BY <2>13, SMTT(40)
       DEF TimerHandler, Go, AtLoop
  <2>14. CASE Tick
    BY <2>14, SMTT(40)
       DEF Tick, Go, AtLoop
  <2>15. ASSUME NEW l \in Launch, OtherRequest(l)
       PROVE  Goal
    BY <2>15, SMTT(40)
       DEF OtherRequest, Go, AtLoop
  <2>16. ASSUME NEW s \in Session, NEW l \in Launch, Announce(s, l)
       PROVE  Goal
    BY <2>16, SMTT(40)
       DEF Announce, Go, AtLoop
  <2>17. CASE Insert
    BY <2>17, SMTT(40)
       DEF Insert, Go
  <2>18. CASE StartRef
    BY <2>18, SMTT(40)
       DEF StartRef, Go
  <2>19. CASE StartBuilds
    BY <2>19, SMTT(40)
       DEF StartBuilds, Go
  <2>20. CASE StartFails
    BY <2>20, SMTT(40)
       DEF StartFails, Go
  <2>21. CASE Remove
    BY <2>21, SMTT(40)
       DEF Remove, Go
  <2>22. CASE StartList
    BY <2>22, SMTT(40)
       DEF StartList, Go
  <2>23. CASE StartThreads
    BY <2>23, SMTT(40)
       DEF StartThreads, Go
  <2>24. CASE StartRunning
    BY <2>24, SMTT(40)
       DEF StartRunning, Go
  <2>25. CASE StartCounted
    <3>1. CASE starting \in session_slots
      BY <2>25, <3>1, SMTT(40) DEF StartCounted, Go
    <3>2. CASE starting \notin session_slots
      <4>1. starting \in Session /\ Destroy(starting, "rtsp")
        BY <2>25, <3>2 DEF StartCounted
      <4>2. /\ at' = [at EXCEPT !["rtsp"] = "clear"] /\ starting' = None
            /\ running_sessions' = running_sessions + 1 /\ at["rtsp"] = "counted"
            /\ UNCHANGED <<made, issued, pending, session_slots, clearing,
                           running, ctrl, host_shutdown, app, aborted>>
        BY <2>25 DEF StartCounted, Go
      <4>3. SessionTypes' /\ ContextTypes'
        BY <4>1, <4>2, DestroyTypes
      <4>4. RequestTypes' /\ RtspTypes'
        BY <4>2, SMTT(40)
      <4>5. HostTypes'
        BY <4>2, SMTT(40)
      <4>6. PlaceInv'
        BY <4>2, <4>1, DestroyTypes, SMTT(40)
      <4> QED BY <4>3, <4>4, <4>5, <4>6 DEF TypeOK
    <3> QED BY <3>1, <3>2
  <2>26. CASE LoopEnds
    BY <2>26, SMTT(40)
       DEF LoopEnds, Go
  <2>27. CASE TimerExpires
    BY <2>27, SMTT(40)
       DEF TimerExpires
  <2>28. ASSUME NEW t \in Thread, Clear(t)
       PROVE  Goal
    BY <2>28, SMTT(40)
       DEF Clear, BroadcastShutdown
  <2>29. ASSUME NEW s \in Session, LetBe(s)
       PROVE  Goal
    BY <2>29, SMTT(40)
       DEF LetBe, ClearTurn
  <2>30. ASSUME NEW s \in Session, StopAndJoin(s)
       PROVE  Goal
    BY <2>30, SMTT(40)
       DEF StopAndJoin, Stop, ClearTurn, Unspawned
  <2>31. ASSUME NEW s \in Session, JoinThrows(s)
       PROVE  Goal
    <3> DEFINE t == slots_lock
    <3>1. /\ t \in Thread /\ t # None /\ t # "rtsp" /\ slots_lock' = None
          /\ all' \in BOOLEAN /\ unvisited' = {}
          /\ UNCHANGED <<made, issued, pending, starting, session_slots,
                         joining, session, ctrl, shared, host_shutdown,
                         running_sessions, app>>
      <4>1. all' \in BOOLEAN
        BY <2>31, Zenon DEF JoinThrows
      <4>2. t # "rtsp"
        <5>1. t # None /\ at["rtsp"] \in StartPlace
          BY <2>31, SMTT(40) DEF JoinThrows, ClearTurn, Unspawned
        <5> QED BY <5>1, SMTT(40)
      <4>3. /\ t \in Thread /\ t # None
            /\ slots_lock' = None /\ unvisited' = {}
            /\ UNCHANGED <<made, issued, pending, starting, session_slots,
                           joining, session, ctrl, shared, host_shutdown,
                           running_sessions, app>>
        BY <2>31, Zenon DEF JoinThrows, ClearTurn
      <4> QED BY <4>1, <4>2, <4>3
    <3>2. RtspTypes'
      BY <3>1, SMTT(40)
    <3>3. SessionTypes' /\ ContextTypes'
      BY <3>1, SMTT(40)
    <3>4. CASE t = "main"
      <4>1. aborted' \in BOOLEAN /\ at' = at
        BY <2>31, <3>4 DEF JoinThrows
      <4>2. RequestTypes' /\ HostTypes' /\ PlaceInv'
        BY <3>1, <4>1, SMTT(40)
      <4> QED BY <3>2, <3>3, <4>2 DEF TypeOK
    <3>5. CASE t # "main"
      <4>1. at' = [at EXCEPT ![t] = "idle"] /\ aborted' = aborted
        BY <2>31, <3>5 DEF JoinThrows, Go
      <4>2. t \in Handler /\ t # "rtsp" /\ t # "main"
        BY <3>1, <3>5
      <4> HIDE DEF t
      <4>3. at' \in [Thread -> HandlerPlace \cup RtspPlace \cup MainPlace]
        BY <4>1, <4>2, SMTT(40)
      <4>4. /\ at'["rtsp"] = at["rtsp"] /\ at'["main"] = at["main"]
            /\ \A h \in Handler : at'[h] \in HandlerPlace
        BY <4>1, <4>2, SMTT(40)
      <4>5. RequestTypes'
        BY <3>1, <4>3, <4>4, SMTT(40)
      <4>6. HostTypes' /\ PlaceInv'
        BY <3>1, <4>1, <4>4, SMTT(40)
      <4> QED BY <3>2, <3>3, <4>5, <4>6 DEF TypeOK
    <3> QED BY <3>4, <3>5
  <2>32. ASSUME NEW s \in Session, JoinEnds(s)
       PROVE  Goal
    <3>1. UNCHANGED <<requests, pending, starting, slots_lock, all, unvisited,
                      running, ctrl, host_shutdown, aborted>>
      BY <2>32 DEF JoinEnds
    <3>2. RtspTypes'
      BY <3>1, <2>32, SMTT(40) DEF JoinEnds
    <3>3. HostTypes'
      BY <3>1, <2>32, SMTT(40) DEF JoinEnds, NoticeExit
    <3>4. /\ SessionTypes' /\ ContextTypes'
          /\ broadcast' = "down" => broadcast = "down"
      <4>1. CASE s = starting
        BY <3>1, <2>32, <4>1 DEF JoinEnds
      <4>2. CASE s # starting
        <5>1. Destroy(s, slots_lock) /\ slots_lock \in Thread \cup {None}
          BY <2>32, <4>2 DEF JoinEnds
        <5>2. TypeOK /\ UNCHANGED <<running, ctrl>>
          BY <3>1
        <5> HIDE DEF TypeOK, SessionTypes, ContextTypes
        <5> QED BY <5>1, <5>2, DestroyTypes
      <4> QED BY <4>1, <4>2
    <3>5. PlaceInv' /\ RequestTypes'
      BY <3>1, <3>4, SMTT(40)
    <3> QED BY <3>2, <3>3, <3>4, <3>5 DEF TypeOK
  <2>33. CASE ClearEnds
    <3> DEFINE t == slots_lock
               next == AfterClear[at[t]]
    <3>1. t \in Thread /\ at[t] \in ClearPlace /\ t # None
      BY <2>33 DEF ClearEnds, ClearTurn
    <3>2. /\ at' = [at EXCEPT ![t] = next] /\ slots_lock' = None
          /\ all' \in BOOLEAN
          /\ UNCHANGED <<made, issued, pending, starting, session_slots,
                         unvisited, joining, session, ctrl, shared,
                         host_shutdown, running_sessions, app, aborted>>
      BY <2>33 DEF ClearEnds, Go
    <3>3. /\ t = "rtsp" => next \in RtspPlace \ StartPlace
          /\ t = "main" => next \in MainPlace
          /\ t \in Handler => next \in HandlerPlace
          /\ t = "rtsp" => at["rtsp"] \notin StartPlace
      <4>1. CASE t = "rtsp" BY <3>1, <4>1, SMTT(40)
      <4>2. CASE t = "main" BY <3>1, <4>2, SMTT(40)
      <4>3. CASE t \in Handler BY <3>1, <4>3, SMTT(40)
      <4> QED BY <3>1, <4>1, <4>2, <4>3
    <3> HIDE DEF next, t, AfterClear, ClearPlace
    <3>4. RequestTypes'
      BY <3>1, <3>2, <3>3, SMTT(40)
    <3>5. PlaceInv'
      BY <3>1, <3>2, <3>3, SMTT(40)
    <3>6. RtspTypes' /\ SessionTypes' /\ ContextTypes' /\ HostTypes'
      BY <3>2, SMTT(40)
    <3> QED BY <3>4, <3>5, <3>6 DEF TypeOK
  <2>34. CASE EndBroadcast
    BY <2>34, SMTT(40)
       DEF EndBroadcast
  <2>35. CASE ForceKill
    BY <2>35, SMTT(40)
       DEF ForceKill
  <2>36. ASSUME NEW s \in Session, NEW t \in Stream, StreamStops(s, t)
       PROVE  Goal
    BY <2>36, SMTT(40)
       DEF StreamStops, StreamEnds, Stop
  <2>37. ASSUME NEW s \in Session, NEW t \in Stream, StreamFails(s, t)
       PROVE  Goal
    BY <2>37, SMTT(40)
       DEF StreamFails, StreamEnds, Stop
  <2>38. ASSUME NEW silent \in SUBSET Session, ControlSweep(silent)
       PROVE  Goal
    BY <2>38, SMTT(40)
       DEF ControlSweep, Stop, ShuttingDown, BroadcastShutdown
  <2>39. CASE ControlCheck
    <3>1. RequestTypes'
      BY <2>39, SMTT(40) DEF ControlCheck, NoticeExit, Running
    <3>2. RtspTypes'
      BY <2>39, SMTT(40) DEF ControlCheck, NoticeExit, Running
    <3>3. SessionTypes'
      BY <2>39, SMTT(40) DEF ControlCheck, NoticeExit, Running
    <3>4. ContextTypes'
      <4>1. /\ control' \in {"iterate", "leave"} /\ awaiting_peer' \in BOOLEAN
            /\ UNCHANGED <<sessions, claimed, shared>>
        BY <2>39, Zenon DEF ControlCheck
      <4> QED BY <4>1, SMTT(40)
    <3>5. HostTypes'
      BY <2>39, SMTT(40) DEF ControlCheck, NoticeExit, Running
    <3>6. PlaceInv'
      BY <2>39, SMTT(40) DEF ControlCheck, NoticeExit, Running
    <3> QED BY <3>1, <3>2, <3>3, <3>4, <3>5, <3>6 DEF TypeOK
  <2>40. CASE ControlIdle
    BY <2>40, SMTT(40)
       DEF ControlIdle
  <2>41. CASE ControlPop
    BY <2>41, SMTT(40)
       DEF ControlPop
  <2>42. CASE ControlLeave
    BY <2>42, SMTT(40)
       DEF ControlLeave, ShuttingDown, BroadcastShutdown
  <2>43. ASSUME NEW s \in Session, ControlConnect(s)
       PROVE  Goal
    <3>1. CASE launch_event = launch_id[s]
      <4>1. RequestTypes'
        BY <2>43, <3>1, SMTT(40) DEF ControlConnect
      <4>2. RtspTypes'
        BY <2>43, <3>1, SMTT(40) DEF ControlConnect
      <4>3. SessionTypes'
        BY <2>43, <3>1, SMTT(40) DEF ControlConnect
      <4>4. ContextTypes'
        BY <2>43, <3>1, SMTT(40) DEF ControlConnect
      <4>5. HostTypes'
        BY <2>43, <3>1, SMTT(40) DEF ControlConnect
      <4>6. PlaceInv'
        BY <2>43, <3>1, SMTT(40) DEF ControlConnect
      <4> QED BY <4>1, <4>2, <4>3, <4>4, <4>5, <4>6 DEF TypeOK
    <3>2. CASE launch_event # launch_id[s]
      <4>1. RequestTypes'
        BY <2>43, <3>2, SMTT(40) DEF ControlConnect
      <4>2. RtspTypes'
        BY <2>43, <3>2, SMTT(40) DEF ControlConnect
      <4>3. SessionTypes'
        <5>1. /\ peer' = [peer EXCEPT ![s] = TRUE]
              /\ UNCHANGED <<state, launch_id, shutdown_event, controlEnd,
                             broadcast_ref, running>>
          BY <2>43, <3>2 DEF ControlConnect
        <5> QED BY <5>1, SMTT(40)
      <4>4. ContextTypes'
        BY <2>43, <3>2, SMTT(40) DEF ControlConnect
      <4>5. HostTypes'
        BY <2>43, <3>2, SMTT(40) DEF ControlConnect
      <4>6. PlaceInv'
        BY <2>43, <3>2, SMTT(40) DEF ControlConnect
      <4> QED BY <4>1, <4>2, <4>3, <4>4, <4>5, <4>6 DEF TypeOK
    <3> QED BY <3>1, <3>2
  <2>44. ASSUME NEW s \in Session, ControlDisconnect(s)
       PROVE  Goal
    BY <2>44, SMTT(40)
       DEF ControlDisconnect, Stop
  <2>45. CASE UNCHANGED vars
    BY <2>45
  <2> HIDE DEF Goal, TypeInv, TypeOK, RequestTypes, RtspTypes, SessionTypes,
               ContextTypes, HostTypes, PlaceInv, StartPlace, requests,
               pending, clearing, session, ctrl, shared, Thread, HandlerPlace,
               RtspPlace, MainPlace, State, ControlPlace, AfterClear,
               ClearPlace
  <2>47. QED
    BY <2>1, <2>2, <2>3, <2>4, <2>5, <2>6, <2>7, <2>8, <2>9, <2>10, <2>11,
       <2>12, <2>13, <2>14, <2>15, <2>16, <2>17, <2>18, <2>19, <2>20, <2>21,
       <2>22, <2>23, <2>24, <2>25, <2>26, <2>27, <2>28, <2>29, <2>30, <2>31,
       <2>32, <2>33, <2>34, <2>35, <2>36, <2>37, <2>38, <2>39, <2>40, <2>41,
       <2>42, <2>43, <2>44, <2>45, <2>46
       DEF Next, HandlerStep, RtspStep, ClearStep, ControlStep
<1> QED
  BY <1>1

LEMMA TypeInit == Init => TypeInv
<1> SUFFICES ASSUME Init PROVE TypeInv
  OBVIOUS
<1> USE HostAssumption DEF Init
<1>1. /\ at \in [Thread -> HandlerPlace \cup RtspPlace \cup MainPlace]
      /\ at["rtsp"] = "loop" /\ at["main"] = "wait"
      /\ \A h \in Handler : at[h] = "idle"
  BY DEF Thread, HandlerPlace, RtspPlace, MainPlace
<1>2. /\ made \in [Handler -> Launch \cup {None}]
      /\ state \in [Session -> State]
      /\ launch_id \in [Session -> Launch \cup {None}]
      /\ shutdown_event \in [Session -> BOOLEAN]
      /\ controlEnd \in [Session -> BOOLEAN]
      /\ peer \in [Session -> BOOLEAN]
      /\ broadcast_ref \in [Session -> BOOLEAN]
      /\ running \in [Session -> SUBSET Stream]
  BY DEF State
<1>3. /\ all \in BOOLEAN /\ awaiting_peer \in BOOLEAN
      /\ host_shutdown \in BOOLEAN /\ aborted \in BOOLEAN
  OBVIOUS
<1>4. /\ issued = {} /\ launch_event = None /\ raised_timer = "idle"
      /\ expired = 0 /\ sockets = {} /\ starting = None /\ session_slots = {}
      /\ slots_lock = None /\ unvisited = {} /\ joining = None
      /\ sessions = {} /\ control = "off" /\ claimed = None
      /\ broadcast = "down" /\ ender = None /\ running_sessions = 0
      /\ app = "none"
  OBVIOUS
<1> HIDE DEF Init
<1>5. TypeOK
  BY <1>1, <1>2, <1>3, <1>4, SMTT(40)
     DEF TypeOK, RequestTypes, RtspTypes, SessionTypes, ContextTypes, HostTypes,
         HandlerPlace, RtspPlace, MainPlace, ControlPlace
<1>6. PlaceInv
  BY <1>1, <1>4 DEF PlaceInv, StartPlace
<1> QED BY <1>5, <1>6 DEF TypeInv

(* Every value keeps its type, each thread stays at a place of its own      *)
(* program, whatever the threads of the host do to each other.              *)
THEOREM TypeInvariant == Spec => []TypeOK
<1>1. TypeInv => TypeOK
  BY DEF TypeInv
<1> QED
  BY <1>1, TypeInit, TypePreserved, PTL DEF Spec
-----------------------------------------------------------------------------
(* The inductive invariant.  Stage is how far the session is that ANNOUNCE  *)
(* starts.                                                                  *)
Stage == IF at["rtsp"] \in StartPlace THEN at["rtsp"] ELSE "none"

Holding == {"list", "threads", "running", "counted"}
Live    == {"RUNNING", "STOPPING"}

(* A session under way has its state, its reference and its threads by the  *)
(* stage of start, any other by its state.                                  *)
PhaseInv ==
    \A s \in Session :
        /\ s = starting =>
              /\ state[s] \in (IF Stage = "counted" THEN Live ELSE {"STOPPED"})
              /\ broadcast_ref[s] <=> Stage \in Holding
        /\ s # starting =>
              /\ state[s] # "STOPPED"
              /\ broadcast_ref[s] <=> state[s] \in Live
        /\ running[s] # {} =>
              /\ broadcast_ref[s]
              /\ s = starting => Stage \in {"running", "counted"}

(* The slots hold the sessions that exist; only one that is almost started  *)
(* may have lost its slot, to a cancel.                                     *)
SlotsInv ==
    \A s \in Session :
        /\ s \in session_slots =>
              /\ state[s] \in Live \cup {"STOPPED"}
              /\ s = starting => Stage # "insert"
        /\ s # starting /\ state[s] \in Live => s \in session_slots
        /\ s = starting /\ Stage \in {"ref", "list", "threads", "remove"} =>
              s \in session_slots
        /\ s = starting /\ s \notin session_slots /\ Stage # "insert" =>
              controlEnd[s] /\ running[s] = {}

(* clear joins sessions of the slots, under their lock, none of them while  *)
(* it has no threads.                                                       *)
ClearInv ==
    /\ slots_lock = None => unvisited = {} /\ joining = None
    /\ unvisited \subseteq session_slots
    /\ joining # None =>
          /\ joining \in session_slots \ unvisited
          /\ joining = starting => Stage \in {"running", "counted"}

(* The control thread knows the sessions that hold the context, until it    *)
(* lets go of them, and a session that is not told to it yet has not been   *)
(* let go.                                                                  *)
ListInv ==
    /\ \A s \in Session :
          /\ s \in sessions /\ control # "left" =>
                ~controlEnd[s] /\ broadcast_ref[s]
          /\ state[s] = "none" \/ (s = starting /\ Stage \in
                                     {"insert", "ref", "list", "remove"}) =>
                s \notin sessions /\ ~controlEnd[s]
          /\ (IF s = starting THEN Stage \in {"threads", "running", "counted"}
                              ELSE state[s] \in Live) =>
                s \in sessions \/ controlEnd[s]
    /\ claimed # None => claimed \in sessions
    /\ control = "off" => sessions = {}

(* The context is up exactly while somebody holds it, and has its thread    *)
(* until it is down.                                                        *)
ContextInv ==
    /\ \A s \in Session : broadcast_ref[s] => broadcast = "up"
    /\ broadcast = "up" => \E s \in Session : broadcast_ref[s]
    /\ control = "off" => broadcast = "down"

(* A session that stops was told to.                                        *)
ToldInv == \A s \in Session : state[s] = "STOPPING" => shutdown_event[s]

IInv == /\ TypeInv /\ PhaseInv /\ SlotsInv /\ ClearInv /\ ListInv
        /\ ContextInv /\ ToldInv

(* What the parts of the invariant look at, and the steps that leave it     *)
(* alone.                                                                   *)
Core == <<Stage, starting, session_slots, slots_lock, unvisited, joining, state,
          shutdown_event, controlEnd, broadcast_ref, running, sessions, control,
          claimed, broadcast>>

QuietStep ==
    \/ \E h \in Handler : HandlerStep(h)
    \/ ServerInfo \/ AppExits \/ HostShutdown \/ TimerExpires \/ ForceKill
    \/ Accept \/ TimerHandler \/ Tick \/ LoopEnds
    \/ \E l \in Launch : OtherRequest(l)

LEMMA QuietKeepsCore == TypeInv /\ QuietStep => UNCHANGED Core
<1> SUFFICES ASSUME TypeInv, QuietStep
             PROVE  UNCHANGED Core
  OBVIOUS
<1> DEFINE Goal == UNCHANGED Core
<1> USE HostAssumption
    DEF TypeInv, TypeOK, RequestTypes, Core, Stage, StartPlace, requests, pending,
        clearing, session, ctrl, shared, Thread
<1>0. Goal
  <2>1. ASSUME NEW h \in Handler, NEW l \in Launch, LaunchBegin(h, l)
       PROVE  Goal
    BY <2>1, SMTT(40)
       DEF LaunchBegin, Go, NoticeExit, Running
  <2>2. ASSUME NEW h \in Handler, NEW l \in Launch, ResumeBegin(h, l)
       PROVE  Goal
    BY <2>2, SMTT(40)
       DEF ResumeBegin, Go, Running
  <2>3. ASSUME NEW h \in Handler, GiveUp(h)
       PROVE  Goal
    BY <2>3, SMTT(40)
       DEF GiveUp, Go
  <2>4. ASSUME NEW h \in Handler, NEW works \in BOOLEAN, Execute(h, works)
       PROVE  Goal
    BY <2>4, SMTT(40)
       DEF Execute, Go
  <2>5. ASSUME NEW h \in Handler, ExecuteNothing(h)
       PROVE  Goal
    BY <2>5, SMTT(40)
       DEF ExecuteNothing, Go
  <2>6. ASSUME NEW h \in Handler, SessionRaise(h)
       PROVE  Goal
    BY <2>6, SMTT(40)
       DEF SessionRaise, Go
  <2>7. ASSUME NEW h \in Handler, SetLaunch(h)
       PROVE  Goal
    BY <2>7, SMTT(40)
       DEF SetLaunch, Go
  <2>8. ASSUME NEW h \in Handler, CancelBegin(h)
       PROVE  Goal
    BY <2>8, SMTT(40)
       DEF CancelBegin, Go
  <2>9. ASSUME NEW h \in Handler, CancelTerminate(h)
       PROVE  Goal
    BY <2>9, SMTT(40)
       DEF CancelTerminate, Go
  <2>10. CASE ServerInfo
    BY <2>10, SMTT(40)
       DEF ServerInfo, NoticeExit
  <2>11. CASE AppExits
    BY <2>11, SMTT(40)
       DEF AppExits
  <2>12. CASE HostShutdown
    BY <2>12, SMTT(40)
       DEF HostShutdown, Go
  <2>13. CASE Accept
    BY <2>13, SMTT(40)
       DEF Accept, Go, AtLoop
  <2>14. CASE TimerHandler
    BY <2>14, SMTT(40)
       DEF TimerHandler, Go, AtLoop
  <2>15. CASE Tick
    BY <2>15, SMTT(40)
       DEF Tick, Go, AtLoop
  <2>16. ASSUME NEW l \in Launch, OtherRequest(l)
       PROVE  Goal
    BY <2>16, SMTT(40)
       DEF OtherRequest, Go, AtLoop
  <2>17. CASE LoopEnds
    BY <2>17, SMTT(40)
       DEF LoopEnds, Go
  <2>18. CASE TimerExpires
    BY <2>18, SMTT(40)
       DEF TimerExpires
  <2>19. CASE ForceKill
    BY <2>19, SMTT(40)
       DEF ForceKill
  <2> HIDE DEF Goal, TypeInv, TypeOK, RequestTypes, Core, Stage, StartPlace,
        requests, pending, clearing, session, ctrl, shared, Thread
  <2>20. QED
    BY <2>1, <2>2, <2>3, <2>4, <2>5, <2>6, <2>7, <2>8, <2>9, <2>10, <2>11,
       <2>12, <2>13, <2>14, <2>15, <2>16, <2>17, <2>18, <2>19
       DEF QuietStep, HandlerStep
<1> QED
  BY <1>0 DEF Goal

LEMMA InvPreserved == IInv /\ [Next]_vars => IInv'
<1> SUFFICES ASSUME IInv, [Next]_vars
             PROVE  IInv'
  OBVIOUS
<1> DEFINE Goal == (PhaseInv /\ SlotsInv /\ ClearInv /\ ListInv /\ ContextInv /\ ToldInv)'
<1>1. TypeInv /\ TypeInv'
  BY TypePreserved DEF IInv
<1>2. Goal
  <2>a. /\ PhaseInv /\ SlotsInv /\ ClearInv /\ ListInv /\ ContextInv /\ ToldInv
    BY DEF IInv
  <2>b. /\ starting \in Session \cup {None} /\ joining \in Session \cup {None}
        /\ session_slots \subseteq Session /\ sessions \subseteq Session
        /\ claimed \in Session \cup {None} /\ None \notin Session
        /\ SessionTypes
        /\ claimed # None <=> control = "pop"
        /\ broadcast = "down" => control = "off"
    BY <1>1, HostAssumption DEF TypeInv, PlaceInv, TypeOK, RtspTypes, ContextTypes
  <2> USE <1>1, <2>a, <2>b
      DEF SessionTypes, PhaseInv, SlotsInv, ClearInv, ListInv, ContextInv,
          ToldInv, Holding, Live, pending, clearing, session, ctrl, shared,
          State
  <2>1. ASSUME NEW s \in Session, NEW l \in Launch, Announce(s, l)
       PROVE  Goal
    <3>1. Stage = "none" /\ Stage' = "insert"
      BY <2>1, SMTT(40) DEF Announce, Go, Stage, StartPlace, TypeInv, TypeOK, RequestTypes, AtLoop
    <3>2. starting # None <=> Stage # "none"
      BY DEF Stage, StartPlace, TypeInv, PlaceInv
    <3> QED BY <2>1, <3>1, <3>2, SMTT(40)
            DEF Announce
  <2>2. CASE Insert
    <3>1. Stage = "insert" /\ Stage' = "ref"
      BY <2>2, SMTT(40) DEF Insert, Go, Stage, StartPlace, TypeInv, TypeOK, RequestTypes
    <3>2. starting # None <=> Stage # "none"
      BY DEF Stage, StartPlace, TypeInv, PlaceInv
    <3> QED BY <2>2, <3>1, <3>2, SMTT(40)
            DEF Insert
  <2>3. CASE StartRef
    <3>1. Stage = "ref" /\ Stage' = "list"
      BY <2>3, SMTT(40) DEF StartRef, Go, Stage, StartPlace, TypeInv, TypeOK, RequestTypes
    <3>2. starting # None <=> Stage # "none"
      BY DEF Stage, StartPlace, TypeInv, PlaceInv
    <3> QED BY <2>3, <3>1, <3>2, SMTT(40)
            DEF StartRef
  <2>4. CASE StartBuilds
    <3>1. Stage = "ref" /\ Stage' = "list"
      BY <2>4, SMTT(40) DEF StartBuilds, Go, Stage, StartPlace, TypeInv, TypeOK, RequestTypes
    <3>2. starting # None <=> Stage # "none"
      BY DEF Stage, StartPlace, TypeInv, PlaceInv
    <3> QED BY <2>4, <3>1, <3>2, SMTT(40)
            DEF StartBuilds
  <2>5. CASE StartFails
    <3>1. Stage = "ref" /\ Stage' = "remove"
      BY <2>5, SMTT(40) DEF StartFails, Go, Stage, StartPlace, TypeInv, TypeOK, RequestTypes
    <3>2. starting # None <=> Stage # "none"
      BY DEF Stage, StartPlace, TypeInv, PlaceInv
    <3> QED BY <2>5, <3>1, <3>2, SMTT(40)
            DEF StartFails
  <2>6. CASE Remove
    <3>1. Stage = "remove" /\ Stage' = "none"
      BY <2>6, SMTT(40) DEF Remove, Go, Stage, StartPlace, TypeInv, TypeOK, RequestTypes
    <3>2. starting # None <=> Stage # "none"
      BY DEF Stage, StartPlace, TypeInv, PlaceInv
    <3> QED BY <2>6, <3>1, <3>2, SMTT(40)
            DEF Remove
  <2>7. CASE StartList
    <3>1. Stage = "list" /\ Stage' = "threads"
      BY <2>7, SMTT(40) DEF StartList, Go, Stage, StartPlace, TypeInv, TypeOK, RequestTypes
    <3>2. starting # None <=> Stage # "none"
      BY DEF Stage, StartPlace, TypeInv, PlaceInv
    <3> QED BY <2>7, <3>1, <3>2, SMTT(40)
            DEF StartList
  <2>8. CASE StartThreads
    <3>1. Stage = "threads" /\ Stage' = "running"
      BY <2>8, SMTT(40) DEF StartThreads, Go, Stage, StartPlace, TypeInv, TypeOK, RequestTypes
    <3>2. starting # None <=> Stage # "none"
      BY DEF Stage, StartPlace, TypeInv, PlaceInv
    <3> QED BY <2>8, <3>1, <3>2, SMTT(40)
            DEF StartThreads
  <2>9. CASE StartRunning
    <3>1. Stage = "running" /\ Stage' = "counted"
      BY <2>9, SMTT(40) DEF StartRunning, Go, Stage, StartPlace, TypeInv, TypeOK, RequestTypes
    <3>2. starting # None <=> Stage # "none"
      BY DEF Stage, StartPlace, TypeInv, PlaceInv
    <3> QED BY <2>9, <3>1, <3>2, SMTT(40)
            DEF StartRunning
  <2>10. CASE StartCounted
    <3>1. Stage = "counted" /\ Stage' = "none"
      BY <2>10, SMTT(40) DEF StartCounted, Go, Stage, StartPlace, TypeInv, TypeOK, RequestTypes
    <3>2. starting # None <=> Stage # "none"
      BY DEF Stage, StartPlace, TypeInv, PlaceInv
    <3> QED BY <2>10, <3>1, <3>2, SMTT(40)
            DEF StartCounted, Destroy, LastReference
  <2>11. ASSUME NEW t \in Thread, Clear(t)
       PROVE  Goal
    <3>0. t # None
      BY HostAssumption DEF Thread
    <3>1. Stage' = Stage
      BY <2>11 DEF Clear, Stage, requests
    <3> QED BY <2>11, <3>1, <3>0, SMTT(40)
            DEF Clear, BroadcastShutdown
  <2>12. ASSUME NEW s \in Session, LetBe(s)
       PROVE  Goal
    <3>1. Stage' = Stage
      BY <2>12 DEF LetBe, Stage, requests
    <3> QED BY <2>12, <3>1, SMTT(40)
            DEF LetBe, ClearTurn
  <2>13. ASSUME NEW s \in Session, StopAndJoin(s)
       PROVE  Goal
    <3>0. s = starting => Stage \in {"running", "counted"}
      BY <2>13, <1>1, SMTT(40) DEF StopAndJoin, Unspawned, Stage, StartPlace, TypeInv,
         PlaceInv, TypeOK, RequestTypes, RtspPlace
    <3>1. Stage' = Stage
      BY <2>13 DEF StopAndJoin, Stage, requests
    <3> QED BY <2>13, <3>1, <3>0, SMTT(40)
            DEF StopAndJoin, Stop, ClearTurn, Unspawned
  <2>14. ASSUME NEW s \in Session, JoinThrows(s)
       PROVE  Goal
    <3>1. Stage' = Stage
      <4>1. slots_lock # None /\ at["rtsp"] \in StartPlace
        BY <2>14, SMTT(40) DEF JoinThrows, ClearTurn, Unspawned, StartPlace
      <4>2. slots_lock # "rtsp"
        BY <4>1, SMTT(40)
           DEF TypeInv, PlaceInv, ClearPlace, AfterClear, StartPlace
      <4>3. at'["rtsp"] = at["rtsp"]
        BY <2>14, <4>2, SMTT(40)
           DEF JoinThrows, Go, TypeInv, TypeOK, RequestTypes, Thread
      <4> QED BY <4>3 DEF Stage
    <3> QED BY <2>14, <3>1, SMTT(40)
            DEF JoinThrows, ClearTurn, Unspawned
  <2>15. ASSUME NEW s \in Session, JoinEnds(s)
       PROVE  Goal
    <3>1. Stage' = Stage
      BY <2>15 DEF JoinEnds, Stage, requests
    <3> QED BY <2>15, <3>1, SMTT(40)
            DEF JoinEnds, Destroy, LastReference
  <2>16. CASE ClearEnds
    <3>1. Stage' = Stage
      <4>1. CASE slots_lock = "rtsp"
        <5>1. at["rtsp"] \in {"clear", "final"}
          BY <2>16, <4>1, SMTT(40) DEF ClearEnds, ClearTurn, TypeInv, PlaceInv, TypeOK,
             RequestTypes, RtspPlace, ClearPlace, AfterClear
        <5>2. at'["rtsp"] \in {"loop", "done"}
          BY <2>16, <4>1, <5>1, SMTT(40) DEF ClearEnds, Go, AfterClear, TypeInv,
             TypeOK, RequestTypes, Thread
        <5> QED BY <5>1, <5>2, SMTT(40) DEF Stage, StartPlace
      <4>2. CASE slots_lock # "rtsp"
        <5>1. at'["rtsp"] = at["rtsp"]
          BY <2>16, <4>2, SMTT(40) DEF ClearEnds, Go, TypeInv, TypeOK, RequestTypes, Thread
        <5> QED BY <5>1 DEF Stage
      <4> QED BY <4>1, <4>2
    <3> QED BY <2>16, <3>1, SMTT(40)
            DEF ClearEnds, ClearTurn
  <2>17. CASE EndBroadcast
    <3>1. Stage' = Stage
      BY <2>17 DEF EndBroadcast, Stage, requests
    <3> QED BY <2>17, <3>1, SMTT(40)
            DEF EndBroadcast
  <2>18. ASSUME NEW s \in Session, NEW t \in Stream, StreamStops(s, t)
       PROVE  Goal
    <3>1. Stage' = Stage
      BY <2>18 DEF StreamStops, StreamEnds, Stage, requests
    <3> QED BY <2>18, <3>1, SMTT(40)
            DEF StreamStops, StreamEnds, Stop
  <2>19. ASSUME NEW s \in Session, NEW t \in Stream, StreamFails(s, t)
       PROVE  Goal
    <3>1. Stage' = Stage
      BY <2>19 DEF StreamFails, StreamEnds, Stage, requests
    <3> QED BY <2>19, <3>1, SMTT(40)
            DEF StreamFails, StreamEnds, Stop
  <2>20. ASSUME NEW silent \in SUBSET Session, ControlSweep(silent)
       PROVE  Goal
    <3>1. Stage' = Stage
      BY <2>20 DEF ControlSweep, Stage, requests
    <3> QED BY <2>20, <3>1, SMTT(40)
            DEF ControlSweep, Stop, ShuttingDown, BroadcastShutdown
  <2>21. CASE ControlCheck
    <3>1. Stage' = Stage
      BY <2>21 DEF ControlCheck, Stage, requests
    <3> QED BY <2>21, <3>1, SMTT(40)
            DEF ControlCheck
  <2>22. CASE ControlIdle
    <3>1. Stage' = Stage
      BY <2>22 DEF ControlIdle, Stage, requests
    <3> QED BY <2>22, <3>1, SMTT(40)
            DEF ControlIdle
  <2>23. CASE ControlPop
    <3>1. Stage' = Stage
      BY <2>23 DEF ControlPop, Stage, requests
    <3> QED BY <2>23, <3>1, SMTT(40)
            DEF ControlPop
  <2>24. CASE ControlLeave
    <3>1. Stage' = Stage
      BY <2>24 DEF ControlLeave, Stage, requests
    <3> QED BY <2>24, <3>1, SMTT(40)
            DEF ControlLeave, ShuttingDown, BroadcastShutdown
  <2>25. ASSUME NEW s \in Session, ControlConnect(s)
       PROVE  Goal
    <3>1. Stage' = Stage
      BY <2>25 DEF ControlConnect, Stage, requests
    <3> QED BY <2>25, <3>1, SMTT(40)
            DEF ControlConnect
  <2>26. ASSUME NEW s \in Session, ControlDisconnect(s)
       PROVE  Goal
    <3>1. Stage' = Stage
      BY <2>26 DEF ControlDisconnect, Stage, requests
    <3> QED BY <2>26, <3>1, SMTT(40)
            DEF ControlDisconnect, Stop
  <2>27. CASE UNCHANGED vars \/ QuietStep
    <3>1. UNCHANGED Core
      BY <1>1, <2>27, QuietKeepsCore DEF Core, vars, requests, Stage
    <3> QED BY <3>1, SMTT(40) DEF Core
  <2> HIDE DEF Goal, SessionTypes, PhaseInv, SlotsInv, ClearInv, ListInv, ContextInv,
        ToldInv, pending, clearing, session, ctrl, shared, State
  <2>29. QED
    BY <2>1, <2>2, <2>3, <2>4, <2>5, <2>6, <2>7, <2>8, <2>9, <2>10, <2>11,
       <2>12, <2>13, <2>14, <2>15, <2>16, <2>17, <2>18, <2>19, <2>20, <2>21,
       <2>22, <2>23, <2>24, <2>25, <2>26, <2>27
       DEF Next, RtspStep, ClearStep, ControlStep, QuietStep
<1> QED
  BY <1>1, <1>2 DEF IInv
-----------------------------------------------------------------------------
LEMMA InvInit == Init => IInv
<1> SUFFICES ASSUME Init PROVE IInv
  OBVIOUS
<1>1. TypeInv
  BY TypeInit
<1>2. /\ starting = None /\ session_slots = {} /\ slots_lock = None
      /\ unvisited = {} /\ joining = None /\ sessions = {} /\ control = "off"
      /\ claimed = None /\ broadcast = "down"
      /\ \A s \in Session : /\ state[s] = "none" /\ running[s] = {}
                            /\ ~broadcast_ref[s] /\ ~controlEnd[s]
                            /\ s # starting
  BY HostAssumption DEF Init
<1> QED
  BY <1>1, <1>2
     DEF IInv, PhaseInv, SlotsInv, ClearInv, ListInv, ContextInv, ToldInv, Live

THEOREM Invariant == Spec => []IInv
<1> QED
  BY InvInit, InvPreserved, PTL DEF Spec

(* What the invariant says of the sessions. *)
LEMMA InvCovers ==
    IInv => NoDanglingSession /\ ContextCoversUsers /\ JoinProgresses
<1> SUFFICES ASSUME IInv
             PROVE  NoDanglingSession /\ ContextCoversUsers /\ JoinProgresses
  OBVIOUS
<1> USE DEF PhaseInv, SlotsInv, ClearInv, ListInv, ContextInv, ToldInv, Holding,
        Live
<1>1. /\ PhaseInv /\ SlotsInv /\ ClearInv /\ ListInv /\ ContextInv /\ ToldInv
      /\ TypeInv
  BY DEF IInv
<1>2. /\ joining \in Session \cup {None} /\ sessions \subseteq Session
      /\ claimed # None <=> control = "pop"
      /\ None \notin Session
  BY <1>1, HostAssumption
     DEF TypeInv, TypeOK, RtspTypes, ContextTypes, PlaceInv
<1>6. /\ joining # None => joining \in session_slots
      /\ claimed # None => claimed \in sessions
  BY <1>1
<1>3. NoDanglingSession
  <2> SUFFICES ASSUME NEW s \in Session, state[s] = "gone"
               PROVE  /\ running[s] = {} /\ claimed # s /\ joining # s
                      /\ s \in sessions => control = "left"
    BY DEF NoDanglingSession
  <2>1. s # starting
    BY <1>1, SMTT(40)
  <2>2. ~broadcast_ref[s] /\ s \notin session_slots
    BY <1>1, <2>1, SMTT(40)
  <2>3. running[s] = {} /\ (s \in sessions => control = "left")
    BY <1>1, <2>2, SMTT(40)
  <2>4. claimed # s
    BY <1>2, <1>6, <2>3
  <2>5. joining # s
    BY <1>2, <1>6, <2>2
  <2> QED BY <2>3, <2>4, <2>5
<1>4. ContextCoversUsers
  BY <1>1, <1>2, SMTT(40) DEF ContextCoversUsers
<1>5. JoinProgresses
  <2> SUFFICES ASSUME joining # None, ~Wedged
               PROVE  /\ shutdown_event[joining]
                      /\ \/ controlEnd[joining]
                         \/ joining \in sessions /\ control \notin {"off", "left"}
    BY DEF JoinProgresses
  <2>1. joining \in Session /\ state[joining] = "STOPPING"
    BY <1>2 DEF Wedged, JoinedUnstopped
  <2>2. shutdown_event[joining] /\ broadcast_ref[joining]
    BY <1>1, <2>1, SMTT(40)
  <2>3. joining \in sessions \/ controlEnd[joining]
    <3>1. joining = starting => Stage \in {"threads", "running", "counted"}
      BY <1>1, <2>1, SMTT(40)
    <3>2. state[joining] \in Live
      BY <2>1
    <3>3. ListInv
      BY <1>1
    <3> HIDE DEF Live
    <3> QED BY <2>1, <3>1, <3>2, <3>3
  <2>4. control # "off"
    BY <1>1, <2>1, <2>2, SMTT(40)
  <2>5. control = "left" => joining \notin sessions \/ controlEnd[joining]
    BY <2>1 DEF Wedged, ListedTooLate
  <2> QED BY <2>2, <2>3, <2>4, <2>5
<1> QED BY <1>3, <1>4, <1>5

(* No session is destroyed while a thread of its own, the control thread or *)
(* a join still follows a pointer to it, however the handlers, the RTSP     *)
(* server, the control thread and the shutdown are interleaved.             *)
THEOREM NoUseAfterDestroy == Spec => []NoDanglingSession
<1> QED
  BY Invariant, InvCovers, PTL

(* The shared sockets and threads outlive every session that uses them, and *)
(* are given up with the last one.                                          *)
THEOREM ContextOutlivesUsers == Spec => []ContextCoversUsers
<1> QED
  BY Invariant, InvCovers, PTL

(* A join that blocks the slots waits for a session that was told to end    *)
(* and for a control thread that is there, but for the three ways to wait   *)
(* for ever the code has.                                                   *)
THEOREM JoinsProgress == Spec => []JoinProgresses
<1> QED
  BY Invariant, InvCovers, PTL
-----------------------------------------------------------------------------
(* The refinement.  Steps that stop sessions end the live ones among them.  *)
LEMMA StopRefines ==
    ASSUME TypeOK, NEW S \in SUBSET Session, Stop(S),
           UNCHANGED <<broadcast_ref, broadcast>>
    PROVE  [Contract!Next]_(Contract!contractVars)
<1> DEFINE L == {s \in S : state[s] = "RUNNING"}
<1>1. state \in [Session -> State] /\ L \subseteq Session
  BY DEF TypeOK, SessionTypes
<1>2. state' = [s \in Session |-> IF s \in L THEN "STOPPING" ELSE state[s]]
  BY DEF Stop
<1>3. UNCHANGED <<Holders, broadcast>>
  BY DEF Holders
<1>4. CASE L = {}
  <2>1. \A s \in Session : state'[s] = state[s]
    BY <1>2, <1>4
  <2>2. Phase' = Phase
    BY <2>1 DEF Phase
  <2> QED BY <1>3, <2>2 DEF Contract!contractVars
<1>5. CASE L # {}
  <2>1. \A s \in L : Phase[s] = "live"
    BY <1>1 DEF Phase, PhaseOf
  <2>2. \A s \in Session : state'[s] = IF s \in L THEN "STOPPING" ELSE state[s]
    BY <1>2
  <2>3. Phase' = [s \in Session |-> IF s \in L THEN "ending" ELSE Phase[s]]
    BY <2>2, SMTT(40) DEF Phase, PhaseOf
  <2>4. Contract!EndLive(L)
    BY <1>3, <1>5, <2>1, <2>3 DEF Contract!EndLive
  <2> QED BY <1>1, <2>4 DEF Contract!Next
<1> QED BY <1>4, <1>5

(* The phase follows the state.                                             *)
LEMMA PhaseFollows ==
    ASSUME TypeOK, NEW s \in Session, NEW v, state' = [state EXCEPT ![s] = v]
    PROVE  Phase' = [Phase EXCEPT ![s] = PhaseOf[v]]
<1>1. \A x \in Session : state'[x] = IF x = s THEN v ELSE state[x]
  BY DEF TypeOK, SessionTypes
<1>2. \A x \in Session : PhaseOf[state'[x]] = IF x = s THEN PhaseOf[v] ELSE Phase[x]
  BY <1>1 DEF Phase
<1> QED BY <1>2 DEF Phase

(* Destroying a session that holds the context closes it.                   *)
LEMMA DestroyRefines ==
    ASSUME TypeOK, ContextInv, NEW s \in Session, NEW t, Destroy(s, t),
           broadcast_ref[s], state[s] \in Live
    PROVE  Contract!Close(s)
<1>1. /\ state' = [state EXCEPT ![s] = "gone"]
      /\ broadcast_ref' = [broadcast_ref EXCEPT ![s] = FALSE]
  BY DEF Destroy
<1>2. state \in [Session -> State] /\ broadcast_ref \in [Session -> BOOLEAN]
  BY DEF TypeOK, SessionTypes
<1>3. Phase[s] \in {"live", "ending"}
  BY DEF Phase, PhaseOf, Live
<1>4. PhaseOf["gone"] = "closed"
  BY DEF PhaseOf
<1>5. Phase' = [Phase EXCEPT ![s] = "closed"]
  BY <1>1, <1>4, PhaseFollows
<1>6. \A x \in Session : broadcast_ref'[x] <=> x # s /\ broadcast_ref[x]
  BY <1>1, <1>2
<1>7. Holders' = Holders \ {s} /\ s \in Holders
  BY <1>6 DEF Holders
<1>8. broadcast' = IF Holders' = {} THEN "ending" ELSE broadcast
  <2>1. Holders' = {} <=> LastReference(s)
    BY <1>6 DEF Holders, LastReference
  <2>2. CASE LastReference(s)
    BY <2>1, <2>2 DEF Destroy
  <2>3. CASE ~LastReference(s)
    BY <2>1, <2>3 DEF Destroy, shared
  <2> QED BY <2>2, <2>3
<1> QED
  BY <1>3, <1>5, <1>7, <1>8 DEF Contract!Close, Contract!Move

(* Only these steps touch what the contract speaks of.                      *)
Touching ==
    \/ \E s \in Session, l \in Launch : Announce(s, l)
    \/ StartRef \/ StartBuilds \/ Remove \/ StartRunning \/ StartCounted
    \/ \E s \in Session : StopAndJoin(s) \/ JoinEnds(s) \/ ControlDisconnect(s)
    \/ \E s \in Session, t \in Stream : StreamStops(s, t) \/ StreamFails(s, t)
    \/ \E silent \in SUBSET Session : ControlSweep(silent)
    \/ EndBroadcast

LEMMA OthersStutter ==
    [Next]_vars /\ ~Touching => UNCHANGED <<state, broadcast_ref, broadcast>>
<1> SUFFICES ASSUME [Next]_vars, ~Touching
             PROVE  UNCHANGED <<state, broadcast_ref, broadcast>>
  OBVIOUS
<1> USE DEF session, shared
<1>1. ASSUME NEW h \in Handler, NEW l \in Launch, LaunchBegin(h, l)
     PROVE  UNCHANGED <<state, broadcast_ref, broadcast>>
  BY <1>1
     DEF LaunchBegin
<1>2. ASSUME NEW h \in Handler, NEW l \in Launch, ResumeBegin(h, l)
     PROVE  UNCHANGED <<state, broadcast_ref, broadcast>>
  BY <1>2
     DEF ResumeBegin
<1>3. ASSUME NEW h \in Handler, GiveUp(h)
     PROVE  UNCHANGED <<state, broadcast_ref, broadcast>>
  BY <1>3
     DEF GiveUp
<1>4. ASSUME NEW h \in Handler, NEW works \in BOOLEAN, Execute(h, works)
     PROVE  UNCHANGED <<state, broadcast_ref, broadcast>>
  BY <1>4
     DEF Execute
<1>5. ASSUME NEW h \in Handler, ExecuteNothing(h)
     PROVE  UNCHANGED <<state, broadcast_ref, broadcast>>
  BY <1>5
     DEF ExecuteNothing
<1>6. ASSUME NEW h \in Handler, SessionRaise(h)
     PROVE  UNCHANGED <<state, broadcast_ref, broadcast>>
  BY <1>6
     DEF SessionRaise
<1>7. ASSUME NEW h \in Handler, SetLaunch(h)
     PROVE  UNCHANGED <<state, broadcast_ref, broadcast>>
  BY <1>7
     DEF SetLaunch
<1>8. ASSUME NEW h \in Handler, CancelBegin(h)
     PROVE  UNCHANGED <<state, broadcast_ref, broadcast>>
  BY <1>8
     DEF CancelBegin
<1>9. ASSUME NEW h \in Handler, CancelTerminate(h)
     PROVE  UNCHANGED <<state, broadcast_ref, broadcast>>
  BY <1>9
     DEF CancelTerminate
<1>10. CASE ServerInfo
  BY <1>10
     DEF ServerInfo
<1>11. CASE AppExits
  BY <1>11
     DEF AppExits
<1>12. CASE HostShutdown
  BY <1>12
     DEF HostShutdown
<1>13. CASE Accept
  BY <1>13
     DEF Accept
<1>14. CASE TimerHandler
  BY <1>14
     DEF TimerHandler
<1>15. CASE Tick
  BY <1>15
     DEF Tick
<1>16. ASSUME NEW l \in Launch, OtherRequest(l)
     PROVE  UNCHANGED <<state, broadcast_ref, broadcast>>
  BY <1>16
     DEF OtherRequest
<1>17. CASE Insert
  BY <1>17
     DEF Insert
<1>18. CASE StartFails
  BY <1>18
     DEF StartFails
<1>19. CASE StartList
  BY <1>19
     DEF StartList
<1>20. CASE StartThreads
  BY <1>20
     DEF StartThreads
<1>21. CASE LoopEnds
  BY <1>21
     DEF LoopEnds
<1>22. CASE TimerExpires
  BY <1>22
     DEF TimerExpires
<1>23. ASSUME NEW t \in Thread, Clear(t)
     PROVE  UNCHANGED <<state, broadcast_ref, broadcast>>
  BY <1>23
     DEF Clear
<1>24. ASSUME NEW s \in Session, LetBe(s)
     PROVE  UNCHANGED <<state, broadcast_ref, broadcast>>
  BY <1>24
     DEF LetBe
<1>25. ASSUME NEW s \in Session, JoinThrows(s)
     PROVE  UNCHANGED <<state, broadcast_ref, broadcast>>
  BY <1>25
     DEF JoinThrows
<1>26. CASE ClearEnds
  BY <1>26
     DEF ClearEnds
<1>27. CASE ForceKill
  BY <1>27
     DEF ForceKill
<1>28. CASE ControlCheck
  BY <1>28
     DEF ControlCheck
<1>29. CASE ControlIdle
  BY <1>29
     DEF ControlIdle
<1>30. CASE ControlPop
  BY <1>30
     DEF ControlPop
<1>31. CASE ControlLeave
  BY <1>31
     DEF ControlLeave
<1>32. ASSUME NEW s \in Session, ControlConnect(s)
     PROVE  UNCHANGED <<state, broadcast_ref, broadcast>>
  BY <1>32
     DEF ControlConnect
<1>33. CASE UNCHANGED vars
  BY <1>33 DEF vars
<1>34. QED
  BY <1>1, <1>2, <1>3, <1>4, <1>5, <1>6, <1>7, <1>8, <1>9, <1>10, <1>11,
     <1>12, <1>13, <1>14, <1>15, <1>16, <1>17, <1>18, <1>19, <1>20, <1>21,
     <1>22, <1>23, <1>24, <1>25, <1>26, <1>27, <1>28, <1>29, <1>30, <1>31,
     <1>32, <1>33
     DEF Next, HandlerStep, RtspStep, ClearStep, ControlStep, Touching

LEMMA StepRefines ==
    IInv /\ [Next]_vars => [Contract!Next]_(Contract!contractVars)
<1> SUFFICES ASSUME IInv, [Next]_vars
             PROVE  [Contract!Next]_(Contract!contractVars)
  OBVIOUS
<1>1. /\ TypeOK /\ PlaceInv /\ PhaseInv /\ SlotsInv /\ ClearInv /\ ListInv
      /\ ContextInv
  BY DEF IInv, TypeInv
<1>2. /\ state \in [Session -> State] /\ broadcast_ref \in [Session -> BOOLEAN]
      /\ starting \in Session \cup {None} /\ joining \in Session \cup {None}
      /\ None \notin Session
  BY <1>1, HostAssumption DEF TypeOK, SessionTypes, RtspTypes
<1>3. starting # None <=> Stage # "none"
  BY <1>1 DEF PlaceInv, Stage, StartPlace
<1>4. ASSUME NEW s \in Session, NEW l \in Launch, Announce(s, l)
      PROVE  Contract!Open(s)
  <2>1. /\ state[s] = "none" /\ state' = [state EXCEPT ![s] = "STOPPED"]
        /\ UNCHANGED <<broadcast_ref, broadcast>>
    BY <1>4 DEF Announce, shared
  <2>2. Phase' = [Phase EXCEPT ![s] = "opening"] /\ Phase[s] = "none"
    <3>1. PhaseOf["STOPPED"] = "opening" /\ Phase[s] = "none"
      BY <2>1 DEF Phase, PhaseOf
    <3> QED BY <1>1, <2>1, <3>1, PhaseFollows
  <2> QED BY <2>1, <2>2 DEF Contract!Open, Contract!Move, Holders
<1>5. CASE StartRef \/ StartBuilds
  <2>1. /\ at["rtsp"] = "ref" /\ state' = state /\ broadcast # "ending"
        /\ broadcast' = "up"
        /\ broadcast_ref' = [broadcast_ref EXCEPT ![starting] = TRUE]
    BY <1>5 DEF StartRef, StartBuilds, shared
  <2>2. Stage = "ref"
    BY <2>1 DEF Stage, StartPlace
  <2>3. starting \in Session
    BY <1>2, <1>3, <2>2
  <2>4. state[starting] = "STOPPED" /\ ~broadcast_ref[starting]
    BY <1>1, <2>2, <2>3, SMTT(40) DEF PhaseInv, Holding
  <2>5. Holders' = Holders \cup {starting} /\ starting \notin Holders
    BY <1>2, <2>1, <2>3, <2>4 DEF Holders
  <2>6. Phase' = Phase /\ Phase[starting] = "opening"
    BY <2>1, <2>3, <2>4 DEF Phase, PhaseOf
  <2>7. Contract!Acquire(starting)
    BY <2>1, <2>5, <2>6 DEF Contract!Acquire
  <2> QED BY <2>3, <2>7 DEF Contract!Next
<1>6. CASE Remove
  <2>1. /\ at["rtsp"] = "remove" /\ UNCHANGED <<broadcast_ref, broadcast>>
        /\ state' = [state EXCEPT ![starting] = "gone"]
    BY <1>6 DEF Remove, shared
  <2>2. Stage = "remove"
    BY <2>1 DEF Stage, StartPlace
  <2>3. starting \in Session
    BY <1>2, <1>3, <2>2
  <2>4. state[starting] = "STOPPED" /\ ~broadcast_ref[starting]
    BY <1>1, <2>2, <2>3, SMTT(40) DEF PhaseInv, Holding
  <2>5. Phase' = [Phase EXCEPT ![starting] = "closed"] /\ Phase[starting] = "opening"
    <3>1. PhaseOf["gone"] = "closed" /\ Phase[starting] = "opening"
      BY <2>3, <2>4 DEF Phase, PhaseOf
    <3> QED BY <1>1, <2>1, <2>3, <3>1, PhaseFollows
  <2>6. Contract!Abandon(starting)
    BY <2>1, <2>4, <2>5 DEF Contract!Abandon, Contract!Move, Holders
  <2> QED BY <2>3, <2>6 DEF Contract!Next
<1>7. CASE StartRunning
  <2>1. /\ at["rtsp"] = "running" /\ UNCHANGED <<broadcast_ref, broadcast>>
        /\ state' = [state EXCEPT ![starting] = "RUNNING"]
    BY <1>7 DEF StartRunning, shared
  <2>2. Stage = "running"
    BY <2>1 DEF Stage, StartPlace
  <2>3. starting \in Session
    BY <1>2, <1>3, <2>2
  <2>4. state[starting] = "STOPPED" /\ broadcast_ref[starting]
    BY <1>1, <2>2, <2>3, SMTT(40) DEF PhaseInv, Holding
  <2>5. Phase' = [Phase EXCEPT ![starting] = "live"] /\ Phase[starting] = "opening"
    <3>1. PhaseOf["RUNNING"] = "live" /\ Phase[starting] = "opening"
      BY <2>3, <2>4 DEF Phase, PhaseOf
    <3> QED BY <1>1, <2>1, <2>3, <3>1, PhaseFollows
  <2>6. Contract!GoLive(starting)
    BY <2>1, <2>3, <2>4, <2>5 DEF Contract!GoLive, Contract!Move, Holders
  <2> QED BY <2>3, <2>6 DEF Contract!Next
<1>8. CASE StartCounted
  <2>1. CASE starting \in session_slots
    <3>1. UNCHANGED <<state, broadcast_ref, broadcast>>
      BY <1>8, <2>1 DEF StartCounted, shared
    <3> QED BY <3>1 DEF Contract!contractVars, Phase, Holders
  <2>2. CASE starting \notin session_slots
    <3>1. at["rtsp"] = "counted" /\ Destroy(starting, "rtsp")
      BY <1>8, <2>2 DEF StartCounted
    <3>2. Stage = "counted"
      BY <3>1 DEF Stage, StartPlace
    <3>3. starting \in Session
      BY <1>2, <1>3, <3>2
    <3>4. state[starting] \in Live /\ broadcast_ref[starting]
      BY <1>1, <3>2, <3>3, SMTT(40) DEF PhaseInv, Holding
    <3>5. Contract!Close(starting)
      BY <1>1, <3>1, <3>3, <3>4, DestroyRefines
    <3> QED BY <3>3, <3>5 DEF Contract!Next
  <2> QED BY <2>1, <2>2
<1>9. ASSUME NEW s \in Session, JoinEnds(s)
      PROVE  [Contract!Next]_(Contract!contractVars)
  <2>1. CASE s = starting
    <3>1. UNCHANGED <<state, broadcast_ref, broadcast>>
      BY <1>9, <2>1 DEF JoinEnds, shared
    <3> QED BY <3>1 DEF Contract!contractVars, Phase, Holders
  <2>2. CASE s # starting
    <3>1. joining = s /\ Destroy(s, slots_lock)
      BY <1>9, <2>2 DEF JoinEnds
    <3>2. s \in session_slots
      BY <1>1, <1>2, <3>1 DEF ClearInv
    <3>3. state[s] \in Live /\ broadcast_ref[s]
      BY <1>1, <2>2, <3>2, SMTT(40) DEF PhaseInv, SlotsInv, Live
    <3>4. Contract!Close(s)
      BY <1>1, <3>1, <3>3, DestroyRefines
    <3> QED BY <3>4 DEF Contract!Next
  <2> QED BY <2>1, <2>2
<1>10. ASSUME NEW s \in Session,
              \/ StopAndJoin(s) \/ ControlDisconnect(s)
              \/ \E t \in Stream : StreamStops(s, t) \/ StreamFails(s, t)
       PROVE  [Contract!Next]_(Contract!contractVars)
  <2>1. Stop({s}) /\ UNCHANGED <<broadcast_ref, broadcast>>
    BY <1>10 DEF StopAndJoin, ControlDisconnect, StreamStops, StreamFails,
                 StreamEnds, shared
  <2> QED BY <1>1, <2>1, StopRefines
<1>11. ASSUME NEW silent \in SUBSET Session, ControlSweep(silent)
       PROVE  [Contract!Next]_(Contract!contractVars)
  <2>1. Stop(silent) /\ UNCHANGED <<broadcast_ref, broadcast>>
    BY <1>11 DEF ControlSweep, shared
  <2> QED BY <1>1, <2>1, StopRefines
<1>12. CASE EndBroadcast
  <2>1. /\ broadcast = "ending" /\ broadcast' = "down"
        /\ UNCHANGED <<state, broadcast_ref>>
    BY <1>12 DEF EndBroadcast, session
  <2>2. Contract!Ended
    BY <2>1 DEF Contract!Ended, Phase, Holders
  <2> QED BY <2>2 DEF Contract!Next
<1>13. CASE ~Touching
  <2>1. UNCHANGED <<state, broadcast_ref, broadcast>>
    BY <1>13, OthersStutter
  <2> QED BY <2>1 DEF Contract!contractVars, Phase, Holders
<1>14. QED
  <2>1. CASE Touching
    <3>1. ASSUME NEW s \in Session, NEW l \in Launch, Announce(s, l)
          PROVE  [Contract!Next]_(Contract!contractVars)
      BY <1>4, <3>1 DEF Contract!Next
    <3> QED BY <2>1, <3>1, <1>5, <1>6, <1>7, <1>8, <1>9, <1>10, <1>11, <1>12
            DEF Touching
  <2> QED BY <2>1, <1>13

LEMMA InitRefines == Init => Contract!Init
<1> SUFFICES ASSUME Init PROVE Contract!Init
  OBVIOUS
<1>1. \A s \in Session : state[s] = "none" /\ ~broadcast_ref[s]
  BY DEF Init
<1>2. Phase = [s \in Session |-> "none"] /\ Holders = {} /\ broadcast = "down"
  BY <1>1 DEF Init, Phase, PhaseOf, Holders
<1> QED BY <1>2 DEF Contract!Init

(* HostStream implements StreamContract: sessions go through their life in  *)
(* order, and the shared context is there for exactly as long as one of     *)
(* them holds it.                                                           *)
THEOREM ContractHonoured == Spec => HonoursContract
<1> QED
  BY InitRefines, StepRefines, Invariant, PTL
     DEF Spec, HonoursContract, Contract!Spec

-----------------------------------------------------------------------------
(* The count of sessions.                                                   *)
Uncounted == starting \notin session_slots \cup {None} /\ at["rtsp"] # "insert"

Counting == Insert \/ Remove \/ StartCounted
            \/ \E s \in Session : (\E l \in Launch : Announce(s, l)) \/ JoinEnds(s)

(* The other steps neither count nor change what is counted. *)
LEMMA OthersKeepCount ==
    TypeInv /\ [Next]_vars /\ ~Counting =>
        /\ UNCHANGED <<running_sessions, session_slots, starting>>
        /\ Uncounted' <=> Uncounted
<1> SUFFICES ASSUME TypeInv, [Next]_vars, ~Counting
             PROVE  /\ UNCHANGED <<running_sessions, session_slots, starting>>
                    /\ Uncounted' <=> Uncounted
  OBVIOUS
<1> DEFINE Goal == /\ UNCHANGED <<running_sessions, session_slots, starting>>
                   /\ starting # None =>
                         (at'["rtsp"] = "insert" <=> at["rtsp"] = "insert")
<1> USE HostAssumption
    DEF TypeInv, TypeOK, RequestTypes, PlaceInv, StartPlace, requests, Thread
<1>0. Goal
  <2>1. ASSUME NEW h \in Handler, NEW l \in Launch, LaunchBegin(h, l)
       PROVE  Goal
    BY <2>1, SMTT(40)
       DEF LaunchBegin, Go
  <2>2. ASSUME NEW h \in Handler, NEW l \in Launch, ResumeBegin(h, l)
       PROVE  Goal
    BY <2>2, SMTT(40)
       DEF ResumeBegin, Go
  <2>3. ASSUME NEW h \in Handler, GiveUp(h)
       PROVE  Goal
    BY <2>3, SMTT(40)
       DEF GiveUp, Go
  <2>4. ASSUME NEW h \in Handler, NEW works \in BOOLEAN, Execute(h, works)
       PROVE  Goal
    BY <2>4, SMTT(40)
       DEF Execute, Go
  <2>5. ASSUME NEW h \in Handler, ExecuteNothing(h)
       PROVE  Goal
    BY <2>5, SMTT(40)
       DEF ExecuteNothing, Go
  <2>6. ASSUME NEW h \in Handler, SessionRaise(h)
       PROVE  Goal
    BY <2>6, SMTT(40)
       DEF SessionRaise, Go
  <2>7. ASSUME NEW h \in Handler, SetLaunch(h)
       PROVE  Goal
    BY <2>7, SMTT(40)
       DEF SetLaunch, Go
  <2>8. ASSUME NEW h \in Handler, CancelBegin(h)
       PROVE  Goal
    BY <2>8, SMTT(40)
       DEF CancelBegin, Go
  <2>9. ASSUME NEW h \in Handler, CancelTerminate(h)
       PROVE  Goal
    BY <2>9, SMTT(40)
       DEF CancelTerminate, Go
  <2>10. CASE ServerInfo
    BY <2>10, SMTT(40)
       DEF ServerInfo
  <2>11. CASE AppExits
    BY <2>11, SMTT(40)
       DEF AppExits
  <2>12. CASE HostShutdown
    BY <2>12, SMTT(40)
       DEF HostShutdown, Go
  <2>13. CASE Accept
    BY <2>13, SMTT(40)
       DEF Accept, Go, AtLoop
  <2>14. CASE TimerHandler
    BY <2>14, SMTT(40)
       DEF TimerHandler, Go, AtLoop
  <2>15. CASE Tick
    BY <2>15, SMTT(40)
       DEF Tick, Go, AtLoop
  <2>16. ASSUME NEW l \in Launch, OtherRequest(l)
       PROVE  Goal
    BY <2>16, SMTT(40)
       DEF OtherRequest, Go, AtLoop
  <2>17. CASE StartRef
    BY <2>17, SMTT(40)
       DEF StartRef, Go
  <2>18. CASE StartBuilds
    BY <2>18, SMTT(40)
       DEF StartBuilds, Go
  <2>19. CASE StartFails
    BY <2>19, SMTT(40)
       DEF StartFails, Go
  <2>20. CASE StartList
    BY <2>20, SMTT(40)
       DEF StartList, Go
  <2>21. CASE StartThreads
    BY <2>21, SMTT(40)
       DEF StartThreads, Go
  <2>22. CASE StartRunning
    BY <2>22, SMTT(40)
       DEF StartRunning, Go
  <2>23. CASE LoopEnds
    BY <2>23, SMTT(40)
       DEF LoopEnds, Go
  <2>24. CASE TimerExpires
    BY <2>24, SMTT(40)
       DEF TimerExpires
  <2>25. ASSUME NEW t \in Thread, Clear(t)
       PROVE  Goal
    BY <2>25, SMTT(40)
       DEF Clear
  <2>26. ASSUME NEW s \in Session, LetBe(s)
       PROVE  Goal
    BY <2>26, SMTT(40)
       DEF LetBe
  <2>27. ASSUME NEW s \in Session, StopAndJoin(s)
       PROVE  Goal
    BY <2>27, SMTT(40)
       DEF StopAndJoin
  <2>28. ASSUME NEW s \in Session, JoinThrows(s)
       PROVE  Goal
    <3>1. UNCHANGED <<running_sessions, session_slots, starting>>
      BY <2>28 DEF JoinThrows
    <3>2. slots_lock # None /\ at["rtsp"] \in StartPlace
      BY <2>28, SMTT(40) DEF JoinThrows, ClearTurn, Unspawned
    <3>3. slots_lock # "rtsp"
      BY <3>2, SMTT(40) DEF ClearPlace, AfterClear
    <3>4. at'["rtsp"] = at["rtsp"]
      BY <2>28, <3>3, SMTT(40) DEF JoinThrows, Go
    <3> QED BY <3>1, <3>4
  <2>29. CASE ClearEnds
    <3>1. UNCHANGED <<running_sessions, session_slots, starting>>
      BY <2>29 DEF ClearEnds
    <3>2. CASE slots_lock = "rtsp"
      <4>1. starting = None
        BY <2>29, <3>2, SMTT(40) DEF ClearEnds, ClearTurn, ClearPlace, AfterClear
      <4> QED BY <3>1, <4>1
    <3>3. CASE slots_lock # "rtsp"
      <4>1. at'["rtsp"] = at["rtsp"]
        BY <2>29, <3>3 DEF ClearEnds, Go
      <4> QED BY <3>1, <4>1
    <3> QED BY <3>2, <3>3
  <2>30. CASE EndBroadcast
    BY <2>30, SMTT(40)
       DEF EndBroadcast
  <2>31. CASE ForceKill
    BY <2>31, SMTT(40)
       DEF ForceKill
  <2>32. ASSUME NEW s \in Session, NEW t \in Stream, StreamStops(s, t)
       PROVE  Goal
    BY <2>32, SMTT(40)
       DEF StreamStops, StreamEnds
  <2>33. ASSUME NEW s \in Session, NEW t \in Stream, StreamFails(s, t)
       PROVE  Goal
    BY <2>33, SMTT(40)
       DEF StreamFails, StreamEnds
  <2>34. ASSUME NEW silent \in SUBSET Session, ControlSweep(silent)
       PROVE  Goal
    BY <2>34, SMTT(40)
       DEF ControlSweep
  <2>35. CASE ControlCheck
    BY <2>35, SMTT(40)
       DEF ControlCheck
  <2>36. CASE ControlIdle
    BY <2>36, SMTT(40)
       DEF ControlIdle
  <2>37. CASE ControlPop
    BY <2>37, SMTT(40)
       DEF ControlPop
  <2>38. CASE ControlLeave
    BY <2>38, SMTT(40)
       DEF ControlLeave
  <2>39. ASSUME NEW s \in Session, ControlConnect(s)
       PROVE  Goal
    BY <2>39, SMTT(40)
       DEF ControlConnect
  <2>40. ASSUME NEW s \in Session, ControlDisconnect(s)
       PROVE  Goal
    BY <2>40, SMTT(40)
       DEF ControlDisconnect
  <2>41. CASE UNCHANGED vars
    BY <2>41 DEF vars
  <2> HIDE DEF Goal, TypeInv, TypeOK, RequestTypes, PlaceInv, StartPlace, requests, Thread
  <2>42. QED
    BY <2>1, <2>2, <2>3, <2>4, <2>5, <2>6, <2>7, <2>8, <2>9, <2>10, <2>11,
       <2>12, <2>13, <2>14, <2>15, <2>16, <2>17, <2>18, <2>19, <2>20, <2>21,
       <2>22, <2>23, <2>24, <2>25, <2>26, <2>27, <2>28, <2>29, <2>30, <2>31,
       <2>32, <2>33, <2>34, <2>35, <2>36, <2>37, <2>38, <2>39, <2>40, <2>41
       DEF Next, HandlerStep, RtspStep, ClearStep, ControlStep, Counting
<1> QED BY <1>0 DEF Uncounted

LEMMA CountPreserved == IInv /\ CountExact /\ [Next]_vars => CountExact'
<1> SUFFICES ASSUME IInv, CountExact, [Next]_vars
             PROVE  CountExact'
  OBVIOUS
<1> DEFINE Counted == session_slots \ {starting}
           Debt    == IF Uncounted THEN 1 ELSE 0
<1>1. /\ TypeInv /\ TypeInv' /\ PhaseInv /\ SlotsInv /\ ClearInv
      /\ running_sessions = Cardinality(Counted) - Debt
  BY TypePreserved DEF IInv, CountExact, Uncounted
<1>2. /\ session_slots \subseteq Session /\ starting \in Session \cup {None}
      /\ running_sessions \in Int /\ None \notin Session
      /\ starting # None <=> at["rtsp"] \in StartPlace
  BY <1>1, HostAssumption DEF TypeInv, TypeOK, RtspTypes, HostTypes, PlaceInv
<1>3. IsFiniteSet(session_slots) /\ IsFiniteSet(Counted)
  BY <1>2, HostAssumption, FS_Subset
<1>4. Cardinality(Counted) \in Nat
  BY <1>3, FS_CardinalityType
<1> SUFFICES running_sessions' = Cardinality(Counted') - Debt'
  BY DEF CountExact, Uncounted
<1>5. CASE ~Counting
  <2>1. UNCHANGED <<running_sessions, session_slots, starting>> /\ Uncounted' = Uncounted
    BY <1>1, <1>5, OthersKeepCount DEF Uncounted
  <2> QED BY <1>1, <2>1
<1>6. ASSUME NEW s \in Session, NEW l \in Launch, Announce(s, l)
      PROVE  running_sessions' = Cardinality(Counted') - Debt'
  <2>1. /\ UNCHANGED <<running_sessions, session_slots>> /\ starting' = s
        /\ at["rtsp"] = "loop" /\ at'["rtsp"] = "insert" /\ state[s] = "none"
    BY <1>1, <1>6, SMTT(40)
       DEF Announce, AtLoop, Go, TypeInv, TypeOK, RequestTypes, Thread
  <2>2. s \notin session_slots
    BY <1>1, <2>1, SMTT(40) DEF SlotsInv, Live
  <2>3. starting = None
    BY <1>2, <2>1 DEF StartPlace
  <2>4. Counted' = session_slots /\ Counted = session_slots
    BY <1>2, <2>1, <2>2, <2>3
  <2>5. ~Uncounted /\ ~Uncounted'
    BY <2>1, <2>3 DEF Uncounted
  <2> QED BY <1>1, <2>1, <2>4, <2>5
<1>7. CASE Insert
  <2>1. /\ UNCHANGED <<running_sessions, starting>> /\ at["rtsp"] = "insert"
        /\ session_slots' = session_slots \cup {starting}
    BY <1>7 DEF Insert
  <2>2. Counted' = Counted /\ ~Uncounted /\ ~Uncounted'
    BY <2>1 DEF Uncounted
  <2> QED BY <1>1, <2>1, <2>2
<1>8. CASE Remove
  <2>1. /\ UNCHANGED running_sessions /\ at["rtsp"] = "remove" /\ starting' = None
        /\ session_slots' = session_slots \ {starting}
    BY <1>8 DEF Remove
  <2>2. starting \in session_slots
    <3>1. Stage = "remove" /\ starting \in Session
      BY <1>2, <2>1 DEF Stage, StartPlace
    <3> QED BY <1>1, <3>1 DEF SlotsInv
  <2>3. Counted' = Counted /\ ~Uncounted /\ ~Uncounted'
    BY <1>2, <2>1, <2>2 DEF Uncounted
  <2> QED BY <1>1, <2>1, <2>3
<1>9. CASE StartCounted
  <2>1. /\ running_sessions' = running_sessions + 1 /\ at["rtsp"] = "counted"
        /\ starting' = None /\ UNCHANGED session_slots
    BY <1>9 DEF StartCounted
  <2>2. starting \in Session /\ ~Uncounted'
    BY <1>2, <2>1 DEF Uncounted, StartPlace
  <2>3. Counted' = session_slots
    BY <1>2, <2>1
  <2>4. CASE starting \in session_slots
    <3>1. ~Uncounted
      BY <2>4 DEF Uncounted
    <3>2. Cardinality(session_slots) = Cardinality(Counted) + 1
      <4>1. Cardinality(Counted) = Cardinality(session_slots) - 1
        BY <1>3, <2>4, FS_RemoveElement
      <4> QED BY <1>3, <4>1, FS_CardinalityType
    <3>3. Debt = 0 /\ Debt' = 0
      BY <2>2, <3>1
    <3>4. Cardinality(Counted') = Cardinality(Counted) + 1
      BY <2>3, <3>2
    <3> HIDE DEF Counted, Debt
    <3> QED BY <1>1, <1>4, <2>1, <3>3, <3>4
  <2>5. CASE starting \notin session_slots
    <3>1. Uncounted /\ Counted = session_slots
      BY <1>2, <2>1, <2>2, <2>5 DEF Uncounted
    <3> QED BY <1>1, <1>4, <2>1, <2>2, <2>3, <3>1
  <2> QED BY <2>4, <2>5
<1>10. ASSUME NEW s \in Session, JoinEnds(s)
       PROVE  running_sessions' = Cardinality(Counted') - Debt'
  <2>1. /\ running_sessions' = running_sessions - 1 /\ joining = s
        /\ session_slots' = session_slots \ {s} /\ UNCHANGED <<starting, at>>
    BY <1>10 DEF JoinEnds, requests
  <2>2. s \in session_slots
    BY <1>1, <1>2, <2>1 DEF ClearInv
  <2>3. CASE s = starting
    <3>1. Counted' = Counted /\ ~Uncounted
      BY <2>1, <2>2, <2>3 DEF Uncounted
    <3>2. Stage \in {"running", "counted"}
      BY <1>1, <1>2, <2>1, <2>3 DEF ClearInv
    <3>3. Uncounted'
      BY <1>2, <2>1, <2>3, <3>2 DEF Uncounted, Stage, StartPlace
    <3>4. Debt = 0 /\ Debt' = 1 /\ Cardinality(Counted') = Cardinality(Counted)
      BY <3>1, <3>3
    <3> HIDE DEF Counted, Debt
    <3> QED BY <1>1, <1>4, <2>1, <3>4
  <2>4. CASE s # starting
    <3>1. Counted' = Counted \ {s} /\ s \in Counted /\ Uncounted' = Uncounted
      BY <2>1, <2>2, <2>4 DEF Uncounted
    <3>2. Cardinality(Counted') = Cardinality(Counted) - 1
      BY <1>3, <3>1, FS_RemoveElement
    <3> QED BY <1>1, <1>4, <2>1, <3>1, <3>2
  <2> QED BY <2>3, <2>4
<1> QED
  BY <1>5, <1>6, <1>7, <1>8, <1>9, <1>10 DEF Counting

(* The count that decides when the display is given back is exact whenever  *)
(* nobody is between joining a session and counting it, however joins and   *)
(* starts interleave.                                                       *)
THEOREM SessionsCounted == Spec => []CountExact
<1>1. Init => CountExact
  <2> SUFFICES ASSUME Init PROVE CountExact
    OBVIOUS
  <2>1. session_slots \ {starting} = {} /\ running_sessions = 0 /\ starting = None
    BY DEF Init
  <2> QED BY <2>1, FS_EmptySet DEF CountExact
<1> QED
  BY <1>1, Invariant, CountPreserved, PTL DEF Spec

-----------------------------------------------------------------------------
(* The wait of end_broadcast. *)

(* Who is in it: the thread that clears, past its join, or the RTSP thread   *)
(* after ANNOUNCE.                                                          *)
EndInv ==
    /\ broadcast = "ending" <=> ender # None
    /\ ender # None => \/ ender = slots_lock /\ joining = None
                       \/ ender = "rtsp" /\ at["rtsp"] = "clear"

(* Destroying a session begins the end only on the thread that does it.      *)
LEMMA DestroyEnds ==
    ASSUME NEW s, NEW t, Destroy(s, t), EndInv
    PROVE  \/ broadcast' = "ending" /\ ender' = t
           \/ UNCHANGED <<broadcast, ender>>
BY DEF Destroy, shared

LEMMA EndStep == IInv /\ EndInv /\ [Next]_vars => EndInv'
<1> SUFFICES ASSUME IInv, EndInv, [Next]_vars
             PROVE  EndInv'
  OBVIOUS
<1>0. /\ at \in [Thread -> HandlerPlace \cup RtspPlace \cup MainPlace]
      /\ slots_lock \in Thread \cup {None} /\ None \notin Thread
      /\ "rtsp" \in Thread /\ Handler \subseteq Thread /\ "main" \in Thread
      /\ \A h \in Handler : h # "rtsp"
      /\ joining \in Session \cup {None} /\ None \notin Session
      /\ slots_lock = None => joining = None
  BY HostAssumption
     DEF IInv, TypeInv, TypeOK, RequestTypes, RtspTypes, ClearInv, Thread
<1>1. CASE \E h \in Handler : HandlerStep(h)
  <2>1. PICK h \in Handler : HandlerStep(h)
    BY <1>1
  <2>2. UNCHANGED <<broadcast, ender, slots_lock, joining>>
    BY <2>1, Zenon
    DEF HandlerStep, LaunchBegin, ResumeBegin, GiveUp, Execute,
        ExecuteNothing, SessionRaise, SetLaunch, CancelBegin,
        CancelTerminate, clearing, shared
  <2>3. \E place : at' = [at EXCEPT ![h] = place]
    BY <2>1
    DEF HandlerStep, LaunchBegin, ResumeBegin, GiveUp, Execute,
        ExecuteNothing, SessionRaise, SetLaunch, CancelBegin,
        CancelTerminate, Go
  <2>4. at'["rtsp"] = at["rtsp"]
    BY <1>0, <2>3
  <2> QED BY <2>2, <2>4 DEF EndInv
<1>2. CASE ServerInfo \/ AppExits \/ TimerExpires \/ ForceKill
           \/ (\E s \in Session, t \in Stream :
                  StreamStops(s, t) \/ StreamFails(s, t))
           \/ ControlStep \/ UNCHANGED vars
           \/ (\E s \in Session : LetBe(s))
  <2>1. UNCHANGED <<broadcast, ender, slots_lock, joining, at>>
    BY <1>2, Zenon
    DEF ServerInfo, AppExits, TimerExpires, ForceKill, StreamStops,
        StreamFails, StreamEnds, ControlStep, ControlSweep, ControlCheck,
        ControlIdle, ControlPop, ControlLeave, ControlConnect,
        ControlDisconnect, LetBe, vars, requests, clearing, shared
  <2> QED BY <2>1 DEF EndInv
<1>3. CASE HostShutdown
  <2>1. UNCHANGED <<broadcast, ender, slots_lock, joining>>
        /\ at' = [at EXCEPT !["main"] = "stop"]
    BY <1>3 DEF HostShutdown, Go, clearing, shared
  <2>2. at'["rtsp"] = at["rtsp"]
    BY <1>0, <2>1
  <2> QED BY <2>1, <2>2 DEF EndInv
<1>4. CASE \/ Accept \/ TimerHandler \/ Tick \/ LoopEnds
           \/ \E l \in Launch : OtherRequest(l)
           \/ \E s \in Session, l \in Launch : Announce(s, l)
           \/ Insert \/ StartFails \/ Remove \/ StartList
           \/ StartThreads \/ StartRunning
  <2>1. at["rtsp"] # "clear"
    BY <1>4 DEF Accept, TimerHandler, Tick, LoopEnds, OtherRequest, Announce,
                Insert, StartFails, Remove, StartList, StartThreads,
                StartRunning, AtLoop
  <2>2. UNCHANGED <<broadcast, ender, slots_lock, joining>>
    BY <1>4, Zenon
    DEF Accept, TimerHandler, Tick, LoopEnds, OtherRequest, Announce, Insert,
        StartFails, Remove, StartList, StartThreads, StartRunning, clearing,
        shared
  <2> QED BY <2>1, <2>2 DEF EndInv
<1>5. CASE StartRef \/ StartBuilds
  <2>1. /\ broadcast \in {"up", "down"} /\ broadcast' = "up"
        /\ UNCHANGED ender
    BY <1>5 DEF StartRef, StartBuilds, shared
  <2> QED BY <2>1 DEF EndInv
<1>6. CASE StartCounted
  <2>1. /\ at["rtsp"] = "counted" /\ at' = [at EXCEPT !["rtsp"] = "clear"]
        /\ UNCHANGED <<slots_lock, joining>>
    BY <1>6 DEF StartCounted, Go, clearing
  <2>2. at'["rtsp"] = "clear"
    BY <1>0, <2>1
  <2>3. \/ broadcast' = "ending" /\ ender' = "rtsp"
        \/ UNCHANGED <<broadcast, ender>>
    BY <1>6, DestroyEnds DEF StartCounted, shared
  <2> QED BY <1>0, <2>1, <2>2, <2>3 DEF EndInv
<1>7. ASSUME NEW t \in Thread, Clear(t)
      PROVE  EndInv'
  <2>1. /\ UNCHANGED <<broadcast, ender, joining, at>>
        /\ slots_lock = None
    BY <1>7 DEF Clear, requests, shared
  <2> QED BY <2>1 DEF EndInv
<1>8. ASSUME NEW s \in Session, StopAndJoin(s) \/ JoinThrows(s)
      PROVE  EndInv'
  <2>1. UNCHANGED <<broadcast, ender>> /\ ender # slots_lock
    BY <1>8 DEF StopAndJoin, JoinThrows, ClearTurn, shared
  <2>2. ender = "rtsp" => at'["rtsp"] = at["rtsp"]
    BY <1>0, <1>8, <2>1 DEF StopAndJoin, JoinThrows, Go, requests
  <2> QED BY <2>1, <2>2 DEF EndInv
<1>9. CASE ClearEnds
  <2>1. UNCHANGED <<broadcast, ender>> /\ ender # slots_lock
    BY <1>9 DEF ClearEnds, ClearTurn, shared
  <2>2. ender = "rtsp" => at'["rtsp"] = at["rtsp"]
    BY <1>0, <1>9, <2>1 DEF ClearEnds, Go
  <2> QED BY <2>1, <2>2 DEF EndInv
<1>10. ASSUME NEW s \in Session, JoinEnds(s)
       PROVE  EndInv'
  <2>1. /\ joining = s /\ joining' = None /\ UNCHANGED <<slots_lock, at>>
    BY <1>10 DEF JoinEnds, requests
  <2>2. \/ broadcast' = "ending" /\ ender' = slots_lock
        \/ UNCHANGED <<broadcast, ender>>
    BY <1>10, DestroyEnds DEF JoinEnds, shared
  <2>3. slots_lock # None
    BY <1>0, <2>1
  <2> QED BY <2>1, <2>2, <2>3 DEF EndInv
<1>11. CASE EndBroadcast
  BY <1>11 DEF EndBroadcast, EndInv
<1> QED
  BY <1>1, <1>2, <1>3, <1>4, <1>5, <1>6, <1>7, <1>8, <1>9, <1>10, <1>11
  DEF Next, RtspStep, ClearStep

(* The context is ended by one thread, which waits for a control thread that *)
(* is there; no join of a session waits beside it on that thread.            *)
THEOREM EndOfContextIsJoined == Spec => []EndIsJoined
<1>1. Init => EndInv
  BY DEF Init, EndInv
<1>2. IInv /\ EndInv => EndIsJoined
  BY DEF IInv, ContextInv, EndInv, EndIsJoined
<1> QED BY <1>1, <1>2, EndStep, Invariant, PTL DEF Spec

-----------------------------------------------------------------------------
(* The control thread as a shared thread. *)

(* The steps that take or give back a reference, or start or end the thread. *)
Sharing ==
    \/ StartRef \/ StartBuilds \/ StartCounted
    \/ \E s \in Session : JoinEnds(s)
    \/ ControlLeave \/ EndBroadcast

Started == {"sweep", "check", "iterate", "pop", "leave"}

LEMMA OthersKeepShared ==
    [Next]_vars /\ ~Sharing =>
        /\ UNCHANGED <<broadcast_ref, broadcast>>
        /\ control' = control \/ (control \in Started /\ control' \in Started)
<1> SUFFICES ASSUME [Next]_vars, ~Sharing
             PROVE  /\ UNCHANGED <<broadcast_ref, broadcast>>
                    /\ \/ control' = control
                       \/ control \in Started /\ control' \in Started
  OBVIOUS
<1>1. CASE ControlStep
  <2>1. UNCHANGED <<broadcast_ref, broadcast>>
    BY <1>1, Zenon
    DEF ControlStep, ControlSweep, ControlCheck, ControlIdle, ControlPop,
        ControlLeave, ControlConnect, ControlDisconnect, session, shared
  <2>2. control \in Started /\ control' \in Started
    <3>1. CASE ControlCheck
      BY <3>1 DEF ControlCheck, Started
    <3>2. CASE \E s \in Session : ControlConnect(s)
      BY <3>2 DEF ControlConnect, Started
    <3>3. CASE (\E silent \in SUBSET Session : ControlSweep(silent))
               \/ ControlIdle \/ ControlPop
               \/ \E s \in Session : ControlDisconnect(s)
      BY <3>3 DEF ControlSweep, ControlIdle, ControlPop, ControlDisconnect,
                  Started
    <3> QED BY <1>1, <3>1, <3>2, <3>3 DEF ControlStep, Sharing
  <2> QED BY <2>1, <2>2
<1>2. CASE ~ControlStep
  <2>1. UNCHANGED <<broadcast_ref, broadcast, control>>
    BY <1>2, Zenon
    DEF Next, HandlerStep, RtspStep, ClearStep, Sharing, vars, session,
        shared, ctrl, LaunchBegin, ResumeBegin, GiveUp, Execute,
        ExecuteNothing, SessionRaise, SetLaunch, CancelBegin,
        CancelTerminate, ServerInfo, AppExits, HostShutdown, Accept,
        TimerHandler, Tick, OtherRequest, Announce, Insert, StartFails,
        Remove, StartList, StartThreads, StartRunning, LoopEnds,
        TimerExpires, Clear, LetBe, StopAndJoin, JoinThrows, ClearEnds,
        ForceKill, StreamStops, StreamFails, StreamEnds
  <2> QED BY <2>1
<1> QED BY <1>1, <1>2

(* A session that is destroyed gives its reference back.                     *)
LEMMA DestroyReleases ==
    ASSUME IInv, NEW s \in Session, NEW t, Destroy(s, t), broadcast_ref[s],
           UNCHANGED control
    PROVE  Shared!Release(s)
<1>1. /\ broadcast_ref \in [Session -> BOOLEAN] /\ broadcast = "up"
  BY DEF IInv, TypeInv, TypeOK, SessionTypes, ContextInv
<1>2. broadcast_ref' = [broadcast_ref EXCEPT ![s] = FALSE]
  BY DEF Destroy
<1>3. Holders' = Holders \ {s} /\ s \in Holders
  BY <1>1, <1>2 DEF Holders
<1>4. LastReference(s) <=> Holders' = {}
  BY <1>1, <1>3 DEF LastReference, Holders
<1>5. (broadcast' = "ending") = (Holders' = {})
  <2>1. CASE LastReference(s)
    BY <1>4, <2>1 DEF Destroy
  <2>2. CASE ~LastReference(s)
    BY <1>1, <1>4, <2>2 DEF Destroy, shared
  <2> QED BY <2>1, <2>2
<1> QED BY <1>1, <1>3, <1>5 DEF Shared!Release

(* Every step is one of the shared thread, or changes nothing of it.         *)
LEMMA SharedStep ==
    IInv /\ [Next]_vars => [Shared!Next]_(Shared!sharedVars)
<1> SUFFICES ASSUME IInv, [Next]_vars
             PROVE  Shared!Next \/ UNCHANGED Shared!sharedVars
  OBVIOUS
<1>0. /\ broadcast_ref \in [Session -> BOOLEAN]
      /\ starting \in Session \cup {None} /\ PhaseInv /\ ContextInv /\ TypeInv
      /\ control \in ControlPlace
  BY DEF IInv, TypeInv, TypeOK, SessionTypes, RtspTypes, ContextTypes
<1>1. CASE ~Sharing
  <2>1. UNCHANGED <<Holders, broadcast>>
    BY <1>1, OthersKeepShared DEF Holders
  <2>2. control' = control \/ (control \in Started /\ control' \in Started)
    BY <1>1, OthersKeepShared
  <2> QED BY <2>1, <2>2 DEF Shared!sharedVars, Started
<1>2. CASE StartRef \/ StartBuilds
  <2>1. /\ at["rtsp"] = "ref" /\ broadcast \in {"up", "down"}
        /\ broadcast' = "up"
        /\ broadcast_ref' = [broadcast_ref EXCEPT ![starting] = TRUE]
    BY <1>2 DEF StartRef, StartBuilds, shared
  <2>2. starting \in Session /\ Stage = "ref"
    BY <1>0, <2>1 DEF TypeInv, PlaceInv, StartPlace, Stage
  <2>3. starting \notin Holders /\ Holders' = Holders \cup {starting}
    BY <1>0, <2>1, <2>2 DEF PhaseInv, Holding, Holders
  <2>4. CASE StartRef
    <3>1. broadcast = "up" /\ UNCHANGED control
      BY <2>4 DEF StartRef, ctrl
    <3>2. Holders # {}
      BY <1>0, <3>1 DEF ContextInv, Holders
    <3> QED BY <2>1, <2>2, <2>3, <3>1, <3>2 DEF Shared!Next, Shared!Ref
  <2>5. CASE StartBuilds
    <3>1. broadcast = "down" /\ control' = "sweep"
      BY <2>5 DEF StartBuilds
    <3>2. Holders = {}
      BY <1>0, <3>1 DEF ContextInv, Holders
    <3> QED BY <2>1, <2>2, <2>3, <3>1, <3>2 DEF Shared!Next, Shared!Ref
  <2> QED BY <1>2, <2>4, <2>5
<1>3. CASE StartCounted
  <2>1. at["rtsp"] = "counted" /\ UNCHANGED control
    BY <1>3 DEF StartCounted, ctrl
  <2>2. starting \in Session /\ broadcast_ref[starting]
    BY <1>0, <2>1 DEF TypeInv, PlaceInv, StartPlace, Stage, PhaseInv, Holding
  <2>3. CASE Destroy(starting, "rtsp")
    BY <2>1, <2>2, <2>3, DestroyReleases DEF Shared!Next
  <2>4. CASE UNCHANGED <<broadcast_ref, shared>>
    BY <2>1, <2>4 DEF Shared!sharedVars, Holders, shared
  <2> QED BY <1>3, <2>3, <2>4 DEF StartCounted
<1>4. ASSUME NEW s \in Session, JoinEnds(s)
      PROVE  Shared!Next \/ UNCHANGED Shared!sharedVars
  <2>1. joining = s /\ UNCHANGED control
    BY <1>4 DEF JoinEnds, ctrl
  <2>2. CASE s = starting
    BY <1>4, <2>1, <2>2 DEF JoinEnds, Shared!sharedVars, Holders, shared
  <2>3. CASE s # starting
    <3>1. Destroy(s, slots_lock)
      BY <1>4, <2>3 DEF JoinEnds
    <3>2. s \in session_slots /\ SlotsInv
      BY <2>1, HostAssumption DEF IInv, ClearInv
    <3>3. broadcast_ref[s]
      BY <1>0, <2>3, <3>2 DEF SlotsInv, PhaseInv, Live
    <3> QED BY <2>1, <3>1, <3>3, DestroyReleases DEF Shared!Next
  <2> QED BY <2>2, <2>3
<1>5. CASE ControlLeave
  <2>1. /\ control \in {"leave", "sweep"} /\ control' = "left"
        /\ UNCHANGED <<broadcast_ref, broadcast>>
    BY <1>5 DEF ControlLeave, shared
  <2> QED BY <2>1 DEF Shared!Next, Shared!Returns, Holders
<1>6. CASE EndBroadcast
  <2>1. /\ broadcast = "ending" /\ control = "left"
        /\ broadcast' = "down" /\ control' = "off"
        /\ UNCHANGED broadcast_ref
    BY <1>6 DEF EndBroadcast, session
  <2> QED BY <2>1 DEF Shared!Next, Shared!Joined, Holders
<1> QED BY <1>1, <1>2, <1>3, <1>4, <1>5, <1>6 DEF Sharing

(* The control thread is started for the first session and joined with the   *)
(* last, under the lock: HostStream implements SharedThread.                *)
THEOREM ControlIsShared == Spec => SharesControl
<1>1. Init => Shared!Init
  BY DEF Init, Shared!Init, Holders
<1> QED BY <1>1, SharedStep, Invariant, PTL
        DEF Spec, SharesControl, Shared!Spec
=============================================================================
