------------------------ MODULE ViewerSession_proofs ------------------------
(***************************************************************************)
(* Theorems about ViewerSession, for every set of hosts and every bound on *)
(* the display list.                                                       *)
(***************************************************************************)
EXTENDS ViewerSession, TLAPS

Gone     == {"none", "dead"}
Prologue == {"start", "gs_init", "publish_displays", "reached"}
Launching == {"pair_done", "gs_applist", "gs_start_app", "gs_quit_unstarted",
              "activate", "publish_streaming"}
Connected == {"li_start", "wait", "parked", "unhook", "refresh_join",
              "li_stop"}

(* A worker exists exactly while worker_running_, except while the main     *)
(* thread is about to spawn it.                                             *)
LifeInv ==
    /\ main = "begin" => worker \in Gone /\ worker_running
    /\ main # "begin" => (worker_running <=> worker \notin Gone)
    /\ main = "destroyed" => worker \in Gone

(* The refresh thread is admitted only inside the window, and until the     *)
(* worker has joined it nothing leaves the window's tail.                   *)
RefreshInv ==
    /\ refresh_allowed <=> worker \in RefreshWindow
    /\ s_active <=> worker \in RefreshWindow
    /\ refresh # "none" => worker \in RefreshWindow \cup {"refresh_join"}
    /\ refresh_running => worker \in RefreshWindow \cup {"refresh_join"}
    /\ main = "refresh_join" => refresh_running /\ refresh_allowed
    /\ main = "refresh_join" => refresh \notin {"http", "publish"}
    /\ main # "refresh_join" =>
           (refresh_running <=> refresh \in {"http", "publish"})

(* Where the connection and the launched application are accounted for.     *)
StreamInv ==
    /\ connection # "down" => worker \in Connected
    /\ worker \in {"gs_quit_unstarted", "activate", "publish_streaming",
                   "gs_quit_app"} \cup Connected
           => launched
    /\ launched => worker \in {"gs_quit_unstarted", "activate",
                               "publish_streaming", "gs_quit_app"}
                              \cup Connected
    /\ worker = "gs_quit_unstarted" => flag.session_ended

(* What is reported at each point of the worker.                            *)
StateInv ==
    /\ worker \in Gone \cup {"exit"} => state \in Terminal
    /\ worker \in Prologue => state = "Connecting"
    /\ worker = "pin_shown" => state = "PairingNeedPin"
    /\ worker = "gs_pair" => state = "PairingInProgress"
    /\ worker \in Launching => state \in {"Connecting", "PairingInProgress"}
    /\ worker \in Connected \cup {"gs_quit_app", "final"}
           => state = "Streaming"

IInv == TypeOK /\ LifeInv /\ RefreshInv /\ StreamInv /\ StateInv
-----------------------------------------------------------------------------
(* Every step keeps every variable in its type.                             *)
LEMMA TypePreserved == TypeOK /\ [Next]_vars => TypeOK'
<1>1. SUFFICES ASSUME TypeOK, [Next]_vars
               PROVE  TypeOK'
  OBVIOUS
<1>2. TypeOK'
  <2> USE SessionAssumption, <1>1
      DEF TypeOK, vars, threads, gates, stream, books, ViewerState,
          MainPoint, WorkerPoint, WorkerHttp, RefreshWindow, OnceStreaming,
          RefreshPoint, CallbackPoint
  <2>1. CASE \E h \in Hosts, m \in Mode : BeginWorker(h, m)
    <3>1. job' \in Job
      BY <2>1 DEF BeginWorker, Job, Mode
    <3>2. flag' \in Flags
      BY <2>1 DEF BeginWorker, Flags, Cleared
    <3>3. worker_running' \in BOOLEAN
      BY <2>1 DEF BeginWorker
    <3>4. QED
      BY <2>1, <3>1, <3>2, <3>3 DEF BeginWorker
  <2>2. CASE SpawnWorker
    BY <2>2 DEF SpawnWorker
  <2>3. CASE EndSession
    <3>1. flag' \in Flags
      BY <2>3 DEF EndSession, End, Flags
    <3>2. QED
      BY <2>3, <3>1 DEF EndSession, End
  <2>4. CASE Destroy
    <3>1. flag' \in Flags
      BY <2>4 DEF Destroy, End, Flags
    <3>2. QED
      BY <2>4, <3>1 DEF Destroy, End
  <2>5. CASE NotifyWorker
    BY <2>5 DEF NotifyWorker, Woken
  <2>6. CASE Destroyed
    BY <2>6 DEF Destroyed
  <2>7. CASE RefreshDisplays
    BY <2>7 DEF RefreshDisplays
  <2>8. CASE SpawnRefresh
    BY <2>8 DEF SpawnRefresh
  <2>9. CASE \E i \in 0 .. MaxDisplays : SetActiveDisplay(i)
    <3>1. flag' \in Flags
      BY <2>9 DEF SetActiveDisplay, Flags
    <3>2. monitors' \in Reported
      BY <2>9 DEF SetActiveDisplay, Reported, Monitors
    <3>3. QED
      BY <2>9, <3>1, <3>2 DEF SetActiveDisplay
  <2>10. CASE WorkerStart
    <3>1. job' \in Job
      BY <2>10 DEF WorkerStart, Job
    <3>2. QED
      BY <2>10, <3>1 DEF WorkerStart, Advance, MutexFree
  <2>11. CASE GsInit
    <3>1. job' \in Job
      BY <2>11 DEF GsInit, Job
    <3>2. QED
      BY <2>11, <3>1 DEF GsInit, Advance
  <2>12. CASE GsInitFailed
    BY <2>12 DEF GsInitFailed, Leave, Advance, MutexFree
  <2>13. CASE PublishDisplays
    <3>1. stored' \in [Hosts -> Listed]
      BY <2>13 DEF PublishDisplays, Record, Listed, Job
    <3>2. monitors' \in Reported
      BY <2>13 DEF PublishDisplays, Reported
    <3>3. QED
      BY <2>13, <3>1, <3>2 DEF PublishDisplays, Record, Reported, MutexFree
  <2>14. CASE \E from \in {"reached", "pin_shown", "gs_applist"} : GiveUp(from)
    BY <2>14 DEF GiveUp, Leave, Advance, MutexFree
  <2>15. CASE HttpsDown
    BY <2>15 DEF HttpsDown, Leave, Advance, MutexFree
  <2>16. CASE AlreadyPaired
    BY <2>16 DEF AlreadyPaired, AfterPairing, Advance
  <2>17. CASE ShowPin
    BY <2>17 DEF ShowPin, Advance, MutexFree
  <2>18. CASE AskHost
    BY <2>18 DEF AskHost, Advance, MutexFree
  <2>19. CASE GsPair
    <3>1. job' \in Job
      BY <2>19 DEF GsPair, Job
    <3>2. trusts' \in [Hosts -> BOOLEAN]
      BY <2>19 DEF GsPair, Job
    <3>3. QED
      BY <2>19, <3>1, <3>2 DEF GsPair, AfterPairing, Leave, Advance, MutexFree
  <2>20. CASE GsPairFailed
    <3>1. trusts' \in [Hosts -> BOOLEAN]
      BY <2>20 DEF GsPairFailed, Job
    <3>2. QED
      BY <2>20, <3>1 DEF GsPairFailed, Leave, Advance, MutexFree
  <2>21. CASE PairDone
    <3>1. stored' \in [Hosts -> Listed]
      BY <2>21 DEF PairDone, Record, Listed, Job
    <3>2. QED
      BY <2>21, <3>1 DEF PairDone, Record, Leave, Advance, MutexFree
  <2>22. CASE GsApplist
    BY <2>22 DEF GsApplist, Advance
  <2>23. CASE GsApplistFailed
    BY <2>23 DEF GsApplistFailed, Leave, Advance, MutexFree
  <2>24. CASE GsStartApp
    BY <2>24 DEF GsStartApp, Advance
  <2>25. CASE GsStartAppFailed
    BY <2>25 DEF GsStartAppFailed, Leave, Advance, MutexFree
  <2>26. CASE QuitUnstarted
    <3>1. launched' \in BOOLEAN
      BY <2>26 DEF QuitUnstarted
    <3>2. QED
      BY <2>26, <3>1 DEF QuitUnstarted, Leave, Advance, MutexFree
  <2>27. CASE Activate
    BY <2>27 DEF Activate, Advance, MutexFree
  <2>28. CASE PublishStreaming
    BY <2>28 DEF PublishStreaming, Advance, MutexFree
  <2>29. CASE LiStart
    BY <2>29 DEF LiStart, Advance
  <2>30. CASE LiStartFailed
    <3>1. flag' \in Flags
      BY <2>30 DEF LiStartFailed, Flags
    <3>2. QED
      BY <2>30, <3>1 DEF LiStartFailed, MutexFree
  <2>31. CASE Wait
    BY <2>31 DEF Wait, Advance, MutexFree
  <2>32. CASE Unhook
    <3>1. s_active' \in BOOLEAN
      BY <2>32 DEF Unhook
    <3>2. refresh_allowed' \in BOOLEAN
      BY <2>32 DEF Unhook
    <3>3. QED
      BY <2>32, <3>1, <3>2 DEF Unhook, Advance, MutexFree
  <2>33. CASE JoinRefresh
    <3>1. refresh_running' \in BOOLEAN
      BY <2>33 DEF JoinRefresh
    <3>2. QED
      BY <2>33, <3>1 DEF JoinRefresh, MutexFree
  <2>34. CASE LiStop
    BY <2>34 DEF LiStop, Advance
  <2>35. CASE QuitApp
    <3>1. launched' \in BOOLEAN
      BY <2>35 DEF QuitApp
    <3>2. QED
      BY <2>35, <3>1 DEF QuitApp, Advance
  <2>36. CASE Final
    BY <2>36 DEF Final, FinalState, Leave, Advance, MutexFree
  <2>37. CASE WorkerDone
    <3>1. worker_running' \in BOOLEAN
      BY <2>37 DEF WorkerDone
    <3>2. QED
      BY <2>37, <3>1 DEF WorkerDone, MutexFree
  <2>38. CASE RefreshFetch
    BY <2>38 DEF RefreshFetch
  <2>39. CASE RefreshPublish
    <3>1. monitors' \in Reported
      BY <2>39 DEF RefreshPublish, Reported, Merged, Monitors
    <3>2. refresh_running' \in BOOLEAN
      BY <2>39 DEF RefreshPublish
    <3>3. QED
      BY <2>39, <3>1, <3>2 DEF RefreshPublish, Reported, Merged, MutexFree
  <2>40. CASE RefreshExit
    BY <2>40 DEF RefreshExit
  <2>41. CASE CallbackEnter
    BY <2>41 DEF CallbackEnter
  <2>42. CASE CallbackTerminated
    <3>1. flag' \in Flags
      BY <2>42 DEF CallbackTerminated, Flags
    <3>2. QED
      BY <2>42, <3>1 DEF CallbackTerminated, MutexFree
  <2>43. CASE CallbackNotify
    BY <2>43 DEF CallbackNotify, Woken
  <2>44. CASE \E h \in Hosts : RemoveHost(h)
    <3>1. stored' \in [Hosts -> Listed]
      BY <2>44 DEF RemoveHost, Listed
    <3>2. QED
      BY <2>44, <3>1 DEF RemoveHost
  <2>45. CASE \E h \in Hosts : HostRevokes(h)
    BY <2>45 DEF HostRevokes
  <2>46. CASE Stopped \/ UNCHANGED vars
    BY <2>46 DEF Stopped
  <2>47. QED
    BY <2>1, <2>2, <2>3, <2>4, <2>5, <2>6, <2>7, <2>8, <2>9,
       <2>10, <2>11, <2>12, <2>13, <2>14, <2>15, <2>16, <2>17, <2>18,
       <2>19, <2>20, <2>21, <2>22, <2>23, <2>24, <2>25, <2>26, <2>27,
       <2>28, <2>29, <2>30, <2>31, <2>32, <2>33, <2>34, <2>35, <2>36,
       <2>37, <2>38, <2>39, <2>40, <2>41, <2>42, <2>43, <2>44, <2>45,
       <2>46
    DEF Next, Worker
<1>3. QED
  BY <1>2

(* The initial states are typed.                                            *)
LEMMA TypeInvariantInit == Init => TypeOK
<1>1. ASSUME Init PROVE TypeOK
  <2>1. job \in Job /\ flag \in Flags
    BY <1>1 DEF Init, Job, Mode, Flags, Cleared
  <2>2. monitors \in Reported /\ stored \in [Hosts -> Listed]
    BY <1>1, SessionAssumption DEF Init, Monitors, Reported, Listed
  <2>3. worker_running \in BOOLEAN /\ refresh_allowed \in BOOLEAN
        /\ refresh_running \in BOOLEAN /\ s_active \in BOOLEAN
        /\ launched \in BOOLEAN
    BY <1>1 DEF Init
  <2>4. QED
    BY <1>1, <2>1, <2>2, <2>3
    DEF Init, TypeOK, ViewerState, MainPoint, WorkerPoint, OnceStreaming,
        RefreshPoint, CallbackPoint
<1>2. QED
  BY <1>1

(* The type invariant holds in every behaviour.                             *)
THEOREM TypeInvariant == Spec => []TypeOK
  BY TypeInvariantInit, TypePreserved, PTL DEF Spec

-----------------------------------------------------------------------------
(* Every step keeps the accounts of threads, window, stream and status.     *)
LEMMA Preserved ==
    IInv /\ [Next]_vars
        => (LifeInv /\ RefreshInv /\ StreamInv /\ StateInv)'
<1>1. SUFFICES ASSUME IInv, [Next]_vars
               PROVE  (LifeInv /\ RefreshInv /\ StreamInv /\ StateInv)'
  OBVIOUS
<1>2. (LifeInv /\ RefreshInv /\ StreamInv /\ StateInv)'
  <2> USE <1>1
      DEF IInv, LifeInv, RefreshInv, StreamInv, StateInv, Gone, Prologue,
          Launching, Connected, vars, threads, gates, stream, books,
          Terminal, RefreshWindow, OnceStreaming
  <2>1. CASE \E h \in Hosts, m \in Mode : BeginWorker(h, m)
    BY <2>1 DEF BeginWorker
  <2>2. CASE SpawnWorker
    BY <2>2 DEF SpawnWorker
  <2>3. CASE EndSession
    BY <2>3 DEF EndSession, End
  <2>4. CASE Destroy
    BY <2>4 DEF Destroy, End
  <2>5. CASE NotifyWorker
    BY <2>5 DEF NotifyWorker, Woken
  <2>6. CASE Destroyed
    BY <2>6 DEF Destroyed
  <2>7. CASE RefreshDisplays
    BY <2>7 DEF RefreshDisplays
  <2>8. CASE SpawnRefresh
    BY <2>8 DEF SpawnRefresh
  <2>9. CASE \E i \in 0 .. MaxDisplays : SetActiveDisplay(i)
    BY <2>9 DEF SetActiveDisplay
  <2>10. CASE WorkerStart
    BY <2>10 DEF WorkerStart, Advance, MutexFree
  <2>11. CASE GsInit
    BY <2>11 DEF GsInit, Advance
  <2>12. CASE GsInitFailed
    BY <2>12 DEF GsInitFailed, Leave, Advance, MutexFree
  <2>13. CASE PublishDisplays
    BY <2>13 DEF PublishDisplays, Record, Reported, MutexFree
  <2>14. CASE \E from \in {"reached", "pin_shown", "gs_applist"} : GiveUp(from)
    BY <2>14 DEF GiveUp, Leave, Advance, MutexFree
  <2>15. CASE HttpsDown
    BY <2>15 DEF HttpsDown, Leave, Advance, MutexFree
  <2>16. CASE AlreadyPaired
    BY <2>16 DEF AlreadyPaired, AfterPairing, Advance
  <2>17. CASE ShowPin
    BY <2>17 DEF ShowPin, Advance, MutexFree
  <2>18. CASE AskHost
    BY <2>18 DEF AskHost, Advance, MutexFree
  <2>19. CASE GsPair
    BY <2>19 DEF GsPair, AfterPairing, Leave, Advance, MutexFree
  <2>20. CASE GsPairFailed
    BY <2>20 DEF GsPairFailed, Leave, Advance, MutexFree
  <2>21. CASE PairDone
    BY <2>21 DEF PairDone, Record, Leave, Advance, MutexFree
  <2>22. CASE GsApplist
    BY <2>22 DEF GsApplist, Advance
  <2>23. CASE GsApplistFailed
    BY <2>23 DEF GsApplistFailed, Leave, Advance, MutexFree
  <2>24. CASE GsStartApp
    BY <2>24 DEF GsStartApp, Advance
  <2>25. CASE GsStartAppFailed
    BY <2>25 DEF GsStartAppFailed, Leave, Advance, MutexFree
  <2>26. CASE QuitUnstarted
    BY <2>26 DEF QuitUnstarted, Leave, Advance, MutexFree
  <2>27. CASE Activate
    BY <2>27 DEF Activate, Advance, MutexFree
  <2>28. CASE PublishStreaming
    BY <2>28 DEF PublishStreaming, Advance, MutexFree
  <2>29. CASE LiStart
    BY <2>29 DEF LiStart, Advance
  <2>30. CASE LiStartFailed
    BY <2>30 DEF LiStartFailed, MutexFree
  <2>31. CASE Wait
    BY <2>31 DEF Wait, Advance, MutexFree
  <2>32. CASE Unhook
    BY <2>32 DEF Unhook, Advance, MutexFree
  <2>33. CASE JoinRefresh
    BY <2>33 DEF JoinRefresh, MutexFree
  <2>34. CASE LiStop
    BY <2>34 DEF LiStop, Advance
  <2>35. CASE QuitApp
    BY <2>35 DEF QuitApp, Advance
  <2>36. CASE Final
    BY <2>36 DEF Final, FinalState, Leave, Advance, MutexFree
  <2>37. CASE WorkerDone
    BY <2>37 DEF WorkerDone, MutexFree
  <2>38. CASE RefreshFetch
    BY <2>38 DEF RefreshFetch
  <2>39. CASE RefreshPublish
    BY <2>39 DEF RefreshPublish, Reported, Merged, MutexFree
  <2>40. CASE RefreshExit
    BY <2>40 DEF RefreshExit
  <2>41. CASE CallbackEnter
    BY <2>41 DEF CallbackEnter
  <2>42. CASE CallbackTerminated
    BY <2>42 DEF CallbackTerminated, MutexFree
  <2>43. CASE CallbackNotify
    BY <2>43 DEF CallbackNotify, Woken
  <2>44. CASE \E h \in Hosts : RemoveHost(h)
    BY <2>44 DEF RemoveHost
  <2>45. CASE \E h \in Hosts : HostRevokes(h)
    BY <2>45 DEF HostRevokes
  <2>46. CASE Stopped \/ UNCHANGED vars
    BY <2>46 DEF Stopped
  <2>47. QED
    BY <2>1, <2>2, <2>3, <2>4, <2>5, <2>6, <2>7, <2>8, <2>9,
       <2>10, <2>11, <2>12, <2>13, <2>14, <2>15, <2>16, <2>17, <2>18,
       <2>19, <2>20, <2>21, <2>22, <2>23, <2>24, <2>25, <2>26, <2>27,
       <2>28, <2>29, <2>30, <2>31, <2>32, <2>33, <2>34, <2>35, <2>36,
       <2>37, <2>38, <2>39, <2>40, <2>41, <2>42, <2>43, <2>44, <2>45,
       <2>46
    DEF Next, Worker
<1>3. QED
  BY <1>2

(* The strengthened invariant holds in every behaviour.                     *)
THEOREM Invariance == Spec => []IInv
<1>1. Init => IInv
  BY TypeInvariantInit
  DEF Init, IInv, LifeInv, RefreshInv, StreamInv, StateInv, Gone, Prologue,
      Launching, Connected, RefreshWindow, Terminal
<1>2. IInv /\ [Next]_vars => IInv'
  BY TypePreserved, Preserved DEF IInv
<1>3. QED
  BY <1>1, <1>2, PTL DEF Spec

(* The worker and the refresh thread never share the curl handle.           *)
THEOREM CurlIsExclusive == Spec => []CurlExclusive
<1>1. IInv => CurlExclusive
  BY DEF IInv, RefreshInv, CurlExclusive, WorkerHttp, RefreshWindow
<1>2. QED
  BY <1>1, Invariance, PTL

(* The refresh thread never outlives the worker that owns server_.          *)
THEOREM RefreshIsConfined == Spec => []RefreshConfined
<1>1. IInv => RefreshConfined
  BY DEF IInv, RefreshInv, RefreshConfined
<1>2. QED
  BY <1>1, Invariance, PTL

(* refresh_thread_ is never joined by two threads at once.                  *)
THEOREM JoinIsExclusive == Spec => []JoinExclusive
<1>1. IInv => JoinExclusive
  BY DEF IInv, RefreshInv, JoinExclusive, RefreshWindow
<1>2. QED
  BY <1>1, Invariance, PTL

(* A session at rest has left nothing behind, and the destructor waits for  *)
(* the session to rest.                                                     *)
THEOREM RestLeavesNothing == Spec => [](RestIsQuiet /\ DestroyedIsQuiet)
<1>1. IInv => RestIsQuiet
  BY DEF IInv, LifeInv, RefreshInv, StreamInv, StateInv, RestIsQuiet, Gone,
         RefreshWindow, Connected
<1>2. IInv => DestroyedIsQuiet
  BY DEF IInv, LifeInv, DestroyedIsQuiet
<1>3. QED
  BY <1>1, <1>2, Invariance, PTL

-----------------------------------------------------------------------------
(* What one thread leaves for another to find.  The user's choice is made in *)
(* a session that streams, and not handed on to the next.                   *)
PinInv ==
    flag.active_display_pinned =>
        main # "begin" /\ worker \in OnceStreaming \cup {"none"}

HandoverInv == PinInv /\ ParkedIsWoken

(* Every step keeps them.                                                    *)
LEMMA HandoverPreserved ==
    IInv /\ HandoverInv /\ [Next]_vars => HandoverInv'
<1>1. SUFFICES ASSUME IInv, HandoverInv, [Next]_vars
               PROVE  HandoverInv'
  OBVIOUS
<1>2. HandoverInv'
  <2> USE <1>1
      DEF IInv, LifeInv, StreamInv, RefreshInv, HandoverInv, PinInv,
          ParkedIsWoken, OnceStreaming, Connected, Gone, vars, threads, gates, stream, books
  <2>1. CASE \E h \in Hosts, m \in Mode : BeginWorker(h, m)
    BY <2>1 DEF BeginWorker, Cleared
  <2>2. CASE SpawnWorker
    BY <2>2 DEF SpawnWorker
  <2>3. CASE EndSession
    BY <2>3 DEF EndSession, End
  <2>4. CASE Destroy
    BY <2>4 DEF Destroy, End
  <2>5. CASE NotifyWorker
    BY <2>5 DEF NotifyWorker, Woken
  <2>6. CASE Destroyed
    BY <2>6 DEF Destroyed
  <2>7. CASE RefreshDisplays
    BY <2>7 DEF RefreshDisplays
  <2>8. CASE SpawnRefresh
    BY <2>8 DEF SpawnRefresh
  <2>9. CASE \E i \in 0 .. MaxDisplays : SetActiveDisplay(i)
    BY <2>9 DEF SetActiveDisplay
  <2>10. CASE WorkerStart
    BY <2>10 DEF WorkerStart, Advance, MutexFree
  <2>11. CASE GsInit
    BY <2>11 DEF GsInit, Advance
  <2>12. CASE GsInitFailed
    BY <2>12 DEF GsInitFailed, Leave, Advance, MutexFree
  <2>13. CASE PublishDisplays
    BY <2>13 DEF PublishDisplays, Record, Reported, MutexFree
  <2>14. CASE \E from \in {"reached", "pin_shown", "gs_applist"} : GiveUp(from)
    BY <2>14 DEF GiveUp, Leave, Advance, MutexFree
  <2>15. CASE HttpsDown
    BY <2>15 DEF HttpsDown, Leave, Advance, MutexFree
  <2>16. CASE AlreadyPaired
    BY <2>16 DEF AlreadyPaired, AfterPairing, Advance
  <2>17. CASE ShowPin
    BY <2>17 DEF ShowPin, Advance, MutexFree
  <2>18. CASE AskHost
    BY <2>18 DEF AskHost, Advance, MutexFree
  <2>19. CASE GsPair
    BY <2>19 DEF GsPair, AfterPairing, Leave, Advance, MutexFree
  <2>20. CASE GsPairFailed
    BY <2>20 DEF GsPairFailed, Leave, Advance, MutexFree
  <2>21. CASE PairDone
    BY <2>21 DEF PairDone, Record, Leave, Advance, MutexFree
  <2>22. CASE GsApplist
    BY <2>22 DEF GsApplist, Advance
  <2>23. CASE GsApplistFailed
    BY <2>23 DEF GsApplistFailed, Leave, Advance, MutexFree
  <2>24. CASE GsStartApp
    BY <2>24 DEF GsStartApp, Advance
  <2>25. CASE GsStartAppFailed
    BY <2>25 DEF GsStartAppFailed, Leave, Advance, MutexFree
  <2>26. CASE QuitUnstarted
    BY <2>26 DEF QuitUnstarted, Leave, Advance, MutexFree
  <2>27. CASE Activate
    BY <2>27 DEF Activate, Advance, MutexFree
  <2>28. CASE PublishStreaming
    BY <2>28 DEF PublishStreaming, Advance, MutexFree
  <2>29. CASE LiStart
    BY <2>29 DEF LiStart, Advance
  <2>30. CASE LiStartFailed
    BY <2>30 DEF LiStartFailed, MutexFree
  <2>31. CASE Wait
    BY <2>31 DEF Wait, Advance, MutexFree
  <2>32. CASE Unhook
    BY <2>32 DEF Unhook, Advance, MutexFree
  <2>33. CASE JoinRefresh
    BY <2>33 DEF JoinRefresh, MutexFree
  <2>34. CASE LiStop
    BY <2>34 DEF LiStop, Advance
  <2>35. CASE QuitApp
    BY <2>35 DEF QuitApp, Advance
  <2>36. CASE Final
    BY <2>36 DEF Final, FinalState, Leave, Advance, MutexFree
  <2>37. CASE WorkerDone
    BY <2>37 DEF WorkerDone, MutexFree
  <2>38. CASE RefreshFetch
    BY <2>38 DEF RefreshFetch
  <2>39. CASE RefreshPublish
    BY <2>39 DEF RefreshPublish, Reported, Merged, MutexFree
  <2>40. CASE RefreshExit
    BY <2>40 DEF RefreshExit
  <2>41. CASE CallbackEnter
    BY <2>41 DEF CallbackEnter
  <2>42. CASE CallbackTerminated
    BY <2>42 DEF CallbackTerminated, MutexFree
  <2>43. CASE CallbackNotify
    BY <2>43 DEF CallbackNotify, Woken
  <2>44. CASE \E h \in Hosts : RemoveHost(h)
    BY <2>44 DEF RemoveHost
  <2>45. CASE \E h \in Hosts : HostRevokes(h)
    BY <2>45 DEF HostRevokes
  <2>46. CASE Stopped \/ UNCHANGED vars
    BY <2>46 DEF Stopped
  <2>47. QED
    BY <2>1, <2>2, <2>3, <2>4, <2>5, <2>6, <2>7, <2>8, <2>9,
       <2>10, <2>11, <2>12, <2>13, <2>14, <2>15, <2>16, <2>17, <2>18,
       <2>19, <2>20, <2>21, <2>22, <2>23, <2>24, <2>25, <2>26, <2>27,
       <2>28, <2>29, <2>30, <2>31, <2>32, <2>33, <2>34, <2>35, <2>36,
       <2>37, <2>38, <2>39, <2>40, <2>41, <2>42, <2>43, <2>44, <2>45,
       <2>46
    DEF Next, Worker
<1>3. QED
  BY <1>2

(* The strengthened invariant with the handovers.                           *)
THEOREM Handover == Spec => []HandoverInv
<1>1. Init => HandoverInv
  BY DEF Init, Cleared, HandoverInv, PinInv, ParkedIsWoken
<1>2. QED
  BY <1>1, HandoverPreserved, Invariance, PTL DEF Spec

(* A step that changes the chosen monitor while the user's choice is pinned  *)
(* is the user's, or the host has lost that monitor.                        *)
LEMMA SelectionStep ==
    IInv /\ HandoverInv /\ [Next]_vars =>
        (flag.active_display_pinned
         /\ monitors'.active_display # monitors.active_display
         => \/ \E i \in 0 .. MaxDisplays : SetActiveDisplay(i)
            \/ monitors.active_display >= monitors'.displays)
<1>1. SUFFICES ASSUME IInv, HandoverInv, [Next]_vars,
                      flag.active_display_pinned,
                      monitors'.active_display # monitors.active_display,
                      ~\E i \in 0 .. MaxDisplays : SetActiveDisplay(i)
               PROVE  monitors.active_display >= monitors'.displays
  OBVIOUS
<1>2. worker # "publish_displays"
  BY <1>1 DEF HandoverInv, PinInv, OnceStreaming
<1>3. CASE RefreshPublish
  <2>1. PICK m \in Reported : monitors' = Merged(m)
    BY <1>1, <1>3 DEF RefreshPublish
  <2>2. m.displays \in Nat /\ m.active_display \in Nat
        /\ DOMAIN m = {"displays", "active_display"}
        /\ monitors.active_display \in Nat
    BY <1>1, SessionAssumption DEF Reported, Monitors, IInv, TypeOK
  <2>3. monitors' = [m EXCEPT !.active_display =
                         IF monitors.active_display >= m.displays
                         THEN 0 ELSE monitors.active_display]
    BY <1>1, <2>1 DEF Merged
  <2>4. monitors'.displays = m.displays
    BY <2>1, <2>3 DEF Reported, Monitors
  <2>5. CASE monitors.active_display >= m.displays
    BY <2>4, <2>5
  <2>6. CASE ~(monitors.active_display >= m.displays)
    BY <1>1, <2>1, <2>3, <2>6 DEF Reported, Monitors
  <2>7. QED
    BY <2>5, <2>6
<1>4. CASE ~RefreshPublish
  <2>1. UNCHANGED monitors
    BY <1>1, <1>2, <1>4, Zenon
    DEF Next, Worker, vars, BeginWorker, SpawnWorker, EndSession, Destroy,
        End, NotifyWorker, Destroyed, RefreshDisplays, SpawnRefresh,
        WorkerStart, GsInit, GsInitFailed, PublishDisplays, GiveUp,
        HttpsDown, AlreadyPaired, ShowPin, AskHost, GsPair, GsPairFailed,
        PairDone, GsApplist, GsApplistFailed, GsStartApp, GsStartAppFailed,
        QuitUnstarted, Activate, PublishStreaming, LiStart, LiStartFailed,
        Wait, Unhook, JoinRefresh, LiStop, QuitApp, Final, WorkerDone, Leave,
        Advance, RefreshFetch, RefreshExit, CallbackEnter,
        CallbackTerminated, CallbackNotify, RemoveHost, HostRevokes, Stopped
  <2>2. QED
    BY <1>1, <2>1
<1>5. QED
  BY <1>3, <1>4

(* The monitor the user chose stays chosen.                                  *)
THEOREM SelectionIsKept == Spec => SelectionSticks
<1>1. IInv /\ HandoverInv /\ [Next]_vars =>
          [flag.active_display_pinned
           /\ monitors'.active_display # monitors.active_display
           => \/ \E i \in 0 .. MaxDisplays : SetActiveDisplay(i)
              \/ monitors.active_display >= monitors'.displays]_vars
  BY SelectionStep
<1>2. QED
  BY <1>1, Invariance, Handover, PTL DEF Spec, SelectionSticks

(* No notification is lost on a worker about to sleep.                      *)
THEOREM NoLostNotification == Spec => []ParkedIsWoken
<1>1. HandoverInv => ParkedIsWoken
  BY DEF HandoverInv
<1>2. QED
  BY <1>1, Handover, PTL

(* The join made under the mutex is of a thread that needs it no more.       *)
THEOREM JoinUnderMutexIsShort == Spec => []JoinIsShort
<1>1. IInv => JoinIsShort
  BY DEF IInv, TypeOK, RefreshInv, JoinIsShort, RefreshPoint
<1>2. QED
  BY <1>1, Invariance, PTL

-----------------------------------------------------------------------------
(* Every step of the session is a step of the contract, or changes nothing  *)
(* the contract speaks of.                                                  *)
LEMMA StepRefines ==
    IInv /\ [Next]_vars => [Contract!Next]_(Contract!contractVars)
<1>1. SUFFICES ASSUME IInv, [Next]_vars
               PROVE  Contract!Next \/ UNCHANGED Contract!contractVars
  OBVIOUS
<1>2. Contract!Next \/ UNCHANGED Contract!contractVars
  <2> USE <1>1
      DEF IInv, LifeInv, StreamInv, StateInv, Gone, Prologue,
          Launching, Connected, vars, threads, gates, stream, books,
          Terminal, RefreshWindow, Contract!Next, Contract!contractVars
  <2>1. CASE \E h \in Hosts, m \in Mode : BeginWorker(h, m)
    <3>1. worker_running' = TRUE /\ flag'.session_ended = FALSE
      BY <2>1 DEF BeginWorker, Cleared
    <3>2. QED
      BY <2>1, <3>1 DEF BeginWorker, Contract!Start
  <2>2. CASE SpawnWorker
    BY <2>2 DEF SpawnWorker, Contract!Progress, Contract!Flow
  <2>3. CASE EndSession
    BY <2>3 DEF EndSession, End, Contract!End
  <2>4. CASE Destroy
    BY <2>4 DEF Destroy, End, Contract!End
  <2>5. CASE NotifyWorker
    BY <2>5 DEF NotifyWorker, Woken
  <2>6. CASE Destroyed
    BY <2>6 DEF Destroyed
  <2>7. CASE RefreshDisplays
    BY <2>7 DEF RefreshDisplays
  <2>8. CASE SpawnRefresh
    BY <2>8 DEF SpawnRefresh
  <2>9. CASE \E i \in 0 .. MaxDisplays : SetActiveDisplay(i)
    BY <2>9 DEF SetActiveDisplay
  <2>10. CASE WorkerStart
    BY <2>10 DEF WorkerStart, Advance, MutexFree
  <2>11. CASE GsInit
    BY <2>11 DEF GsInit, Advance
  <2>12. CASE GsInitFailed
    BY <2>12 DEF GsInitFailed, Leave, Advance, MutexFree, Contract!Report, Contract!Terminal
  <2>13. CASE PublishDisplays
    BY <2>13 DEF PublishDisplays, Record, Reported, MutexFree
  <2>14. CASE \E from \in {"reached", "pin_shown", "gs_applist"} : GiveUp(from)
    <3>1. PICK from \in {"reached", "pin_shown", "gs_applist"} : GiveUp(from)
      BY <2>14
    <3>2. launched = FALSE
      BY <3>1 DEF TypeOK, GiveUp, Leave, Advance
    <3>3. QED
      BY <3>1, <3>2 DEF GiveUp, Leave, Advance, Contract!Report,
                        Contract!Terminal
  <2>15. CASE HttpsDown
    BY <2>15 DEF HttpsDown, Leave, Advance, MutexFree, Contract!Report, Contract!Terminal
  <2>16. CASE AlreadyPaired
    BY <2>16 DEF AlreadyPaired, AfterPairing, Advance
  <2>17. CASE ShowPin
    BY <2>17 DEF ShowPin, Advance, MutexFree, Contract!Progress, Contract!Flow
  <2>18. CASE AskHost
    BY <2>18 DEF AskHost, Advance, MutexFree, Contract!Progress, Contract!Flow
  <2>19. CASE GsPair
    BY <2>19 DEF GsPair, AfterPairing, Leave, Advance, MutexFree, Contract!Report, Contract!Terminal
  <2>20. CASE GsPairFailed
    BY <2>20 DEF GsPairFailed, Leave, Advance, MutexFree, Contract!Report, Contract!Terminal
  <2>21. CASE PairDone
    BY <2>21 DEF PairDone, Record, Leave, Advance, MutexFree, Contract!Report, Contract!Terminal
  <2>22. CASE GsApplist
    BY <2>22 DEF GsApplist, Advance
  <2>23. CASE GsApplistFailed
    BY <2>23 DEF GsApplistFailed, Leave, Advance, MutexFree, Contract!Report, Contract!Terminal
  <2>24. CASE GsStartApp
    BY <2>24 DEF GsStartApp, Advance, Contract!LaunchApp
  <2>25. CASE GsStartAppFailed
    BY <2>25 DEF GsStartAppFailed, Leave, Advance, MutexFree, Contract!Report, Contract!Terminal
  <2>26. CASE QuitUnstarted
    BY <2>26 DEF QuitUnstarted, Leave, Advance, MutexFree, Contract!Report, Contract!Terminal
  <2>27. CASE Activate
    BY <2>27 DEF Activate, Advance, MutexFree
  <2>28. CASE PublishStreaming
    BY <2>28 DEF PublishStreaming, Advance, MutexFree, Contract!Progress, Contract!Flow
  <2>29. CASE LiStart
    BY <2>29 DEF LiStart, Advance
  <2>30. CASE LiStartFailed
    BY <2>30 DEF LiStartFailed, MutexFree
  <2>31. CASE Wait
    BY <2>31 DEF Wait, Advance, MutexFree
  <2>32. CASE Unhook
    BY <2>32 DEF Unhook, Advance, MutexFree
  <2>33. CASE JoinRefresh
    BY <2>33 DEF JoinRefresh, MutexFree
  <2>34. CASE LiStop
    BY <2>34 DEF LiStop, Advance
  <2>35. CASE QuitApp
    BY <2>35 DEF QuitApp, Advance, Contract!QuitApp
  <2>36. CASE Final
    BY <2>36 DEF Final, FinalState, Leave, Advance, MutexFree, Contract!Report, Contract!Terminal
  <2>37. CASE WorkerDone
    BY <2>37 DEF WorkerDone, MutexFree, Contract!Rest, Contract!Terminal
  <2>38. CASE RefreshFetch
    BY <2>38 DEF RefreshFetch
  <2>39. CASE RefreshPublish
    BY <2>39 DEF RefreshPublish, Reported, Merged, MutexFree
  <2>40. CASE RefreshExit
    BY <2>40 DEF RefreshExit
  <2>41. CASE CallbackEnter
    BY <2>41 DEF CallbackEnter
  <2>42. CASE CallbackTerminated
    BY <2>42 DEF CallbackTerminated, MutexFree
  <2>43. CASE CallbackNotify
    BY <2>43 DEF CallbackNotify, Woken
  <2>44. CASE \E h \in Hosts : RemoveHost(h)
    BY <2>44 DEF RemoveHost
  <2>45. CASE \E h \in Hosts : HostRevokes(h)
    BY <2>45 DEF HostRevokes
  <2>46. CASE Stopped \/ UNCHANGED vars
    BY <2>46 DEF Stopped
  <2>47. QED
    BY <2>1, <2>2, <2>3, <2>4, <2>5, <2>6, <2>7, <2>8, <2>9,
       <2>10, <2>11, <2>12, <2>13, <2>14, <2>15, <2>16, <2>17, <2>18,
       <2>19, <2>20, <2>21, <2>22, <2>23, <2>24, <2>25, <2>26, <2>27,
       <2>28, <2>29, <2>30, <2>31, <2>32, <2>33, <2>34, <2>35, <2>36,
       <2>37, <2>38, <2>39, <2>40, <2>41, <2>42, <2>43, <2>44, <2>45,
       <2>46
    DEF Next, Worker
<1>3. QED
  BY <1>2

(* The session implements the contract the application relies on.           *)
THEOREM Refinement == Spec => ImplementsContract
<1>1. Init => Contract!Init
  BY DEF Init, Contract!Init, Cleared
<1>2. QED
  BY <1>1, StepRefines, Invariance, PTL
  DEF Spec, ImplementsContract, Contract!Spec

\* Where an outcome is shown the worker has gone or is about to, so only the
\* main thread can change it.
LEMMA OutcomeStep ==
    ASSUME IInv, Next, state \in Terminal, state' # state
    PROVE  state' = "Connecting" /\ main = "begin" /\ worker \in {"none", "dead"}
<1>1. worker \in Gone \cup {"exit"}
  BY DEF IInv, TypeOK, StateInv, WorkerPoint, WorkerHttp, RefreshWindow, OnceStreaming,
         Gone, Prologue, Launching, Connected, Terminal
<1>2. ~Worker
  BY <1>1 DEF Gone, Worker, WorkerStart, GsInit, GsInitFailed, PublishDisplays, GiveUp, HttpsDown,
         AlreadyPaired, ShowPin, AskHost, GsPair, GsPairFailed, PairDone, GsApplist,
         GsApplistFailed, GsStartApp, GsStartAppFailed, QuitUnstarted, Activate,
         PublishStreaming, LiStart, LiStartFailed, Wait, Unhook, JoinRefresh,
         LiStop, QuitApp, Final, WorkerDone, Leave, Advance, AfterPairing
<1>3. SpawnWorker
  BY <1>2 DEF Next, BeginWorker, EndSession, Destroy, End, NotifyWorker, Destroyed,
         RefreshDisplays, SpawnRefresh, SetActiveDisplay, RefreshFetch,
         RefreshPublish, RefreshExit, CallbackEnter, CallbackTerminated,
         CallbackNotify, RemoveHost, HostRevokes, Stopped, vars
<1> QED BY <1>3 DEF SpawnWorker

(* session.cpp, report and begin_worker: an outcome is final; a callback or  *)
(* a thread of the session that reported it cannot take it back.             *)
THEOREM OutcomeStays == Spec => OutcomeIsFinal
<1>1. IInv /\ [Next]_vars =>
          [state' # state /\ state \in Terminal =>
               /\ state' = "Connecting"
               /\ main = "begin" /\ worker \in {"none", "dead"}]_vars
  BY OutcomeStep
<1> QED BY <1>1, Invariance, PTL DEF Spec, OutcomeIsFinal
=============================================================================
