------------------------ MODULE HostLifetime_proofs ------------------------
(***************************************************************************)
(* Theorems about HostLifetime, for any number of sessions, processes,     *)
(* values and failures.                                                    *)
(*                                                                         *)
(* The setting can be undone because the file is open for one process at a *)
(* time.  Only the process that has it open saves the host's value; so one *)
(* that made the file knows, when it empties or deletes it, whether that   *)
(* value can be in the driver (Owners).  What a process read before it     *)
(* opened the file is either still so (Fresh), or its copy is not current, *)
(* and what it then saves or gives up is excused.                          *)
(*                                                                         *)
(* One instance runs because a process that does has found no handle to    *)
(* the mutex, and an identity in the mutex belongs to a process that still *)
(* is in that session.  The service watches the only process of its own    *)
(* that is not already killed.                                             *)
(***************************************************************************)
EXTENDS HostLifetime, TLAPS

Lost == abandoned \/ outdated

\* A file that is open is there.
NoFileNoHolder == file = "none" => holder = None

UndoHolds ==
    \A p \in Proc : pc[p] \in {"undo", "drop", "drop_anyway"} => holder = p
OwnerHolds == \A p \in Proc : undo_file[p] = "open" => holder = p

\* Where a process owns no file, and where it must.
NotOwned ==
    \A p \in Proc :
        /\ pc[p] \in {"free", "acquire", "second", "open", "undo", "drop",
                      "drop_anyway", "create", "exited", "dying"}
             => undo_file[p] = "none"
        /\ pc[p] \in {"fill", "save"} => undo_file[p] = "open"
        /\ pc[p] \in {"exit_save", "exit_delete"} => undo_file[p] # "none"

Handles == NoFileNoHolder /\ UndoHolds /\ OwnerHolds /\ NotOwned

\* The value to put back is known where it is needed, and a copy that may be
\* saved by the way holds one of the user's.
Records ==
    \A p \in Proc :
        /\ undo_file[p] # "none" \/ pc[p] \in {"create", "write", "fill", "save"}
             => undo_data[p] \in Values
        /\ pc[p] \in {"open", "undo", "drop"} => ~dirty[p]
        /\ pc[p] \in {"drop_anyway", "apply"} /\ dirty[p] => copy[p] \in Values
        /\ pc[p] \in {"apply", "modify"} /\ dirty[p] => undo_file[p] = "none"
        /\ pc[p] \in {"open", "undo", "drop", "drop_anyway", "apply", "modify",
                      "exit_save"} => copy[p] # None
        /\ pc[p] \in {"create", "write", "fill", "save"} => copy[p] = Ours
        /\ pc[p] = "save" => file = undo_data[p]
        /\ pc[p] = "drop" /\ copy[p] = Ours => file \notin Values

\* What a process whose copy is current knows of the setting; and if it failed
\* to save what it had undone, there is still the file, or that is lost.
Fresh ==
    \A p \in current :
        /\ pc[p] \in {"open", "undo", "drop", "exit_save"} => copy[p] = driver
        /\ pc[p] \in {"drop_anyway", "apply", "modify"} =>
               IF dirty[p]
               THEN driver = Ours /\ (Lost \/ file = copy[p])
               ELSE copy[p] = driver
        /\ pc[p] = "create" =>
               IF dirty[p]
               THEN driver = Ours /\ (Lost \/ file = undo_data[p])
               ELSE undo_data[p] = driver
        /\ pc[p] \in {"write", "fill", "save"} => Lost \/ undo_data[p] = driver

\* Where a process that has made a file would empty or delete it.
GivesUp(p) ==
    \/ pc[p] \in {"write", "fill", "exit_delete"}
    \/ pc[p] \in {"apply", "modify", "exit_save"} /\ copy[p] # Ours

\* And what it knows, whatever the others did.
Owners ==
    \A p \in Proc :
        undo_file[p] = "open" /\ driver = Ours =>
            Lost \/ (file = undo_data[p] /\ ~GivesUp(p))

IInv == TypeOK /\ Handles /\ Records /\ Fresh /\ Owners /\ Recoverable
-----------------------------------------------------------------------------

(* Types. *)

LEMMA ServiceTyped ==
    ASSUME TypeOK, Next
    PROVE  ServiceTypes'
<1> USE DEF TypeOK, ServiceTypes, ProcessTypes, LocalTypes, DiskTypes, Services, Points, serviceVars
<1>1. CASE Pause
  BY <1>1 DEF Pause, Quiet
<1>2. CASE AskConsole
  BY <1>2 DEF AskConsole, Quiet
<1>3. CASE NotChanged
  BY <1>3 DEF NotChanged, Quiet
<1>4. ASSUME NEW p \in Proc, Spawn(p)
      PROVE  ServiceTypes'
  BY <1>4 DEF Spawn, Starts, Quiet
<1>5. ASSUME NEW p \in Proc, WatchStop(p)
      PROVE  ServiceTypes'
  BY <1>5 DEF WatchStop, Terminate, Killed, Freed, Forget, Quiet
<1>6. ASSUME NEW p \in Proc, Reap(p)
      PROVE  ServiceTypes'
  BY <1>6 DEF Reap, Freed, Quiet
<1>7. ASSUME NEW p \in Proc, WatchChange(p)
      PROVE  ServiceTypes'
  BY <1>7 DEF WatchChange, Quiet
<1>8. ASSUME NEW p \in Proc, Changed(p)
      PROVE  ServiceTypes'
  BY <1>8 DEF Changed, Terminate, Killed, Freed, Forget, Quiet
<1>9. CASE Deliver
  BY <1>9 DEF Deliver, Quiet
<1>10. CASE SpawnFails
  BY <1>10 DEF SpawnFails, Event
<1>11. CASE StopControl
  BY <1>11 DEF StopControl, Event
<1>12. CASE StartService
  BY <1>12 DEF StartService, Event
<1>13. CASE ServiceCrash
  BY <1>13 DEF ServiceCrash, Killed, Freed, Forget, Event
<1>14. ASSUME NEW p \in Proc, AcquireFails(p)
      PROVE  ServiceTypes'
  BY <1>14 DEF AcquireFails, Step, Event
<1>15. ASSUME NEW p \in Proc, StreamStart(p)
      PROVE  ServiceTypes'
  BY <1>15 DEF StreamStart, Step, Event
<1>16. ASSUME NEW p \in Proc, Crash(p)
      PROVE  ServiceTypes'
  BY <1>16 DEF Crash, Live, Killed, Freed, Forget, Event
<1>17. ASSUME NEW p \in Proc, NEW tray \in BOOLEAN, Quit(p, tray)
      PROVE  ServiceTypes'
  BY <1>17 DEF Quit, Step, Event
<1>18. ASSUME NEW p \in Proc, NEW s \in Session, Launch(p, s)
      PROVE  ServiceTypes'
  BY <1>18 DEF Launch, Starts, Event
<1>19. ASSUME NEW v \in Values, UserSets(v)
      PROVE  ServiceTypes'
  BY <1>19 DEF UserSets, Event
<1>20. ASSUME NEW c \in Session \cup {None}, ConsoleChange(c)
      PROVE  ServiceTypes'
  BY <1>20 DEF ConsoleChange, Event
<1>21. ASSUME NEW p \in Proc, Acquire(p)
      PROVE  ServiceTypes'
  BY <1>21 DEF Acquire, Step, Quiet
<1>22. ASSUME NEW p \in Proc, Second(p)
      PROVE  ServiceTypes'
  BY <1>22 DEF Second, Ends, Freed, Forget, Quiet
<1>23. ASSUME NEW p \in Proc, Release(p)
      PROVE  ServiceTypes'
  BY <1>23 DEF Release, Step, Quiet
<1>24. ASSUME NEW p \in Proc, Load(p)
      PROVE  ServiceTypes'
  BY <1>24 DEF Load, Step, Inside, Quiet, Event
<1>25. ASSUME NEW p \in Proc, LoadFails(p)
      PROVE  ServiceTypes'
  BY <1>25 DEF LoadFails, Step, Inside, Quiet, Event
<1>26. ASSUME NEW p \in Proc, Open(p)
      PROVE  ServiceTypes'
  BY <1>26 DEF Open, Step, Inside, Quiet, Event
<1>27. ASSUME NEW p \in Proc, OpenFails(p)
      PROVE  ServiceTypes'
  BY <1>27 DEF OpenFails, Step, Inside, Quiet, Event
<1>28. ASSUME NEW p \in Proc, Undo(p)
      PROVE  ServiceTypes'
  BY <1>28 DEF Undo, Saves, GoesBy, Step, Inside, Quiet, Event
<1>29. ASSUME NEW p \in Proc, UndoFails(p)
      PROVE  ServiceTypes'
  BY <1>29 DEF UndoFails, Step, Inside, Quiet, Event
<1>30. ASSUME NEW p \in Proc, Drop(p)
      PROVE  ServiceTypes'
  BY <1>30 DEF Drop, DropUndone, DropAnyway, GoesBy, Step, Inside, Quiet, Event, Deleted
<1>31. ASSUME NEW p \in Proc, DropFails(p)
      PROVE  ServiceTypes'
  BY <1>31 DEF DropFails, Step, Inside, Quiet, Event
<1>32. ASSUME NEW p \in Proc, NEW saves \in BOOLEAN, Apply(p, saves)
      PROVE  ServiceTypes'
  BY <1>32 DEF Apply, Saves, GoesBy, Step, Inside, Quiet, Event
<1>33. ASSUME NEW p \in Proc, Modify(p)
      PROVE  ServiceTypes'
  BY <1>33 DEF Modify, Step, Inside, Quiet, Event
<1>34. ASSUME NEW p \in Proc, ModifyNot(p)
      PROVE  ServiceTypes'
  BY <1>34 DEF ModifyNot, Step, Inside, Quiet, Event, Unload
<1>35. ASSUME NEW p \in Proc, Create(p)
      PROVE  ServiceTypes'
  BY <1>35 DEF Create, Step, Inside, Quiet, Event
<1>36. ASSUME NEW p \in Proc, CreateFails(p)
      PROVE  ServiceTypes'
  BY <1>36 DEF CreateFails, Step, Inside, Quiet, Event, Unload
<1>37. ASSUME NEW p \in Proc, Write(p)
      PROVE  ServiceTypes'
  BY <1>37 DEF Write, Step, Inside, Quiet, Event
<1>38. ASSUME NEW p \in Proc, Fill(p)
      PROVE  ServiceTypes'
  BY <1>38 DEF Fill, Step, Inside, Quiet, Event
<1>39. ASSUME NEW p \in Proc, WriteFails(p)
      PROVE  ServiceTypes'
  BY <1>39 DEF WriteFails, Step, Inside, Quiet, Event, Unload, Deleted
<1>40. ASSUME NEW p \in Proc, Save(p)
      PROVE  ServiceTypes'
  BY <1>40 DEF Save, GoesBy, Step, Inside, Quiet, Event
<1>41. ASSUME NEW p \in Proc, SaveFails(p)
      PROVE  ServiceTypes'
  BY <1>41 DEF SaveFails, Step, Inside, Quiet, Event, Unload
<1>42. ASSUME NEW p \in Proc, ExitLoad(p)
      PROVE  ServiceTypes'
  BY <1>42 DEF ExitLoad, Step, Inside, Quiet, Event
<1>43. ASSUME NEW p \in Proc, ExitSave(p)
      PROVE  ServiceTypes'
  BY <1>43 DEF ExitSave, Saves, Step, Inside, Quiet, Event
<1>44. ASSUME NEW p \in Proc, ExitDelete(p)
      PROVE  ServiceTypes'
  BY <1>44 DEF ExitDelete, Ends, Freed, Forget, Deleted, Quiet
<1>45. ASSUME NEW p \in Proc, ExitPlain(p)
      PROVE  ServiceTypes'
  BY <1>45 DEF ExitPlain, Ends, Freed, Forget, NothingToUndo, Quiet, Event
<1>46. ASSUME NEW p \in Proc, Dead(p)
      PROVE  ServiceTypes'
  BY <1>46 DEF Dead, Ends, Freed, Forget, Quiet
<1> HIDE DEF TypeOK, ServiceTypes, ProcessTypes, LocalTypes, DiskTypes, Services, Points, serviceVars
<1> QED
  BY <1>1, <1>2, <1>3, <1>4, <1>5, <1>6, <1>7, <1>8, <1>9, <1>10, <1>11, <1>12, <1>13, <1>14, <1>15, <1>16, <1>17, <1>18, <1>19, <1>20, <1>21, <1>22, <1>23, <1>24, <1>25, <1>26, <1>27, <1>28, <1>29, <1>30, <1>31, <1>32, <1>33, <1>34, <1>35, <1>36, <1>37, <1>38, <1>39, <1>40, <1>41, <1>42, <1>43, <1>44, <1>45, <1>46
     DEF Next, ServiceStep, ProcessStep, Chance


LEMMA ProcessTyped ==
    ASSUME TypeOK, Next
    PROVE  ProcessTypes'
<1> USE DEF TypeOK, ServiceTypes, ProcessTypes, LocalTypes, DiskTypes, Services, Points, processVars
<1>1. CASE Pause
  BY <1>1 DEF Pause, Quiet
<1>2. CASE AskConsole
  BY <1>2 DEF AskConsole, Quiet
<1>3. CASE NotChanged
  BY <1>3 DEF NotChanged, Quiet
<1>4. ASSUME NEW p \in Proc, Spawn(p)
      PROVE  ProcessTypes'
  BY <1>4 DEF Spawn, Starts, Quiet
<1>5. ASSUME NEW p \in Proc, WatchStop(p)
      PROVE  ProcessTypes'
  BY <1>5 DEF WatchStop, Terminate, Killed, Freed, Forget, Quiet
<1>6. ASSUME NEW p \in Proc, Reap(p)
      PROVE  ProcessTypes'
  BY <1>6 DEF Reap, Freed, Quiet
<1>7. ASSUME NEW p \in Proc, WatchChange(p)
      PROVE  ProcessTypes'
  BY <1>7 DEF WatchChange, Quiet
<1>8. ASSUME NEW p \in Proc, Changed(p)
      PROVE  ProcessTypes'
  BY <1>8 DEF Changed, Terminate, Killed, Freed, Forget, Quiet
<1>9. CASE Deliver
  BY <1>9 DEF Deliver, Quiet
<1>10. CASE SpawnFails
  BY <1>10 DEF SpawnFails, Event
<1>11. CASE StopControl
  BY <1>11 DEF StopControl, Event
<1>12. CASE StartService
  BY <1>12 DEF StartService, Event
<1>13. CASE ServiceCrash
  BY <1>13 DEF ServiceCrash, Killed, Freed, Forget, Event
<1>14. ASSUME NEW p \in Proc, AcquireFails(p)
      PROVE  ProcessTypes'
  BY <1>14 DEF AcquireFails, Step, Event
<1>15. ASSUME NEW p \in Proc, StreamStart(p)
      PROVE  ProcessTypes'
  BY <1>15 DEF StreamStart, Step, Event
<1>16. ASSUME NEW p \in Proc, Crash(p)
      PROVE  ProcessTypes'
  BY <1>16 DEF Crash, Live, Killed, Freed, Forget, Event
<1>17. ASSUME NEW p \in Proc, NEW tray \in BOOLEAN, Quit(p, tray)
      PROVE  ProcessTypes'
  BY <1>17 DEF Quit, Step, Event
<1>18. ASSUME NEW p \in Proc, NEW s \in Session, Launch(p, s)
      PROVE  ProcessTypes'
  BY <1>18 DEF Launch, Starts, Event
<1>19. ASSUME NEW v \in Values, UserSets(v)
      PROVE  ProcessTypes'
  BY <1>19 DEF UserSets, Event
<1>20. ASSUME NEW c \in Session \cup {None}, ConsoleChange(c)
      PROVE  ProcessTypes'
  BY <1>20 DEF ConsoleChange, Event
<1>21. ASSUME NEW p \in Proc, Acquire(p)
      PROVE  ProcessTypes'
  BY <1>21 DEF Acquire, Step, Quiet
<1>22. ASSUME NEW p \in Proc, Second(p)
      PROVE  ProcessTypes'
  BY <1>22 DEF Second, Ends, Freed, Forget, Quiet
<1>23. ASSUME NEW p \in Proc, Release(p)
      PROVE  ProcessTypes'
  BY <1>23 DEF Release, Step, Quiet
<1>24. ASSUME NEW p \in Proc, Load(p)
      PROVE  ProcessTypes'
  BY <1>24 DEF Load, Step, Inside, Quiet, Event
<1>25. ASSUME NEW p \in Proc, LoadFails(p)
      PROVE  ProcessTypes'
  BY <1>25 DEF LoadFails, Step, Inside, Quiet, Event
<1>26. ASSUME NEW p \in Proc, Open(p)
      PROVE  ProcessTypes'
  BY <1>26 DEF Open, Step, Inside, Quiet, Event
<1>27. ASSUME NEW p \in Proc, OpenFails(p)
      PROVE  ProcessTypes'
  BY <1>27 DEF OpenFails, Step, Inside, Quiet, Event
<1>28. ASSUME NEW p \in Proc, Undo(p)
      PROVE  ProcessTypes'
  BY <1>28 DEF Undo, Saves, GoesBy, Step, Inside, Quiet, Event
<1>29. ASSUME NEW p \in Proc, UndoFails(p)
      PROVE  ProcessTypes'
  BY <1>29 DEF UndoFails, Step, Inside, Quiet, Event
<1>30. ASSUME NEW p \in Proc, Drop(p)
      PROVE  ProcessTypes'
  BY <1>30 DEF Drop, DropUndone, DropAnyway, GoesBy, Step, Inside, Quiet, Event, Deleted
<1>31. ASSUME NEW p \in Proc, DropFails(p)
      PROVE  ProcessTypes'
  BY <1>31 DEF DropFails, Step, Inside, Quiet, Event
<1>32. ASSUME NEW p \in Proc, NEW saves \in BOOLEAN, Apply(p, saves)
      PROVE  ProcessTypes'
  BY <1>32 DEF Apply, Saves, GoesBy, Step, Inside, Quiet, Event
<1>33. ASSUME NEW p \in Proc, Modify(p)
      PROVE  ProcessTypes'
  BY <1>33 DEF Modify, Step, Inside, Quiet, Event
<1>34. ASSUME NEW p \in Proc, ModifyNot(p)
      PROVE  ProcessTypes'
  BY <1>34 DEF ModifyNot, Step, Inside, Quiet, Event, Unload
<1>35. ASSUME NEW p \in Proc, Create(p)
      PROVE  ProcessTypes'
  BY <1>35 DEF Create, Step, Inside, Quiet, Event
<1>36. ASSUME NEW p \in Proc, CreateFails(p)
      PROVE  ProcessTypes'
  BY <1>36 DEF CreateFails, Step, Inside, Quiet, Event, Unload
<1>37. ASSUME NEW p \in Proc, Write(p)
      PROVE  ProcessTypes'
  BY <1>37 DEF Write, Step, Inside, Quiet, Event
<1>38. ASSUME NEW p \in Proc, Fill(p)
      PROVE  ProcessTypes'
  BY <1>38 DEF Fill, Step, Inside, Quiet, Event
<1>39. ASSUME NEW p \in Proc, WriteFails(p)
      PROVE  ProcessTypes'
  BY <1>39 DEF WriteFails, Step, Inside, Quiet, Event, Unload, Deleted
<1>40. ASSUME NEW p \in Proc, Save(p)
      PROVE  ProcessTypes'
  BY <1>40 DEF Save, GoesBy, Step, Inside, Quiet, Event
<1>41. ASSUME NEW p \in Proc, SaveFails(p)
      PROVE  ProcessTypes'
  BY <1>41 DEF SaveFails, Step, Inside, Quiet, Event, Unload
<1>42. ASSUME NEW p \in Proc, ExitLoad(p)
      PROVE  ProcessTypes'
  BY <1>42 DEF ExitLoad, Step, Inside, Quiet, Event
<1>43. ASSUME NEW p \in Proc, ExitSave(p)
      PROVE  ProcessTypes'
  BY <1>43 DEF ExitSave, Saves, Step, Inside, Quiet, Event
<1>44. ASSUME NEW p \in Proc, ExitDelete(p)
      PROVE  ProcessTypes'
  <2>1. tray_quit_requested[p] \in BOOLEAN
    OBVIOUS
  <2>2. PICK code \in BOOLEAN : code = tray_quit_requested[p]
    BY <2>1
  <2> QED BY <1>44, <2>2 DEF ExitDelete, Ends, Freed, Forget, Deleted, Quiet
<1>45. ASSUME NEW p \in Proc, ExitPlain(p)
      PROVE  ProcessTypes'
  <2>1. tray_quit_requested[p] \in BOOLEAN
    OBVIOUS
  <2>2. PICK code \in BOOLEAN : code = tray_quit_requested[p]
    BY <2>1
  <2> QED BY <1>45, <2>2 DEF ExitPlain, Ends, Freed, Forget, NothingToUndo, Quiet, Event
<1>46. ASSUME NEW p \in Proc, Dead(p)
      PROVE  ProcessTypes'
  BY <1>46 DEF Dead, Ends, Freed, Forget, Quiet
<1> HIDE DEF TypeOK, ServiceTypes, ProcessTypes, LocalTypes, DiskTypes, Services, Points, processVars
<1> QED
  BY <1>1, <1>2, <1>3, <1>4, <1>5, <1>6, <1>7, <1>8, <1>9, <1>10, <1>11, <1>12, <1>13, <1>14, <1>15, <1>16, <1>17, <1>18, <1>19, <1>20, <1>21, <1>22, <1>23, <1>24, <1>25, <1>26, <1>27, <1>28, <1>29, <1>30, <1>31, <1>32, <1>33, <1>34, <1>35, <1>36, <1>37, <1>38, <1>39, <1>40, <1>41, <1>42, <1>43, <1>44, <1>45, <1>46
     DEF Next, ServiceStep, ProcessStep, Chance


LEMMA LocalTyped ==
    ASSUME TypeOK, Records, Next
    PROVE  LocalTypes'
<1> USE DEF TypeOK, ServiceTypes, ProcessTypes, LocalTypes, DiskTypes, Points, localVars
<1>1. CASE Pause
  BY <1>1 DEF Pause, Quiet
<1>2. CASE AskConsole
  BY <1>2 DEF AskConsole, Quiet
<1>3. CASE NotChanged
  BY <1>3 DEF NotChanged, Quiet
<1>4. ASSUME NEW p \in Proc, Spawn(p)
      PROVE  LocalTypes'
  BY <1>4 DEF Spawn, Starts, Quiet
<1>5. ASSUME NEW p \in Proc, WatchStop(p)
      PROVE  LocalTypes'
  BY <1>5 DEF WatchStop, Terminate, Killed, Freed, Forget, Quiet
<1>6. ASSUME NEW p \in Proc, Reap(p)
      PROVE  LocalTypes'
  BY <1>6 DEF Reap, Freed, Quiet
<1>7. ASSUME NEW p \in Proc, WatchChange(p)
      PROVE  LocalTypes'
  BY <1>7 DEF WatchChange, Quiet
<1>8. ASSUME NEW p \in Proc, Changed(p)
      PROVE  LocalTypes'
  BY <1>8 DEF Changed, Terminate, Killed, Freed, Forget, Quiet
<1>9. CASE Deliver
  BY <1>9 DEF Deliver, Quiet
<1>10. CASE SpawnFails
  BY <1>10 DEF SpawnFails, Event
<1>11. CASE StopControl
  BY <1>11 DEF StopControl, Event
<1>12. CASE StartService
  BY <1>12 DEF StartService, Event
<1>13. CASE ServiceCrash
  BY <1>13 DEF ServiceCrash, Killed, Freed, Forget, Event
<1>14. ASSUME NEW p \in Proc, AcquireFails(p)
      PROVE  LocalTypes'
  BY <1>14 DEF AcquireFails, Step, Event
<1>15. ASSUME NEW p \in Proc, StreamStart(p)
      PROVE  LocalTypes'
  BY <1>15 DEF StreamStart, Step, Event
<1>16. ASSUME NEW p \in Proc, Crash(p)
      PROVE  LocalTypes'
  BY <1>16 DEF Crash, Live, Killed, Freed, Forget, Event
<1>17. ASSUME NEW p \in Proc, NEW tray \in BOOLEAN, Quit(p, tray)
      PROVE  LocalTypes'
  BY <1>17 DEF Quit, Step, Event
<1>18. ASSUME NEW p \in Proc, NEW s \in Session, Launch(p, s)
      PROVE  LocalTypes'
  BY <1>18 DEF Launch, Starts, Event
<1>19. ASSUME NEW v \in Values, UserSets(v)
      PROVE  LocalTypes'
  BY <1>19 DEF UserSets, Event
<1>20. ASSUME NEW c \in Session \cup {None}, ConsoleChange(c)
      PROVE  LocalTypes'
  BY <1>20 DEF ConsoleChange, Event
<1>21. ASSUME NEW p \in Proc, Acquire(p)
      PROVE  LocalTypes'
  BY <1>21 DEF Acquire, Step, Quiet
<1>22. ASSUME NEW p \in Proc, Second(p)
      PROVE  LocalTypes'
  BY <1>22 DEF Second, Ends, Freed, Forget, Quiet
<1>23. ASSUME NEW p \in Proc, Release(p)
      PROVE  LocalTypes'
  BY <1>23 DEF Release, Step, Quiet
<1>24. ASSUME NEW p \in Proc, Load(p)
      PROVE  LocalTypes'
  BY <1>24 DEF Load, Step, Inside, Quiet, Event
<1>25. ASSUME NEW p \in Proc, LoadFails(p)
      PROVE  LocalTypes'
  BY <1>25 DEF LoadFails, Step, Inside, Quiet, Event
<1>26. ASSUME NEW p \in Proc, Open(p)
      PROVE  LocalTypes'
  BY <1>26 DEF Open, Step, Inside, Quiet, Event
<1>27. ASSUME NEW p \in Proc, OpenFails(p)
      PROVE  LocalTypes'
  BY <1>27 DEF OpenFails, Step, Inside, Quiet, Event
<1>28. ASSUME NEW p \in Proc, Undo(p)
      PROVE  LocalTypes'
  BY <1>28 DEF Undo, Saves, GoesBy, Step, Inside, Quiet, Event
<1>29. ASSUME NEW p \in Proc, UndoFails(p)
      PROVE  LocalTypes'
  <2>1. CASE UNCHANGED <<copy, dirty>>
    BY <1>29, <2>1 DEF Inside, UndoFails
  <2>2. CASE /\ file \in Values
             /\ copy' = [copy EXCEPT ![p] = file]
             /\ dirty' = [dirty EXCEPT ![p] = TRUE]
    BY <1>29, <2>2 DEF Inside, UndoFails
  <2> QED BY <1>29, <2>1, <2>2 DEF UndoFails
<1>30. ASSUME NEW p \in Proc, Drop(p)
      PROVE  LocalTypes'
  BY <1>30 DEF Drop, DropUndone, DropAnyway, GoesBy, Step, Inside, Quiet, Event, Deleted
<1>31. ASSUME NEW p \in Proc, DropFails(p)
      PROVE  LocalTypes'
  BY <1>31 DEF DropFails, Step, Inside, Quiet, Event
<1>32. ASSUME NEW p \in Proc, NEW saves \in BOOLEAN, Apply(p, saves)
      PROVE  LocalTypes'
  BY <1>32 DEF Apply, Saves, GoesBy, Step, Inside, Quiet, Event
<1>33. ASSUME NEW p \in Proc, Modify(p)
      PROVE  LocalTypes'
  BY <1>33 DEF Modify, Step, Inside, Quiet, Event, Records
<1>34. ASSUME NEW p \in Proc, ModifyNot(p)
      PROVE  LocalTypes'
  BY <1>34 DEF ModifyNot, Step, Inside, Quiet, Event, Unload
<1>35. ASSUME NEW p \in Proc, Create(p)
      PROVE  LocalTypes'
  BY <1>35 DEF Create, Step, Inside, Quiet, Event
<1>36. ASSUME NEW p \in Proc, CreateFails(p)
      PROVE  LocalTypes'
  BY <1>36 DEF CreateFails, Step, Inside, Quiet, Event, Unload
<1>37. ASSUME NEW p \in Proc, Write(p)
      PROVE  LocalTypes'
  BY <1>37 DEF Write, Step, Inside, Quiet, Event
<1>38. ASSUME NEW p \in Proc, Fill(p)
      PROVE  LocalTypes'
  BY <1>38 DEF Fill, Step, Inside, Quiet, Event
<1>39. ASSUME NEW p \in Proc, WriteFails(p)
      PROVE  LocalTypes'
  BY <1>39 DEF WriteFails, Step, Inside, Quiet, Event, Unload, Deleted
<1>40. ASSUME NEW p \in Proc, Save(p)
      PROVE  LocalTypes'
  BY <1>40 DEF Save, GoesBy, Step, Inside, Quiet, Event
<1>41. ASSUME NEW p \in Proc, SaveFails(p)
      PROVE  LocalTypes'
  BY <1>41 DEF SaveFails, Step, Inside, Quiet, Event, Unload
<1>42. ASSUME NEW p \in Proc, ExitLoad(p)
      PROVE  LocalTypes'
  BY <1>42 DEF ExitLoad, Step, Inside, Quiet, Event
<1>43. ASSUME NEW p \in Proc, ExitSave(p)
      PROVE  LocalTypes'
  BY <1>43 DEF ExitSave, Saves, Step, Inside, Quiet, Event
<1>44. ASSUME NEW p \in Proc, ExitDelete(p)
      PROVE  LocalTypes'
  BY <1>44 DEF ExitDelete, Ends, Freed, Forget, Deleted, Quiet
<1>45. ASSUME NEW p \in Proc, ExitPlain(p)
      PROVE  LocalTypes'
  BY <1>45 DEF ExitPlain, Ends, Freed, Forget, NothingToUndo, Quiet, Event
<1>46. ASSUME NEW p \in Proc, Dead(p)
      PROVE  LocalTypes'
  BY <1>46 DEF Dead, Ends, Freed, Forget, Quiet
<1> HIDE DEF TypeOK, ServiceTypes, ProcessTypes, LocalTypes, DiskTypes, Points, localVars
<1> QED
  BY <1>1, <1>2, <1>3, <1>4, <1>5, <1>6, <1>7, <1>8, <1>9, <1>10, <1>11, <1>12, <1>13, <1>14, <1>15, <1>16, <1>17, <1>18, <1>19, <1>20, <1>21, <1>22, <1>23, <1>24, <1>25, <1>26, <1>27, <1>28, <1>29, <1>30, <1>31, <1>32, <1>33, <1>34, <1>35, <1>36, <1>37, <1>38, <1>39, <1>40, <1>41, <1>42, <1>43, <1>44, <1>45, <1>46
     DEF Next, ServiceStep, ProcessStep, Chance


LEMMA DiskTyped ==
    ASSUME TypeOK, Handles, Records, Next
    PROVE  DiskTypes'
<1> USE DEF TypeOK, ServiceTypes, ProcessTypes, LocalTypes, DiskTypes, Handles, NoFileNoHolder, UndoHolds, OwnerHolds, NotOwned, Records, Points, localVars, diskVars
<1>1. CASE Pause
  BY <1>1 DEF Pause, Quiet
<1>2. CASE AskConsole
  BY <1>2 DEF AskConsole, Quiet
<1>3. CASE NotChanged
  BY <1>3 DEF NotChanged, Quiet
<1>4. ASSUME NEW p \in Proc, Spawn(p)
      PROVE  DiskTypes'
  BY <1>4 DEF Spawn, Starts, Quiet
<1>5. ASSUME NEW p \in Proc, WatchStop(p)
      PROVE  DiskTypes'
  BY <1>5 DEF WatchStop, Terminate, Killed, Freed, Forget, Quiet
<1>6. ASSUME NEW p \in Proc, Reap(p)
      PROVE  DiskTypes'
  BY <1>6 DEF Reap, Freed, Quiet
<1>7. ASSUME NEW p \in Proc, WatchChange(p)
      PROVE  DiskTypes'
  BY <1>7 DEF WatchChange, Quiet
<1>8. ASSUME NEW p \in Proc, Changed(p)
      PROVE  DiskTypes'
  BY <1>8 DEF Changed, Terminate, Killed, Freed, Forget, Quiet
<1>9. CASE Deliver
  BY <1>9 DEF Deliver, Quiet
<1>10. CASE SpawnFails
  BY <1>10 DEF SpawnFails, Event
<1>11. CASE StopControl
  BY <1>11 DEF StopControl, Event
<1>12. CASE StartService
  BY <1>12 DEF StartService, Event
<1>13. CASE ServiceCrash
  BY <1>13 DEF ServiceCrash, Killed, Freed, Forget, Event
<1>14. ASSUME NEW p \in Proc, AcquireFails(p)
      PROVE  DiskTypes'
  BY <1>14 DEF AcquireFails, Step, Event
<1>15. ASSUME NEW p \in Proc, StreamStart(p)
      PROVE  DiskTypes'
  BY <1>15 DEF StreamStart, Step, Event
<1>16. ASSUME NEW p \in Proc, Crash(p)
      PROVE  DiskTypes'
  BY <1>16 DEF Crash, Live, Killed, Freed, Forget, Event
<1>17. ASSUME NEW p \in Proc, NEW tray \in BOOLEAN, Quit(p, tray)
      PROVE  DiskTypes'
  BY <1>17 DEF Quit, Step, Event
<1>18. ASSUME NEW p \in Proc, NEW s \in Session, Launch(p, s)
      PROVE  DiskTypes'
  BY <1>18 DEF Launch, Starts, Event
<1>19. ASSUME NEW v \in Values, UserSets(v)
      PROVE  DiskTypes'
  BY <1>19 DEF UserSets, Event
<1>20. ASSUME NEW c \in Session \cup {None}, ConsoleChange(c)
      PROVE  DiskTypes'
  BY <1>20 DEF ConsoleChange, Event
<1>21. ASSUME NEW p \in Proc, Acquire(p)
      PROVE  DiskTypes'
  BY <1>21 DEF Acquire, Step, Quiet
<1>22. ASSUME NEW p \in Proc, Second(p)
      PROVE  DiskTypes'
  BY <1>22 DEF Second, Ends, Freed, Forget, Quiet
<1>23. ASSUME NEW p \in Proc, Release(p)
      PROVE  DiskTypes'
  BY <1>23 DEF Release, Step, Quiet
<1>24. ASSUME NEW p \in Proc, Load(p)
      PROVE  DiskTypes'
  BY <1>24 DEF Load, Step, Inside, Quiet, Event
<1>25. ASSUME NEW p \in Proc, LoadFails(p)
      PROVE  DiskTypes'
  BY <1>25 DEF LoadFails, Step, Inside, Quiet, Event
<1>26. ASSUME NEW p \in Proc, Open(p)
      PROVE  DiskTypes'
  BY <1>26 DEF Open, Step, Inside, Quiet, Event
<1>27. ASSUME NEW p \in Proc, OpenFails(p)
      PROVE  DiskTypes'
  BY <1>27 DEF OpenFails, Step, Inside, Quiet, Event
<1>28. ASSUME NEW p \in Proc, Undo(p)
      PROVE  DiskTypes'
  BY <1>28 DEF Undo, Saves, GoesBy, Step, Inside, Quiet, Event
<1>29. ASSUME NEW p \in Proc, UndoFails(p)
      PROVE  DiskTypes'
  BY <1>29 DEF UndoFails, Step, Inside, Quiet, Event
<1>30. ASSUME NEW p \in Proc, Drop(p)
      PROVE  DiskTypes'
  BY <1>30 DEF Drop, DropUndone, DropAnyway, GoesBy, Step, Inside, Quiet, Event, Deleted
<1>31. ASSUME NEW p \in Proc, DropFails(p)
      PROVE  DiskTypes'
  BY <1>31 DEF DropFails, Step, Inside, Quiet, Event
<1>32. ASSUME NEW p \in Proc, NEW saves \in BOOLEAN, Apply(p, saves)
      PROVE  DiskTypes'
  BY <1>32 DEF Apply, Saves, GoesBy, Step, Inside, Quiet, Event
<1>33. ASSUME NEW p \in Proc, Modify(p)
      PROVE  DiskTypes'
  BY <1>33 DEF Modify, Step, Inside, Quiet, Event
<1>34. ASSUME NEW p \in Proc, ModifyNot(p)
      PROVE  DiskTypes'
  BY <1>34 DEF ModifyNot, Step, Inside, Quiet, Event, Unload
<1>35. ASSUME NEW p \in Proc, Create(p)
      PROVE  DiskTypes'
  BY <1>35 DEF Create, Step, Inside, Quiet, Event
<1>36. ASSUME NEW p \in Proc, CreateFails(p)
      PROVE  DiskTypes'
  BY <1>36 DEF CreateFails, Step, Inside, Quiet, Event, Unload
<1>37. ASSUME NEW p \in Proc, Write(p)
      PROVE  DiskTypes'
  BY <1>37 DEF Write, Step, Inside, Quiet, Event
<1>38. ASSUME NEW p \in Proc, Fill(p)
      PROVE  DiskTypes'
  BY <1>38 DEF Fill, Step, Inside, Quiet, Event
<1>39. ASSUME NEW p \in Proc, WriteFails(p)
      PROVE  DiskTypes'
  BY <1>39 DEF WriteFails, Step, Inside, Quiet, Event, Unload, Deleted
<1>40. ASSUME NEW p \in Proc, Save(p)
      PROVE  DiskTypes'
  BY <1>40 DEF Save, GoesBy, Step, Inside, Quiet, Event
<1>41. ASSUME NEW p \in Proc, SaveFails(p)
      PROVE  DiskTypes'
  BY <1>41 DEF SaveFails, Step, Inside, Quiet, Event, Unload
<1>42. ASSUME NEW p \in Proc, ExitLoad(p)
      PROVE  DiskTypes'
  BY <1>42 DEF ExitLoad, Step, Inside, Quiet, Event
<1>43. ASSUME NEW p \in Proc, ExitSave(p)
      PROVE  DiskTypes'
  BY <1>43 DEF ExitSave, Saves, Step, Inside, Quiet, Event
<1>44. ASSUME NEW p \in Proc, ExitDelete(p)
      PROVE  DiskTypes'
  BY <1>44 DEF ExitDelete, Ends, Freed, Forget, Deleted, Quiet
<1>45. ASSUME NEW p \in Proc, ExitPlain(p)
      PROVE  DiskTypes'
  BY <1>45 DEF ExitPlain, Ends, Freed, Forget, NothingToUndo, Quiet, Event
<1>46. ASSUME NEW p \in Proc, Dead(p)
      PROVE  DiskTypes'
  BY <1>46 DEF Dead, Ends, Freed, Forget, Quiet
<1> HIDE DEF TypeOK, ServiceTypes, ProcessTypes, LocalTypes, DiskTypes, Handles, NoFileNoHolder, UndoHolds, OwnerHolds, NotOwned, Records, Points, localVars, diskVars
<1> QED
  BY <1>1, <1>2, <1>3, <1>4, <1>5, <1>6, <1>7, <1>8, <1>9, <1>10, <1>11, <1>12, <1>13, <1>14, <1>15, <1>16, <1>17, <1>18, <1>19, <1>20, <1>21, <1>22, <1>23, <1>24, <1>25, <1>26, <1>27, <1>28, <1>29, <1>30, <1>31, <1>32, <1>33, <1>34, <1>35, <1>36, <1>37, <1>38, <1>39, <1>40, <1>41, <1>42, <1>43, <1>44, <1>45, <1>46
     DEF Next, ServiceStep, ProcessStep, Chance


LEMMA PastTyped ==
    ASSUME TypeOK, Next
    PROVE  PastTypes'
<1> USE DEF TypeOK, PastTypes, lossVars
<1>1. CASE Pause
  BY <1>1 DEF Pause, Quiet
<1>2. CASE AskConsole
  BY <1>2 DEF AskConsole, Quiet
<1>3. CASE NotChanged
  BY <1>3 DEF NotChanged, Quiet
<1>4. ASSUME NEW p \in Proc, Spawn(p)
      PROVE  PastTypes'
  BY <1>4 DEF Spawn, Starts, Quiet
<1>5. ASSUME NEW p \in Proc, WatchStop(p)
      PROVE  PastTypes'
  BY <1>5 DEF WatchStop, Terminate, Killed, Freed, Forget, Quiet
<1>6. ASSUME NEW p \in Proc, Reap(p)
      PROVE  PastTypes'
  BY <1>6 DEF Reap, Freed, Quiet
<1>7. ASSUME NEW p \in Proc, WatchChange(p)
      PROVE  PastTypes'
  BY <1>7 DEF WatchChange, Quiet
<1>8. ASSUME NEW p \in Proc, Changed(p)
      PROVE  PastTypes'
  BY <1>8 DEF Changed, Terminate, Killed, Freed, Forget, Quiet
<1>9. CASE Deliver
  BY <1>9 DEF Deliver, Quiet
<1>10. CASE SpawnFails
  BY <1>10, EventsAssumption DEF SpawnFails, Event
<1>11. CASE StopControl
  BY <1>11, EventsAssumption DEF StopControl, Event
<1>12. CASE StartService
  BY <1>12, EventsAssumption DEF StartService, Event
<1>13. CASE ServiceCrash
  BY <1>13, EventsAssumption DEF ServiceCrash, Killed, Freed, Forget, Event
<1>14. ASSUME NEW p \in Proc, AcquireFails(p)
      PROVE  PastTypes'
  BY <1>14, EventsAssumption DEF AcquireFails, Step, Event
<1>15. ASSUME NEW p \in Proc, StreamStart(p)
      PROVE  PastTypes'
  BY <1>15, EventsAssumption DEF StreamStart, Step, Event
<1>16. ASSUME NEW p \in Proc, Crash(p)
      PROVE  PastTypes'
  BY <1>16, EventsAssumption DEF Crash, Live, Killed, Freed, Forget, Event
<1>17. ASSUME NEW p \in Proc, NEW tray \in BOOLEAN, Quit(p, tray)
      PROVE  PastTypes'
  BY <1>17, EventsAssumption DEF Quit, Step, Event
<1>18. ASSUME NEW p \in Proc, NEW s \in Session, Launch(p, s)
      PROVE  PastTypes'
  BY <1>18, EventsAssumption DEF Launch, Starts, Event
<1>19. ASSUME NEW v \in Values, UserSets(v)
      PROVE  PastTypes'
  <2>1. events' \in 0 .. MaxEvents
    BY <1>19, EventsAssumption DEF UserSets, Event
  <2>2. chosen' = v /\ abandoned' = FALSE /\ outdated' = FALSE
    BY <1>19 DEF UserSets
  <2> QED BY <2>1, <2>2
<1>20. ASSUME NEW c \in Session \cup {None}, ConsoleChange(c)
      PROVE  PastTypes'
  BY <1>20, EventsAssumption DEF ConsoleChange, Event
<1>21. ASSUME NEW p \in Proc, Acquire(p)
      PROVE  PastTypes'
  BY <1>21 DEF Acquire, Step, Quiet
<1>22. ASSUME NEW p \in Proc, Second(p)
      PROVE  PastTypes'
  BY <1>22 DEF Second, Ends, Freed, Forget, Quiet
<1>23. ASSUME NEW p \in Proc, Release(p)
      PROVE  PastTypes'
  BY <1>23 DEF Release, Step, Quiet
<1>24. ASSUME NEW p \in Proc, Load(p)
      PROVE  PastTypes'
  BY <1>24, EventsAssumption DEF Load, Step, Inside, Quiet, Event
<1>25. ASSUME NEW p \in Proc, LoadFails(p)
      PROVE  PastTypes'
  BY <1>25, EventsAssumption DEF LoadFails, Step, Inside, Quiet, Event
<1>26. ASSUME NEW p \in Proc, Open(p)
      PROVE  PastTypes'
  BY <1>26, EventsAssumption DEF Open, Step, Inside, Quiet, Event
<1>27. ASSUME NEW p \in Proc, OpenFails(p)
      PROVE  PastTypes'
  BY <1>27, EventsAssumption DEF OpenFails, Step, Inside, Quiet, Event
<1>28. ASSUME NEW p \in Proc, Undo(p)
      PROVE  PastTypes'
  BY <1>28, EventsAssumption DEF Undo, Saves, GoesBy, Step, Inside, Quiet, Event
<1>29. ASSUME NEW p \in Proc, UndoFails(p)
      PROVE  PastTypes'
  BY <1>29, EventsAssumption DEF UndoFails, Step, Inside, Quiet, Event
<1>30. ASSUME NEW p \in Proc, Drop(p)
      PROVE  PastTypes'
  BY <1>30, EventsAssumption DEF Drop, DropUndone, DropAnyway, GoesBy, Step, Inside, Quiet, Event, Deleted
<1>31. ASSUME NEW p \in Proc, DropFails(p)
      PROVE  PastTypes'
  BY <1>31, EventsAssumption DEF DropFails, Step, Inside, Quiet, Event
<1>32. ASSUME NEW p \in Proc, NEW saves \in BOOLEAN, Apply(p, saves)
      PROVE  PastTypes'
  BY <1>32, EventsAssumption DEF Apply, Saves, GoesBy, Step, Inside, Quiet, Event
<1>33. ASSUME NEW p \in Proc, Modify(p)
      PROVE  PastTypes'
  BY <1>33, EventsAssumption DEF Modify, Step, Inside, Quiet, Event
<1>34. ASSUME NEW p \in Proc, ModifyNot(p)
      PROVE  PastTypes'
  BY <1>34, EventsAssumption DEF ModifyNot, Step, Inside, Quiet, Event, Unload
<1>35. ASSUME NEW p \in Proc, Create(p)
      PROVE  PastTypes'
  BY <1>35, EventsAssumption DEF Create, Step, Inside, Quiet, Event
<1>36. ASSUME NEW p \in Proc, CreateFails(p)
      PROVE  PastTypes'
  BY <1>36, EventsAssumption DEF CreateFails, Step, Inside, Quiet, Event, Unload
<1>37. ASSUME NEW p \in Proc, Write(p)
      PROVE  PastTypes'
  BY <1>37, EventsAssumption DEF Write, Step, Inside, Quiet, Event
<1>38. ASSUME NEW p \in Proc, Fill(p)
      PROVE  PastTypes'
  BY <1>38, EventsAssumption DEF Fill, Step, Inside, Quiet, Event
<1>39. ASSUME NEW p \in Proc, WriteFails(p)
      PROVE  PastTypes'
  BY <1>39, EventsAssumption DEF WriteFails, Step, Inside, Quiet, Event, Unload, Deleted
<1>40. ASSUME NEW p \in Proc, Save(p)
      PROVE  PastTypes'
  BY <1>40, EventsAssumption DEF Save, GoesBy, Step, Inside, Quiet, Event
<1>41. ASSUME NEW p \in Proc, SaveFails(p)
      PROVE  PastTypes'
  BY <1>41, EventsAssumption DEF SaveFails, Step, Inside, Quiet, Event, Unload
<1>42. ASSUME NEW p \in Proc, ExitLoad(p)
      PROVE  PastTypes'
  BY <1>42, EventsAssumption DEF ExitLoad, Step, Inside, Quiet, Event
<1>43. ASSUME NEW p \in Proc, ExitSave(p)
      PROVE  PastTypes'
  BY <1>43, EventsAssumption DEF ExitSave, Saves, Step, Inside, Quiet, Event
<1>44. ASSUME NEW p \in Proc, ExitDelete(p)
      PROVE  PastTypes'
  BY <1>44 DEF ExitDelete, Ends, Freed, Forget, Deleted, Quiet
<1>45. ASSUME NEW p \in Proc, ExitPlain(p)
      PROVE  PastTypes'
  BY <1>45, EventsAssumption DEF ExitPlain, Ends, Freed, Forget, NothingToUndo, Quiet, Event
<1>46. ASSUME NEW p \in Proc, Dead(p)
      PROVE  PastTypes'
  BY <1>46 DEF Dead, Ends, Freed, Forget, Quiet
<1> HIDE DEF TypeOK, PastTypes, lossVars
<1> QED
  BY <1>1, <1>2, <1>3, <1>4, <1>5, <1>6, <1>7, <1>8, <1>9, <1>10, <1>11, <1>12, <1>13, <1>14, <1>15, <1>16, <1>17, <1>18, <1>19, <1>20, <1>21, <1>22, <1>23, <1>24, <1>25, <1>26, <1>27, <1>28, <1>29, <1>30, <1>31, <1>32, <1>33, <1>34, <1>35, <1>36, <1>37, <1>38, <1>39, <1>40, <1>41, <1>42, <1>43, <1>44, <1>45, <1>46
     DEF Next, ServiceStep, ProcessStep, Chance

LEMMA Typed ==
    ASSUME TypeOK, Handles, Records, Next
    PROVE  TypeOK'
BY ServiceTyped, ProcessTyped, LocalTyped, DiskTyped, PastTyped DEF TypeOK

(* Who has the file open. *)
LEMMA HandlesKept ==
    ASSUME TypeOK, Handles, Records, Next
    PROVE  Handles'
<1> USE DEF TypeOK, ServiceTypes, ProcessTypes, LocalTypes, DiskTypes, Handles, NoFileNoHolder, UndoHolds, OwnerHolds, NotOwned, Records, diskVars, localVars, processVars
<1>1. CASE Pause
  BY <1>1 DEF Pause, Quiet
<1>2. CASE AskConsole
  BY <1>2 DEF AskConsole, Quiet
<1>3. CASE NotChanged
  BY <1>3 DEF NotChanged, Quiet
<1>4. ASSUME NEW p \in Proc, Spawn(p)
      PROVE  Handles'
  BY <1>4 DEF Spawn, Starts, Quiet
<1>5. ASSUME NEW p \in Proc, WatchStop(p)
      PROVE  Handles'
  BY <1>5 DEF WatchStop, Terminate, Killed, Freed, Forget, Quiet
<1>6. ASSUME NEW p \in Proc, Reap(p)
      PROVE  Handles'
  BY <1>6 DEF Reap, Freed, Quiet
<1>7. ASSUME NEW p \in Proc, WatchChange(p)
      PROVE  Handles'
  BY <1>7 DEF WatchChange, Quiet
<1>8. ASSUME NEW p \in Proc, Changed(p)
      PROVE  Handles'
  BY <1>8 DEF Changed, Terminate, Killed, Freed, Forget, Quiet
<1>9. CASE Deliver
  BY <1>9 DEF Deliver, Quiet
<1>10. CASE SpawnFails
  BY <1>10 DEF SpawnFails, Event
<1>11. CASE StopControl
  BY <1>11 DEF StopControl, Event
<1>12. CASE StartService
  BY <1>12 DEF StartService, Event
<1>13. CASE ServiceCrash
  BY <1>13 DEF ServiceCrash, Killed, Freed, Forget, Event
<1>14. ASSUME NEW p \in Proc, AcquireFails(p)
      PROVE  Handles'
  BY <1>14 DEF AcquireFails, Step, Event
<1>15. ASSUME NEW p \in Proc, StreamStart(p)
      PROVE  Handles'
  BY <1>15 DEF StreamStart, Step, Event
<1>16. ASSUME NEW p \in Proc, Crash(p)
      PROVE  Handles'
  BY <1>16 DEF Crash, Live, Killed, Freed, Forget, Event
<1>17. ASSUME NEW p \in Proc, NEW tray \in BOOLEAN, Quit(p, tray)
      PROVE  Handles'
  BY <1>17 DEF Quit, Step, Event
<1>18. ASSUME NEW p \in Proc, NEW s \in Session, Launch(p, s)
      PROVE  Handles'
  BY <1>18 DEF Launch, Starts, Event
<1>19. ASSUME NEW v \in Values, UserSets(v)
      PROVE  Handles'
  BY <1>19, NoneAssumption, FileAssumption DEF UserSets, Event
<1>20. ASSUME NEW c \in Session \cup {None}, ConsoleChange(c)
      PROVE  Handles'
  BY <1>20 DEF ConsoleChange, Event
<1>21. ASSUME NEW p \in Proc, Acquire(p)
      PROVE  Handles'
  BY <1>21 DEF Acquire, Step, Quiet
<1>22. ASSUME NEW p \in Proc, Second(p)
      PROVE  Handles'
  BY <1>22 DEF Second, Ends, Freed, Forget, Quiet
<1>23. ASSUME NEW p \in Proc, Release(p)
      PROVE  Handles'
  BY <1>23 DEF Release, Step, Quiet
<1>24. ASSUME NEW p \in Proc, Load(p)
      PROVE  Handles'
  BY <1>24, NoneAssumption, FileAssumption DEF Load, Step, Inside, Quiet, Event
<1>25. ASSUME NEW p \in Proc, LoadFails(p)
      PROVE  Handles'
  BY <1>25 DEF LoadFails, Step, Inside, Quiet, Event
<1>26. ASSUME NEW p \in Proc, Open(p)
      PROVE  Handles'
  BY <1>26, NoneAssumption, FileAssumption DEF Open, Step, Inside, Quiet, Event
<1>27. ASSUME NEW p \in Proc, OpenFails(p)
      PROVE  Handles'
  BY <1>27 DEF OpenFails, Step, Inside, Quiet, Event
<1>28. ASSUME NEW p \in Proc, Undo(p)
      PROVE  Handles'
  BY <1>28, NoneAssumption, FileAssumption DEF Undo, Saves, GoesBy, Step, Inside, Quiet, Event
<1>29. ASSUME NEW p \in Proc, UndoFails(p)
      PROVE  Handles'
  BY <1>29, NoneAssumption, FileAssumption DEF UndoFails, Step, Inside, Quiet, Event
<1>30. ASSUME NEW p \in Proc, Drop(p)
      PROVE  Handles'
  BY <1>30 DEF Drop, DropUndone, DropAnyway, GoesBy, Step, Inside, Quiet, Event, Deleted
<1>31. ASSUME NEW p \in Proc, DropFails(p)
      PROVE  Handles'
  BY <1>31 DEF DropFails, Step, Inside, Quiet, Event
<1>32. ASSUME NEW p \in Proc, NEW saves \in BOOLEAN, Apply(p, saves)
      PROVE  Handles'
  BY <1>32, NoneAssumption, FileAssumption DEF Apply, Saves, GoesBy, Step, Inside, Quiet, Event
<1>33. ASSUME NEW p \in Proc, Modify(p)
      PROVE  Handles'
  BY <1>33, NoneAssumption, FileAssumption DEF Modify, Step, Inside, Quiet, Event
<1>34. ASSUME NEW p \in Proc, ModifyNot(p)
      PROVE  Handles'
  BY <1>34 DEF ModifyNot, Step, Inside, Quiet, Event, Unload
<1>35. ASSUME NEW p \in Proc, Create(p)
      PROVE  Handles'
  BY <1>35, NoneAssumption, FileAssumption DEF Create, Step, Inside, Quiet, Event
<1>36. ASSUME NEW p \in Proc, CreateFails(p)
      PROVE  Handles'
  BY <1>36 DEF CreateFails, Step, Inside, Quiet, Event, Unload
<1>37. ASSUME NEW p \in Proc, Write(p)
      PROVE  Handles'
  BY <1>37 DEF Write, Step, Inside, Quiet, Event
<1>38. ASSUME NEW p \in Proc, Fill(p)
      PROVE  Handles'
  BY <1>38, NoneAssumption, FileAssumption DEF Fill, Step, Inside, Quiet, Event
<1>39. ASSUME NEW p \in Proc, WriteFails(p)
      PROVE  Handles'
  BY <1>39 DEF WriteFails, Step, Inside, Quiet, Event, Unload, Deleted
<1>40. ASSUME NEW p \in Proc, Save(p)
      PROVE  Handles'
  BY <1>40, NoneAssumption, FileAssumption DEF Save, GoesBy, Step, Inside, Quiet, Event
<1>41. ASSUME NEW p \in Proc, SaveFails(p)
      PROVE  Handles'
  BY <1>41 DEF SaveFails, Step, Inside, Quiet, Event, Unload
<1>42. ASSUME NEW p \in Proc, ExitLoad(p)
      PROVE  Handles'
  BY <1>42, NoneAssumption, FileAssumption DEF ExitLoad, Step, Inside, Quiet, Event
<1>43. ASSUME NEW p \in Proc, ExitSave(p)
      PROVE  Handles'
  BY <1>43, NoneAssumption, FileAssumption DEF ExitSave, Saves, Step, Inside, Quiet, Event
<1>44. ASSUME NEW p \in Proc, ExitDelete(p)
      PROVE  Handles'
  BY <1>44 DEF ExitDelete, Ends, Freed, Forget, Deleted, Quiet
<1>45. ASSUME NEW p \in Proc, ExitPlain(p)
      PROVE  Handles'
  BY <1>45 DEF ExitPlain, Ends, Freed, Forget, NothingToUndo, Quiet, Event
<1>46. ASSUME NEW p \in Proc, Dead(p)
      PROVE  Handles'
  BY <1>46 DEF Dead, Ends, Freed, Forget, Quiet
<1> HIDE DEF TypeOK, ServiceTypes, ProcessTypes, LocalTypes, DiskTypes, Handles, NoFileNoHolder, UndoHolds, OwnerHolds, NotOwned, Records, diskVars, localVars, processVars
<1> QED
  BY <1>1, <1>2, <1>3, <1>4, <1>5, <1>6, <1>7, <1>8, <1>9, <1>10, <1>11, <1>12, <1>13, <1>14, <1>15, <1>16, <1>17, <1>18, <1>19, <1>20, <1>21, <1>22, <1>23, <1>24, <1>25, <1>26, <1>27, <1>28, <1>29, <1>30, <1>31, <1>32, <1>33, <1>34, <1>35, <1>36, <1>37, <1>38, <1>39, <1>40, <1>41, <1>42, <1>43, <1>44, <1>45, <1>46
     DEF Next, ServiceStep, ProcessStep, Chance

(* What is remembered. *)
LEMMA RecordsKept ==
    ASSUME TypeOK, Handles, Records, Next
    PROVE  Records'
<1> USE DEF TypeOK, ServiceTypes, ProcessTypes, LocalTypes, DiskTypes, Records, Handles, NoFileNoHolder, UndoHolds, OwnerHolds, NotOwned, diskVars, localVars, processVars
<1>1. CASE Pause
  BY <1>1 DEF Pause, Quiet
<1>2. CASE AskConsole
  BY <1>2 DEF AskConsole, Quiet
<1>3. CASE NotChanged
  BY <1>3 DEF NotChanged, Quiet
<1>4. ASSUME NEW p \in Proc, Spawn(p)
      PROVE  Records'
  BY <1>4 DEF Spawn, Starts, Quiet
<1>5. ASSUME NEW p \in Proc, WatchStop(p)
      PROVE  Records'
  BY <1>5 DEF WatchStop, Terminate, Killed, Freed, Forget, Quiet
<1>6. ASSUME NEW p \in Proc, Reap(p)
      PROVE  Records'
  BY <1>6 DEF Reap, Freed, Quiet
<1>7. ASSUME NEW p \in Proc, WatchChange(p)
      PROVE  Records'
  BY <1>7 DEF WatchChange, Quiet
<1>8. ASSUME NEW p \in Proc, Changed(p)
      PROVE  Records'
  BY <1>8 DEF Changed, Terminate, Killed, Freed, Forget, Quiet
<1>9. CASE Deliver
  BY <1>9 DEF Deliver, Quiet
<1>10. CASE SpawnFails
  BY <1>10 DEF SpawnFails, Event
<1>11. CASE StopControl
  BY <1>11 DEF StopControl, Event
<1>12. CASE StartService
  BY <1>12 DEF StartService, Event
<1>13. CASE ServiceCrash
  BY <1>13 DEF ServiceCrash, Killed, Freed, Forget, Event
<1>14. ASSUME NEW p \in Proc, AcquireFails(p)
      PROVE  Records'
  BY <1>14 DEF AcquireFails, Step, Event
<1>15. ASSUME NEW p \in Proc, StreamStart(p)
      PROVE  Records'
  BY <1>15 DEF StreamStart, Step, Event
<1>16. ASSUME NEW p \in Proc, Crash(p)
      PROVE  Records'
  BY <1>16 DEF Crash, Live, Killed, Freed, Forget, Event
<1>17. ASSUME NEW p \in Proc, NEW tray \in BOOLEAN, Quit(p, tray)
      PROVE  Records'
  BY <1>17 DEF Quit, Step, Event
<1>18. ASSUME NEW p \in Proc, NEW s \in Session, Launch(p, s)
      PROVE  Records'
  BY <1>18 DEF Launch, Starts, Event
<1>19. ASSUME NEW v \in Values, UserSets(v)
      PROVE  Records'
  BY <1>19, FileAssumption, OursAssumption, NoneAssumption DEF UserSets, Event
<1>20. ASSUME NEW c \in Session \cup {None}, ConsoleChange(c)
      PROVE  Records'
  BY <1>20 DEF ConsoleChange, Event
<1>21. ASSUME NEW p \in Proc, Acquire(p)
      PROVE  Records'
  BY <1>21 DEF Acquire, Step, Quiet
<1>22. ASSUME NEW p \in Proc, Second(p)
      PROVE  Records'
  BY <1>22 DEF Second, Ends, Freed, Forget, Quiet
<1>23. ASSUME NEW p \in Proc, Release(p)
      PROVE  Records'
  BY <1>23 DEF Release, Step, Quiet
<1>24. ASSUME NEW p \in Proc, Load(p)
      PROVE  Records'
  BY <1>24, FileAssumption, OursAssumption, NoneAssumption DEF Load, Step, Inside, Quiet, Event
<1>25. ASSUME NEW p \in Proc, LoadFails(p)
      PROVE  Records'
  BY <1>25 DEF LoadFails, Step, Inside, Quiet, Event
<1>26. ASSUME NEW p \in Proc, Open(p)
      PROVE  Records'
  BY <1>26, FileAssumption, OursAssumption, NoneAssumption DEF Open, Step, Inside, Quiet, Event
<1>27. ASSUME NEW p \in Proc, OpenFails(p)
      PROVE  Records'
  BY <1>27 DEF OpenFails, Step, Inside, Quiet, Event
<1>28. ASSUME NEW p \in Proc, Undo(p)
      PROVE  Records'
  BY <1>28, FileAssumption, OursAssumption, NoneAssumption DEF Undo, Saves, GoesBy, Step, Inside, Quiet, Event
<1>29. ASSUME NEW p \in Proc, UndoFails(p)
      PROVE  Records'
  BY <1>29, FileAssumption, OursAssumption, NoneAssumption DEF UndoFails, Step, Inside, Quiet, Event
<1>30. ASSUME NEW p \in Proc, Drop(p)
      PROVE  Records'
  BY <1>30 DEF Drop, DropUndone, DropAnyway, GoesBy, Step, Inside, Quiet, Event, Deleted
<1>31. ASSUME NEW p \in Proc, DropFails(p)
      PROVE  Records'
  BY <1>31 DEF DropFails, Step, Inside, Quiet, Event
<1>32. ASSUME NEW p \in Proc, NEW saves \in BOOLEAN, Apply(p, saves)
      PROVE  Records'
  BY <1>32, FileAssumption, OursAssumption, NoneAssumption DEF Apply, Saves, GoesBy, Step, Inside, Quiet, Event
<1>33. ASSUME NEW p \in Proc, Modify(p)
      PROVE  Records'
  BY <1>33, FileAssumption, OursAssumption, NoneAssumption DEF Modify, Step, Inside, Quiet, Event
<1>34. ASSUME NEW p \in Proc, ModifyNot(p)
      PROVE  Records'
  BY <1>34 DEF ModifyNot, Step, Inside, Quiet, Event, Unload
<1>35. ASSUME NEW p \in Proc, Create(p)
      PROVE  Records'
  BY <1>35, FileAssumption, OursAssumption, NoneAssumption DEF Create, Step, Inside, Quiet, Event
<1>36. ASSUME NEW p \in Proc, CreateFails(p)
      PROVE  Records'
  BY <1>36 DEF CreateFails, Step, Inside, Quiet, Event, Unload
<1>37. ASSUME NEW p \in Proc, Write(p)
      PROVE  Records'
  BY <1>37 DEF Write, Step, Inside, Quiet, Event
<1>38. ASSUME NEW p \in Proc, Fill(p)
      PROVE  Records'
  BY <1>38, FileAssumption, OursAssumption, NoneAssumption DEF Fill, Step, Inside, Quiet, Event
<1>39. ASSUME NEW p \in Proc, WriteFails(p)
      PROVE  Records'
  BY <1>39 DEF WriteFails, Step, Inside, Quiet, Event, Unload, Deleted
<1>40. ASSUME NEW p \in Proc, Save(p)
      PROVE  Records'
  BY <1>40, FileAssumption, OursAssumption, NoneAssumption DEF Save, GoesBy, Step, Inside, Quiet, Event
<1>41. ASSUME NEW p \in Proc, SaveFails(p)
      PROVE  Records'
  BY <1>41 DEF SaveFails, Step, Inside, Quiet, Event, Unload
<1>42. ASSUME NEW p \in Proc, ExitLoad(p)
      PROVE  Records'
  BY <1>42, FileAssumption, OursAssumption, NoneAssumption DEF ExitLoad, Step, Inside, Quiet, Event
<1>43. ASSUME NEW p \in Proc, ExitSave(p)
      PROVE  Records'
  BY <1>43, FileAssumption, OursAssumption, NoneAssumption DEF ExitSave, Saves, Step, Inside, Quiet, Event
<1>44. ASSUME NEW p \in Proc, ExitDelete(p)
      PROVE  Records'
  BY <1>44 DEF ExitDelete, Ends, Freed, Forget, Deleted, Quiet
<1>45. ASSUME NEW p \in Proc, ExitPlain(p)
      PROVE  Records'
  BY <1>45 DEF ExitPlain, Ends, Freed, Forget, NothingToUndo, Quiet, Event
<1>46. ASSUME NEW p \in Proc, Dead(p)
      PROVE  Records'
  BY <1>46 DEF Dead, Ends, Freed, Forget, Quiet
<1> HIDE DEF TypeOK, ServiceTypes, ProcessTypes, LocalTypes, DiskTypes, Records, Handles, NoFileNoHolder, UndoHolds, OwnerHolds, NotOwned, diskVars, localVars, processVars
<1> QED
  BY <1>1, <1>2, <1>3, <1>4, <1>5, <1>6, <1>7, <1>8, <1>9, <1>10, <1>11, <1>12, <1>13, <1>14, <1>15, <1>16, <1>17, <1>18, <1>19, <1>20, <1>21, <1>22, <1>23, <1>24, <1>25, <1>26, <1>27, <1>28, <1>29, <1>30, <1>31, <1>32, <1>33, <1>34, <1>35, <1>36, <1>37, <1>38, <1>39, <1>40, <1>41, <1>42, <1>43, <1>44, <1>45, <1>46
     DEF Next, ServiceStep, ProcessStep, Chance

(* What a process whose copy is current knows. *)
LEMMA FreshKept ==
    ASSUME TypeOK, Handles, Records, Fresh, Owners, Recoverable, Next
    PROVE  Fresh'
<1> USE DEF TypeOK, ServiceTypes, ProcessTypes, LocalTypes, DiskTypes, PastTypes, Records, Handles, NoFileNoHolder, UndoHolds, OwnerHolds, NotOwned, Fresh, Owners, GivesUp, Lost, Recoverable, InTheFile, diskVars, localVars, processVars, lossVars
<1>1. CASE Pause
  BY <1>1 DEF Pause, Quiet
<1>2. CASE AskConsole
  BY <1>2 DEF AskConsole, Quiet
<1>3. CASE NotChanged
  BY <1>3 DEF NotChanged, Quiet
<1>4. ASSUME NEW p \in Proc, Spawn(p)
      PROVE  Fresh'
  BY <1>4 DEF Spawn, Starts, Quiet
<1>5. ASSUME NEW p \in Proc, WatchStop(p)
      PROVE  Fresh'
  BY <1>5 DEF WatchStop, Terminate, Killed, Freed, Forget, Quiet
<1>6. ASSUME NEW p \in Proc, Reap(p)
      PROVE  Fresh'
  BY <1>6 DEF Reap, Freed, Quiet
<1>7. ASSUME NEW p \in Proc, WatchChange(p)
      PROVE  Fresh'
  BY <1>7 DEF WatchChange, Quiet
<1>8. ASSUME NEW p \in Proc, Changed(p)
      PROVE  Fresh'
  BY <1>8 DEF Changed, Terminate, Killed, Freed, Forget, Quiet
<1>9. CASE Deliver
  BY <1>9 DEF Deliver, Quiet
<1>10. CASE SpawnFails
  BY <1>10 DEF SpawnFails, Event
<1>11. CASE StopControl
  BY <1>11 DEF StopControl, Event
<1>12. CASE StartService
  BY <1>12 DEF StartService, Event
<1>13. CASE ServiceCrash
  BY <1>13 DEF ServiceCrash, Killed, Freed, Forget, Event
<1>14. ASSUME NEW p \in Proc, AcquireFails(p)
      PROVE  Fresh'
  BY <1>14 DEF AcquireFails, Step, Event
<1>15. ASSUME NEW p \in Proc, StreamStart(p)
      PROVE  Fresh'
  BY <1>15 DEF StreamStart, Step, Event
<1>16. ASSUME NEW p \in Proc, Crash(p)
      PROVE  Fresh'
  BY <1>16 DEF Crash, Live, Killed, Freed, Forget, Event
<1>17. ASSUME NEW p \in Proc, NEW tray \in BOOLEAN, Quit(p, tray)
      PROVE  Fresh'
  BY <1>17 DEF Quit, Step, Event
<1>18. ASSUME NEW p \in Proc, NEW s \in Session, Launch(p, s)
      PROVE  Fresh'
  BY <1>18 DEF Launch, Starts, Event
<1>19. ASSUME NEW v \in Values, UserSets(v)
      PROVE  Fresh'
  BY <1>19, FileAssumption, OursAssumption DEF UserSets, Event
<1>20. ASSUME NEW c \in Session \cup {None}, ConsoleChange(c)
      PROVE  Fresh'
  BY <1>20 DEF ConsoleChange, Event
<1>21. ASSUME NEW p \in Proc, Acquire(p)
      PROVE  Fresh'
  BY <1>21 DEF Acquire, Step, Quiet
<1>22. ASSUME NEW p \in Proc, Second(p)
      PROVE  Fresh'
  BY <1>22 DEF Second, Ends, Freed, Forget, Quiet
<1>23. ASSUME NEW p \in Proc, Release(p)
      PROVE  Fresh'
  BY <1>23 DEF Release, Step, Quiet
<1>24. ASSUME NEW p \in Proc, Load(p)
      PROVE  Fresh'
  BY <1>24, FileAssumption, OursAssumption DEF Load, Step, Inside, Quiet, Event
<1>25. ASSUME NEW p \in Proc, LoadFails(p)
      PROVE  Fresh'
  BY <1>25 DEF LoadFails, Step, Inside, Quiet, Event
<1>26. ASSUME NEW p \in Proc, Open(p)
      PROVE  Fresh'
  BY <1>26, FileAssumption, OursAssumption DEF Open, Step, Inside, Quiet, Event
<1>27. ASSUME NEW p \in Proc, OpenFails(p)
      PROVE  Fresh'
  BY <1>27 DEF OpenFails, Step, Inside, Quiet, Event
<1>28. ASSUME NEW p \in Proc, Undo(p)
      PROVE  Fresh'
  BY <1>28, FileAssumption, OursAssumption DEF Undo, Saves, GoesBy, Step, Inside, Quiet, Event
<1>29. ASSUME NEW p \in Proc, UndoFails(p)
      PROVE  Fresh'
  BY <1>29, FileAssumption, OursAssumption DEF UndoFails, Step, Inside, Quiet, Event
<1>30. ASSUME NEW p \in Proc, Drop(p)
      PROVE  Fresh'
  BY <1>30 DEF Drop, DropUndone, DropAnyway, GoesBy, Step, Inside, Quiet, Event, Deleted
<1>31. ASSUME NEW p \in Proc, DropFails(p)
      PROVE  Fresh'
  BY <1>31 DEF DropFails, Step, Inside, Quiet, Event
<1>32. ASSUME NEW p \in Proc, NEW saves \in BOOLEAN, Apply(p, saves)
      PROVE  Fresh'
  <2> USE DEF Apply, Step, Inside, Quiet
  <2>1. CASE saves /\ dirty[p]
    <3>1. current' \subseteq {p} /\ driver' = copy[p]
      BY <1>32, <2>1 DEF Saves
    <3>2. pc'[p] = "modify" /\ ~dirty'[p] /\ copy'[p] = copy[p]
      BY <1>32, <2>1
    <3> QED BY <3>1, <3>2
  <2>2. CASE ~(saves /\ dirty[p])
    <3>1. UNCHANGED <<driver, current, copy, undo_data, file, Lost>>
      BY <1>32, <2>2
    <3>2. /\ pc'[p] = "modify" /\ dirty'[p] = dirty[p]
          /\ \A q \in Proc \ {p} : pc'[q] = pc[q] /\ dirty'[q] = dirty[q]
      BY <1>32, <2>2
    <3> QED BY <3>1, <3>2, <1>32
  <2> QED BY <2>1, <2>2
<1>33. ASSUME NEW p \in Proc, Modify(p)
      PROVE  Fresh'
  BY <1>33, FileAssumption, OursAssumption DEF Modify, Step, Inside, Quiet, Event
<1>34. ASSUME NEW p \in Proc, ModifyNot(p)
      PROVE  Fresh'
  BY <1>34 DEF ModifyNot, Step, Inside, Quiet, Event, Unload
<1>35. ASSUME NEW p \in Proc, Create(p)
      PROVE  Fresh'
  BY <1>35, FileAssumption, OursAssumption DEF Create, Step, Inside, Quiet, Event
<1>36. ASSUME NEW p \in Proc, CreateFails(p)
      PROVE  Fresh'
  BY <1>36 DEF CreateFails, Step, Inside, Quiet, Event, Unload
<1>37. ASSUME NEW p \in Proc, Write(p)
      PROVE  Fresh'
  BY <1>37 DEF Write, Step, Inside, Quiet, Event
<1>38. ASSUME NEW p \in Proc, Fill(p)
      PROVE  Fresh'
  BY <1>38, FileAssumption, OursAssumption DEF Fill, Step, Inside, Quiet, Event
<1>39. ASSUME NEW p \in Proc, WriteFails(p)
      PROVE  Fresh'
  BY <1>39 DEF WriteFails, Step, Inside, Quiet, Event, Unload, Deleted
<1>40. ASSUME NEW p \in Proc, Save(p)
      PROVE  Fresh'
  BY <1>40, FileAssumption, OursAssumption DEF Save, GoesBy, Step, Inside, Quiet, Event
<1>41. ASSUME NEW p \in Proc, SaveFails(p)
      PROVE  Fresh'
  BY <1>41 DEF SaveFails, Step, Inside, Quiet, Event, Unload
<1>42. ASSUME NEW p \in Proc, ExitLoad(p)
      PROVE  Fresh'
  BY <1>42, FileAssumption, OursAssumption DEF ExitLoad, Step, Inside, Quiet, Event
<1>43. ASSUME NEW p \in Proc, ExitSave(p)
      PROVE  Fresh'
  BY <1>43, FileAssumption, OursAssumption DEF ExitSave, Saves, Step, Inside, Quiet, Event
<1>44. ASSUME NEW p \in Proc, ExitDelete(p)
      PROVE  Fresh'
  BY <1>44 DEF ExitDelete, Ends, Freed, Forget, Deleted, Quiet
<1>45. ASSUME NEW p \in Proc, ExitPlain(p)
      PROVE  Fresh'
  BY <1>45 DEF ExitPlain, Ends, Freed, Forget, NothingToUndo, Quiet, Event
<1>46. ASSUME NEW p \in Proc, Dead(p)
      PROVE  Fresh'
  BY <1>46 DEF Dead, Ends, Freed, Forget, Quiet
<1> HIDE DEF TypeOK, ServiceTypes, ProcessTypes, LocalTypes, DiskTypes, PastTypes, Records, Handles, NoFileNoHolder, UndoHolds, OwnerHolds, NotOwned, Fresh, Owners, GivesUp, Lost, Recoverable, InTheFile, diskVars, localVars, processVars, lossVars
<1> QED
  BY <1>1, <1>2, <1>3, <1>4, <1>5, <1>6, <1>7, <1>8, <1>9, <1>10, <1>11, <1>12, <1>13, <1>14, <1>15, <1>16, <1>17, <1>18, <1>19, <1>20, <1>21, <1>22, <1>23, <1>24, <1>25, <1>26, <1>27, <1>28, <1>29, <1>30, <1>31, <1>32, <1>33, <1>34, <1>35, <1>36, <1>37, <1>38, <1>39, <1>40, <1>41, <1>42, <1>43, <1>44, <1>45, <1>46
     DEF Next, ServiceStep, ProcessStep, Chance

(* What a process that made the file knows. *)
LEMMA OwnersKept ==
    ASSUME TypeOK, Handles, Records, Fresh, Owners, Recoverable, Next
    PROVE  Owners'
<1> USE DEF TypeOK, ServiceTypes, ProcessTypes, LocalTypes, DiskTypes, PastTypes, Records, Handles, NoFileNoHolder, UndoHolds, OwnerHolds, NotOwned, Fresh, Owners, GivesUp, Lost, Recoverable, InTheFile, diskVars, localVars, processVars, lossVars
<1>1. CASE Pause
  BY <1>1 DEF Pause, Quiet
<1>2. CASE AskConsole
  BY <1>2 DEF AskConsole, Quiet
<1>3. CASE NotChanged
  BY <1>3 DEF NotChanged, Quiet
<1>4. ASSUME NEW p \in Proc, Spawn(p)
      PROVE  Owners'
  BY <1>4 DEF Spawn, Starts, Quiet
<1>5. ASSUME NEW p \in Proc, WatchStop(p)
      PROVE  Owners'
  BY <1>5 DEF WatchStop, Terminate, Killed, Freed, Forget, Quiet
<1>6. ASSUME NEW p \in Proc, Reap(p)
      PROVE  Owners'
  BY <1>6 DEF Reap, Freed, Quiet
<1>7. ASSUME NEW p \in Proc, WatchChange(p)
      PROVE  Owners'
  BY <1>7 DEF WatchChange, Quiet
<1>8. ASSUME NEW p \in Proc, Changed(p)
      PROVE  Owners'
  BY <1>8 DEF Changed, Terminate, Killed, Freed, Forget, Quiet
<1>9. CASE Deliver
  BY <1>9 DEF Deliver, Quiet
<1>10. CASE SpawnFails
  BY <1>10 DEF SpawnFails, Event
<1>11. CASE StopControl
  BY <1>11 DEF StopControl, Event
<1>12. CASE StartService
  BY <1>12 DEF StartService, Event
<1>13. CASE ServiceCrash
  BY <1>13 DEF ServiceCrash, Killed, Freed, Forget, Event
<1>14. ASSUME NEW p \in Proc, AcquireFails(p)
      PROVE  Owners'
  BY <1>14 DEF AcquireFails, Step, Event
<1>15. ASSUME NEW p \in Proc, StreamStart(p)
      PROVE  Owners'
  BY <1>15 DEF StreamStart, Step, Event
<1>16. ASSUME NEW p \in Proc, Crash(p)
      PROVE  Owners'
  BY <1>16 DEF Crash, Live, Killed, Freed, Forget, Event
<1>17. ASSUME NEW p \in Proc, NEW tray \in BOOLEAN, Quit(p, tray)
      PROVE  Owners'
  BY <1>17 DEF Quit, Step, Event
<1>18. ASSUME NEW p \in Proc, NEW s \in Session, Launch(p, s)
      PROVE  Owners'
  BY <1>18 DEF Launch, Starts, Event
<1>19. ASSUME NEW v \in Values, UserSets(v)
      PROVE  Owners'
  BY <1>19, FileAssumption, OursAssumption DEF UserSets, Event
<1>20. ASSUME NEW c \in Session \cup {None}, ConsoleChange(c)
      PROVE  Owners'
  BY <1>20 DEF ConsoleChange, Event
<1>21. ASSUME NEW p \in Proc, Acquire(p)
      PROVE  Owners'
  BY <1>21 DEF Acquire, Step, Quiet
<1>22. ASSUME NEW p \in Proc, Second(p)
      PROVE  Owners'
  BY <1>22 DEF Second, Ends, Freed, Forget, Quiet
<1>23. ASSUME NEW p \in Proc, Release(p)
      PROVE  Owners'
  BY <1>23 DEF Release, Step, Quiet
<1>24. ASSUME NEW p \in Proc, Load(p)
      PROVE  Owners'
  BY <1>24, FileAssumption, OursAssumption DEF Load, Step, Inside, Quiet, Event
<1>25. ASSUME NEW p \in Proc, LoadFails(p)
      PROVE  Owners'
  BY <1>25 DEF LoadFails, Step, Inside, Quiet, Event
<1>26. ASSUME NEW p \in Proc, Open(p)
      PROVE  Owners'
  BY <1>26, FileAssumption, OursAssumption DEF Open, Step, Inside, Quiet, Event
<1>27. ASSUME NEW p \in Proc, OpenFails(p)
      PROVE  Owners'
  BY <1>27 DEF OpenFails, Step, Inside, Quiet, Event
<1>28. ASSUME NEW p \in Proc, Undo(p)
      PROVE  Owners'
  BY <1>28, FileAssumption, OursAssumption DEF Undo, Saves, GoesBy, Step, Inside, Quiet, Event
<1>29. ASSUME NEW p \in Proc, UndoFails(p)
      PROVE  Owners'
  BY <1>29, FileAssumption, OursAssumption DEF UndoFails, Step, Inside, Quiet, Event
<1>30. ASSUME NEW p \in Proc, Drop(p)
      PROVE  Owners'
  BY <1>30 DEF Drop, DropUndone, DropAnyway, GoesBy, Step, Inside, Quiet, Event, Deleted
<1>31. ASSUME NEW p \in Proc, DropFails(p)
      PROVE  Owners'
  BY <1>31 DEF DropFails, Step, Inside, Quiet, Event
<1>32. ASSUME NEW p \in Proc, NEW saves \in BOOLEAN, Apply(p, saves)
      PROVE  Owners'
  BY <1>32, FileAssumption, OursAssumption DEF Apply, Saves, GoesBy, Step, Inside, Quiet, Event
<1>33. ASSUME NEW p \in Proc, Modify(p)
      PROVE  Owners'
  BY <1>33, FileAssumption, OursAssumption DEF Modify, Step, Inside, Quiet, Event
<1>34. ASSUME NEW p \in Proc, ModifyNot(p)
      PROVE  Owners'
  BY <1>34 DEF ModifyNot, Step, Inside, Quiet, Event, Unload
<1>35. ASSUME NEW p \in Proc, Create(p)
      PROVE  Owners'
  BY <1>35, FileAssumption, OursAssumption DEF Create, Step, Inside, Quiet, Event
<1>36. ASSUME NEW p \in Proc, CreateFails(p)
      PROVE  Owners'
  BY <1>36 DEF CreateFails, Step, Inside, Quiet, Event, Unload
<1>37. ASSUME NEW p \in Proc, Write(p)
      PROVE  Owners'
  BY <1>37 DEF Write, Step, Inside, Quiet, Event
<1>38. ASSUME NEW p \in Proc, Fill(p)
      PROVE  Owners'
  BY <1>38, FileAssumption, OursAssumption DEF Fill, Step, Inside, Quiet, Event
<1>39. ASSUME NEW p \in Proc, WriteFails(p)
      PROVE  Owners'
  BY <1>39 DEF WriteFails, Step, Inside, Quiet, Event, Unload, Deleted
<1>40. ASSUME NEW p \in Proc, Save(p)
      PROVE  Owners'
  BY <1>40, FileAssumption, OursAssumption DEF Save, GoesBy, Step, Inside, Quiet, Event
<1>41. ASSUME NEW p \in Proc, SaveFails(p)
      PROVE  Owners'
  BY <1>41 DEF SaveFails, Step, Inside, Quiet, Event, Unload
<1>42. ASSUME NEW p \in Proc, ExitLoad(p)
      PROVE  Owners'
  BY <1>42, FileAssumption, OursAssumption DEF ExitLoad, Step, Inside, Quiet, Event
<1>43. ASSUME NEW p \in Proc, ExitSave(p)
      PROVE  Owners'
  BY <1>43, FileAssumption, OursAssumption DEF ExitSave, Saves, Step, Inside, Quiet, Event
<1>44. ASSUME NEW p \in Proc, ExitDelete(p)
      PROVE  Owners'
  BY <1>44 DEF ExitDelete, Ends, Freed, Forget, Deleted, Quiet
<1>45. ASSUME NEW p \in Proc, ExitPlain(p)
      PROVE  Owners'
  BY <1>45 DEF ExitPlain, Ends, Freed, Forget, NothingToUndo, Quiet, Event
<1>46. ASSUME NEW p \in Proc, Dead(p)
      PROVE  Owners'
  BY <1>46 DEF Dead, Ends, Freed, Forget, Quiet
<1> HIDE DEF TypeOK, ServiceTypes, ProcessTypes, LocalTypes, DiskTypes, PastTypes, Records, Handles, NoFileNoHolder, UndoHolds, OwnerHolds, NotOwned, Fresh, Owners, GivesUp, Lost, Recoverable, InTheFile, diskVars, localVars, processVars, lossVars
<1> QED
  BY <1>1, <1>2, <1>3, <1>4, <1>5, <1>6, <1>7, <1>8, <1>9, <1>10, <1>11, <1>12, <1>13, <1>14, <1>15, <1>16, <1>17, <1>18, <1>19, <1>20, <1>21, <1>22, <1>23, <1>24, <1>25, <1>26, <1>27, <1>28, <1>29, <1>30, <1>31, <1>32, <1>33, <1>34, <1>35, <1>36, <1>37, <1>38, <1>39, <1>40, <1>41, <1>42, <1>43, <1>44, <1>45, <1>46
     DEF Next, ServiceStep, ProcessStep, Chance

(* The setting. *)
LEMMA RecoverableKept ==
    ASSUME TypeOK, Handles, Records, Fresh, Owners, Recoverable, Next
    PROVE  Recoverable'
<1> USE DEF TypeOK, ServiceTypes, ProcessTypes, LocalTypes, DiskTypes, PastTypes, Records, Handles, NoFileNoHolder, UndoHolds, OwnerHolds, NotOwned, Fresh, Owners, GivesUp, Lost, Recoverable, InTheFile, diskVars, localVars, processVars, lossVars
<1>1. CASE Pause
  BY <1>1 DEF Pause, Quiet
<1>2. CASE AskConsole
  BY <1>2 DEF AskConsole, Quiet
<1>3. CASE NotChanged
  BY <1>3 DEF NotChanged, Quiet
<1>4. ASSUME NEW p \in Proc, Spawn(p)
      PROVE  Recoverable'
  BY <1>4 DEF Spawn, Starts, Quiet
<1>5. ASSUME NEW p \in Proc, WatchStop(p)
      PROVE  Recoverable'
  BY <1>5 DEF WatchStop, Terminate, Killed, Freed, Forget, Quiet
<1>6. ASSUME NEW p \in Proc, Reap(p)
      PROVE  Recoverable'
  BY <1>6 DEF Reap, Freed, Quiet
<1>7. ASSUME NEW p \in Proc, WatchChange(p)
      PROVE  Recoverable'
  BY <1>7 DEF WatchChange, Quiet
<1>8. ASSUME NEW p \in Proc, Changed(p)
      PROVE  Recoverable'
  BY <1>8 DEF Changed, Terminate, Killed, Freed, Forget, Quiet
<1>9. CASE Deliver
  BY <1>9 DEF Deliver, Quiet
<1>10. CASE SpawnFails
  BY <1>10 DEF SpawnFails, Event
<1>11. CASE StopControl
  BY <1>11 DEF StopControl, Event
<1>12. CASE StartService
  BY <1>12 DEF StartService, Event
<1>13. CASE ServiceCrash
  BY <1>13 DEF ServiceCrash, Killed, Freed, Forget, Event
<1>14. ASSUME NEW p \in Proc, AcquireFails(p)
      PROVE  Recoverable'
  BY <1>14 DEF AcquireFails, Step, Event
<1>15. ASSUME NEW p \in Proc, StreamStart(p)
      PROVE  Recoverable'
  BY <1>15 DEF StreamStart, Step, Event
<1>16. ASSUME NEW p \in Proc, Crash(p)
      PROVE  Recoverable'
  BY <1>16 DEF Crash, Live, Killed, Freed, Forget, Event
<1>17. ASSUME NEW p \in Proc, NEW tray \in BOOLEAN, Quit(p, tray)
      PROVE  Recoverable'
  BY <1>17 DEF Quit, Step, Event
<1>18. ASSUME NEW p \in Proc, NEW s \in Session, Launch(p, s)
      PROVE  Recoverable'
  BY <1>18 DEF Launch, Starts, Event
<1>19. ASSUME NEW v \in Values, UserSets(v)
      PROVE  Recoverable'
  BY <1>19, FileAssumption, OursAssumption DEF UserSets, Event
<1>20. ASSUME NEW c \in Session \cup {None}, ConsoleChange(c)
      PROVE  Recoverable'
  BY <1>20 DEF ConsoleChange, Event
<1>21. ASSUME NEW p \in Proc, Acquire(p)
      PROVE  Recoverable'
  BY <1>21 DEF Acquire, Step, Quiet
<1>22. ASSUME NEW p \in Proc, Second(p)
      PROVE  Recoverable'
  BY <1>22 DEF Second, Ends, Freed, Forget, Quiet
<1>23. ASSUME NEW p \in Proc, Release(p)
      PROVE  Recoverable'
  BY <1>23 DEF Release, Step, Quiet
<1>24. ASSUME NEW p \in Proc, Load(p)
      PROVE  Recoverable'
  BY <1>24, FileAssumption, OursAssumption DEF Load, Step, Inside, Quiet, Event
<1>25. ASSUME NEW p \in Proc, LoadFails(p)
      PROVE  Recoverable'
  BY <1>25 DEF LoadFails, Step, Inside, Quiet, Event
<1>26. ASSUME NEW p \in Proc, Open(p)
      PROVE  Recoverable'
  BY <1>26, FileAssumption, OursAssumption DEF Open, Step, Inside, Quiet, Event
<1>27. ASSUME NEW p \in Proc, OpenFails(p)
      PROVE  Recoverable'
  BY <1>27 DEF OpenFails, Step, Inside, Quiet, Event
<1>28. ASSUME NEW p \in Proc, Undo(p)
      PROVE  Recoverable'
  BY <1>28, FileAssumption, OursAssumption DEF Undo, Saves, GoesBy, Step, Inside, Quiet, Event
<1>29. ASSUME NEW p \in Proc, UndoFails(p)
      PROVE  Recoverable'
  BY <1>29, FileAssumption, OursAssumption DEF UndoFails, Step, Inside, Quiet, Event
<1>30. ASSUME NEW p \in Proc, Drop(p)
      PROVE  Recoverable'
  BY <1>30 DEF Drop, DropUndone, DropAnyway, GoesBy, Step, Inside, Quiet, Event, Deleted
<1>31. ASSUME NEW p \in Proc, DropFails(p)
      PROVE  Recoverable'
  BY <1>31 DEF DropFails, Step, Inside, Quiet, Event
<1>32. ASSUME NEW p \in Proc, NEW saves \in BOOLEAN, Apply(p, saves)
      PROVE  Recoverable'
  BY <1>32, FileAssumption, OursAssumption DEF Apply, Saves, GoesBy, Step, Inside, Quiet, Event
<1>33. ASSUME NEW p \in Proc, Modify(p)
      PROVE  Recoverable'
  BY <1>33, FileAssumption, OursAssumption DEF Modify, Step, Inside, Quiet, Event
<1>34. ASSUME NEW p \in Proc, ModifyNot(p)
      PROVE  Recoverable'
  BY <1>34 DEF ModifyNot, Step, Inside, Quiet, Event, Unload
<1>35. ASSUME NEW p \in Proc, Create(p)
      PROVE  Recoverable'
  BY <1>35, FileAssumption, OursAssumption DEF Create, Step, Inside, Quiet, Event
<1>36. ASSUME NEW p \in Proc, CreateFails(p)
      PROVE  Recoverable'
  BY <1>36 DEF CreateFails, Step, Inside, Quiet, Event, Unload
<1>37. ASSUME NEW p \in Proc, Write(p)
      PROVE  Recoverable'
  BY <1>37 DEF Write, Step, Inside, Quiet, Event
<1>38. ASSUME NEW p \in Proc, Fill(p)
      PROVE  Recoverable'
  BY <1>38, FileAssumption, OursAssumption DEF Fill, Step, Inside, Quiet, Event
<1>39. ASSUME NEW p \in Proc, WriteFails(p)
      PROVE  Recoverable'
  BY <1>39 DEF WriteFails, Step, Inside, Quiet, Event, Unload, Deleted
<1>40. ASSUME NEW p \in Proc, Save(p)
      PROVE  Recoverable'
  BY <1>40, FileAssumption, OursAssumption DEF Save, GoesBy, Step, Inside, Quiet, Event
<1>41. ASSUME NEW p \in Proc, SaveFails(p)
      PROVE  Recoverable'
  BY <1>41 DEF SaveFails, Step, Inside, Quiet, Event, Unload
<1>42. ASSUME NEW p \in Proc, ExitLoad(p)
      PROVE  Recoverable'
  BY <1>42, FileAssumption, OursAssumption DEF ExitLoad, Step, Inside, Quiet, Event
<1>43. ASSUME NEW p \in Proc, ExitSave(p)
      PROVE  Recoverable'
  BY <1>43, FileAssumption, OursAssumption DEF ExitSave, Saves, Step, Inside, Quiet, Event
<1>44. ASSUME NEW p \in Proc, ExitDelete(p)
      PROVE  Recoverable'
  BY <1>44 DEF ExitDelete, Ends, Freed, Forget, Deleted, Quiet
<1>45. ASSUME NEW p \in Proc, ExitPlain(p)
      PROVE  Recoverable'
  BY <1>45 DEF ExitPlain, Ends, Freed, Forget, NothingToUndo, Quiet, Event
<1>46. ASSUME NEW p \in Proc, Dead(p)
      PROVE  Recoverable'
  BY <1>46 DEF Dead, Ends, Freed, Forget, Quiet
<1> HIDE DEF TypeOK, ServiceTypes, ProcessTypes, LocalTypes, DiskTypes, PastTypes, Records, Handles, NoFileNoHolder, UndoHolds, OwnerHolds, NotOwned, Fresh, Owners, GivesUp, Lost, Recoverable, InTheFile, diskVars, localVars, processVars, lossVars
<1> QED
  BY <1>1, <1>2, <1>3, <1>4, <1>5, <1>6, <1>7, <1>8, <1>9, <1>10, <1>11, <1>12, <1>13, <1>14, <1>15, <1>16, <1>17, <1>18, <1>19, <1>20, <1>21, <1>22, <1>23, <1>24, <1>25, <1>26, <1>27, <1>28, <1>29, <1>30, <1>31, <1>32, <1>33, <1>34, <1>35, <1>36, <1>37, <1>38, <1>39, <1>40, <1>41, <1>42, <1>43, <1>44, <1>45, <1>46
     DEF Next, ServiceStep, ProcessStep, Chance

-----------------------------------------------------------------------------
LEMMA Initial ==
    ASSUME Init
    PROVE  IInv
<1>1. TypeOK
  <2>1. ServiceTypes /\ ProcessTypes
    BY FirstAssumption DEF Init, ServiceTypes, ProcessTypes, Points, Services
  <2>2. LocalTypes
    BY DEF Init, LocalTypes
  <2>3. DiskTypes
    BY FirstAssumption DEF Init, DiskTypes
  <2>4. PastTypes
    <3>1. events = 0 /\ MaxEvents \in Nat
      BY EventsAssumption DEF Init
    <3>2. events \in 0 .. MaxEvents
      BY <3>1
    <3>3. chosen \in Values /\ abandoned \in BOOLEAN /\ outdated \in BOOLEAN
      BY FirstAssumption DEF Init
    <3> QED BY <3>2, <3>3 DEF PastTypes
  <2> QED BY <2>1, <2>2, <2>3, <2>4 DEF TypeOK
<1>2. Handles /\ Records /\ Fresh /\ Owners
  BY DEF Init, Handles, NoFileNoHolder, UndoHolds, OwnerHolds, NotOwned,
         Records, Fresh, Owners
<1>3. Recoverable
  BY FirstAssumption, OursAssumption DEF Init, Recoverable, InTheFile
<1> QED BY <1>1, <1>2, <1>3 DEF IInv

LEMMA Stuttering ==
    ASSUME IInv, UNCHANGED vars
    PROVE  IInv'
<1> USE DEF vars, serviceVars, processVars, localVars, diskVars, pastVars, lossVars
<1>1. TypeOK'
  BY DEF IInv, TypeOK, ServiceTypes, ProcessTypes, LocalTypes, DiskTypes,
         PastTypes
<1>2. Handles' /\ Records' /\ Fresh' /\ Owners' /\ Recoverable'
  BY DEF IInv, Handles, NoFileNoHolder, UndoHolds, OwnerHolds, NotOwned,
         Records, Fresh, Owners, GivesUp, Lost, Recoverable, InTheFile
<1> QED BY <1>1, <1>2 DEF IInv

(* The inductive invariant.                                                *)
THEOREM Invariance == Spec => []IInv
<1>1. Init => IInv
  BY Initial
<1>2. IInv /\ [Next]_vars => IInv'
  BY Typed, HandlesKept, RecordsKept, FreshKept, OwnersKept, RecoverableKept, Stuttering
     DEF IInv
<1> QED BY <1>1, <1>2, PTL DEF Spec

(* Every variable keeps its type.                                           *)
THEOREM TypeInvariant == Spec => []TypeOK
<1>1. IInv => TypeOK
  BY DEF IInv
<1> QED BY <1>1, Invariance, PTL

(* nvprefs_interface.cpp:71-219: wherever processes are killed, the user's  *)
(* setting is in the driver, or the driver has the host's value and the     *)
(* file says what the user had; but for a file deleted although it could    *)
(* not be undone, and a setting that was changed behind a process that then *)
(* goes by what it was.                                                     *)
THEOREM AlwaysRecoverable == Spec => []Recoverable
<1>1. IInv => Recoverable
  BY DEF IInv
<1> QED BY <1>1, Invariance, PTL
-----------------------------------------------------------------------------
(* The instances and the service: what the steps of the program leave alone. *)

Within ==
    Points \ {"free", "acquire", "second", "exited", "dying"}

\* A step within the program, as the service and other instances see it.
Moves(p) ==
    /\ pc[p] \in Within
    /\ \E to \in Within : pc' = [pc EXCEPT ![p] = to]
    /\ UNCHANGED <<session, service_mode, mutex, serviceVars>>
    /\ \A q \in Proc \ {p} : tray_quit_requested'[q] = tray_quit_requested[q]

\* A step of the service, the system or the user that no process takes part in.
Aside == UNCHANGED processVars

InsideStep(p) ==
    \/ Load(p) \/ LoadFails(p) \/ Open(p) \/ OpenFails(p)
    \/ Undo(p) \/ UndoFails(p) \/ Drop(p) \/ DropFails(p)
    \/ \E saves \in BOOLEAN : Apply(p, saves)
    \/ Modify(p) \/ ModifyNot(p) \/ Create(p) \/ CreateFails(p)
    \/ Write(p) \/ Fill(p) \/ WriteFails(p) \/ Save(p) \/ SaveFails(p)
    \/ ExitLoad(p) \/ ExitSave(p)

LEMMA InsideMoves ==
    ASSUME TypeOK, NEW p \in Proc, InsideStep(p)
    PROVE  Moves(p)
<1> USE DEF Step, Inside, Within, Points, Moves, serviceVars
<1>1. CASE Load(p) \/ LoadFails(p) \/ Open(p) \/ OpenFails(p)
  BY <1>1 DEF Load, LoadFails, Open, OpenFails
<1>2. CASE Undo(p) \/ UndoFails(p) \/ Drop(p) \/ DropFails(p)
  BY <1>2 DEF Undo, UndoFails, Drop, DropUndone, DropAnyway, DropFails
<1>3. ASSUME NEW saves \in BOOLEAN, Apply(p, saves)
      PROVE  Moves(p)
  BY <1>3 DEF Apply
<1>4. CASE Modify(p) \/ ModifyNot(p) \/ Create(p) \/ CreateFails(p)
  BY <1>4 DEF Modify, ModifyNot, Create, CreateFails
<1>5. CASE Write(p) \/ Fill(p) \/ WriteFails(p) \/ Save(p) \/ SaveFails(p)
  BY <1>5 DEF Write, Fill, WriteFails, Save, SaveFails
<1>6. CASE ExitLoad(p) \/ ExitSave(p)
  BY <1>6 DEF ExitLoad, ExitSave
<1> QED BY <1>1, <1>2, <1>3, <1>4, <1>5, <1>6 DEF InsideStep

LEMMA ProgramMoves ==
    ASSUME TypeOK, NEW p \in Proc,
           StreamStart(p) \/ \E tray \in BOOLEAN : Quit(p, tray)
    PROVE  Moves(p)
<1> USE DEF Step, Within, Points, Moves, serviceVars, TypeOK, ProcessTypes
<1>1. CASE StreamStart(p)
  BY <1>1 DEF StreamStart
<1>2. ASSUME NEW tray \in BOOLEAN, Quit(p, tray)
      PROVE  Moves(p)
  BY <1>2 DEF Quit
<1> QED BY <1>1, <1>2

\* The next-state relation in the groups that these proofs tell apart.
LEMMA Groups ==
    ASSUME TypeOK, Next
    PROVE  \/ Pause \/ AskConsole \/ NotChanged \/ Deliver
           \/ SpawnFails \/ StopControl \/ StartService \/ ServiceCrash
           \/ \E v \in Values : UserSets(v)
           \/ \E c \in Session \cup {None} : ConsoleChange(c)
           \/ \E p \in Proc :
                \/ Spawn(p) \/ WatchStop(p) \/ Reap(p) \/ WatchChange(p) \/ Changed(p)
                \/ \E s \in Session : Launch(p, s)
                \/ Acquire(p) \/ AcquireFails(p) \/ Second(p) \/ Release(p)
                \/ Crash(p) \/ ExitDelete(p) \/ ExitPlain(p) \/ Dead(p)
                \/ Moves(p)
<1>1. ASSUME NEW p \in Proc, ProcessStep(p)
      PROVE  \/ Acquire(p) \/ Second(p) \/ Release(p)
             \/ ExitDelete(p) \/ ExitPlain(p) \/ Moves(p)
  BY <1>1, InsideMoves DEF ProcessStep, InsideStep
<1>2. ASSUME NEW p \in Proc, StreamStart(p) \/ \E tray \in BOOLEAN : Quit(p, tray)
      PROVE  Moves(p)
  BY <1>2, ProgramMoves
<1> QED BY <1>1, <1>2 DEF Next, ServiceStep, Chance

-----------------------------------------------------------------------------
(* One instance. *)

InstanceInv ==
    /\ \A p \in Proc : pc[p] # "free" => session[p] \in Session
    /\ \A s \in Session : \A p \in mutex[s] :
          session[p] = s /\ pc[p] \notin {"free", "acquire", "exited"}
    /\ SingleInstance

\* A process that stops to run, or never did, disturbs no other one.
LEMMA InstanceStep ==
    ASSUME TypeOK, InstanceInv, svc = "spawn" => console_session_id \in Session,
           child # None => pc[child] # "free", Next
    PROVE  InstanceInv'
<1> USE DEF InstanceInv, SingleInstance, Guarded, Live, TypeOK, ProcessTypes, Points
<1>1. CASE Aside
  BY <1>1 DEF Aside, processVars
<1>2. ASSUME NEW p \in Proc, Spawn(p) \/ \E s \in Session : Launch(p, s)
      PROVE  InstanceInv'
  <2>1. PICK s \in Session : \E service \in BOOLEAN : Starts(p, s, service)
    BY <1>2 DEF Spawn, Launch
  <2> QED BY <2>1 DEF Starts
<1>3. ASSUME NEW p \in Proc, Killed(p), UNCHANGED mutex, pc[p] # "free"
      PROVE  InstanceInv'
  <2>1. CASE pc[p] = "exited"
    BY <1>3, <2>1 DEF Killed, Freed
  <2>2. CASE pc[p] # "exited"
    BY <1>3, <2>2 DEF Killed
  <2> QED BY <2>1, <2>2
<1>4. ASSUME NEW p \in Proc, Freed(p), UNCHANGED mutex, pc[p] = "exited"
      PROVE  InstanceInv'
  BY <1>4 DEF Freed
<1>5. ASSUME NEW p \in Proc, NEW code \in BOOLEAN, Ends(p, code), pc[p] # "free"
      PROVE  InstanceInv'
  <2>1. CASE child = p
    BY <1>5, <2>1 DEF Ends
  <2>2. CASE child # p
    BY <1>5, <2>2 DEF Ends, Freed
  <2> QED BY <2>1, <2>2
<1>6. ASSUME NEW p \in Proc, Acquire(p)
      PROVE  InstanceInv'
  <2> DEFINE s == session[p]
  <2>1. s \in Session /\ pc[p] = "acquire"
    BY <1>6 DEF Acquire, Step
  <2>2. CASE mutex[s] = {}
    BY <1>6, <2>1, <2>2 DEF Acquire, Step
  <2>3. CASE mutex[s] # {}
    BY <1>6, <2>1, <2>3 DEF Acquire, Step
  <2> QED BY <2>2, <2>3
<1>7. ASSUME NEW p \in Proc, AcquireFails(p)
      PROVE  InstanceInv'
  BY <1>7 DEF AcquireFails, Step
<1>8. ASSUME NEW p \in Proc, Release(p)
      PROVE  InstanceInv'
  BY <1>8 DEF Release, Step
<1>9. ASSUME NEW p \in Proc, Moves(p)
      PROVE  InstanceInv'
  BY <1>9 DEF Moves, Within
<1>10. ASSUME \/ Pause \/ AskConsole \/ NotChanged \/ Deliver
              \/ SpawnFails \/ StopControl \/ StartService
              \/ \E v \in Values : UserSets(v)
              \/ \E c \in Session \cup {None} : ConsoleChange(c)
              \/ \E p \in Proc : WatchChange(p)
       PROVE  Aside
  BY <1>10 DEF Aside, Pause, AskConsole, NotChanged, Deliver, SpawnFails, StopControl,
               StartService, UserSets, ConsoleChange, WatchChange
<1>11. CASE ServiceCrash
  <2>1. CASE child = None
    BY <1>1, <1>11, <2>1 DEF ServiceCrash, Aside, processVars
  <2>2. CASE child # None
    BY <1>3, <1>11, <2>2 DEF ServiceCrash, ServiceTypes
  <2> QED BY <2>1, <2>2
<1>12. ASSUME NEW p \in Proc, WatchStop(p) \/ Changed(p)
       PROVE  InstanceInv'
  <2>1. Killed(p) /\ UNCHANGED mutex /\ child = p
    BY <1>12 DEF WatchStop, Changed, Terminate
  <2> QED BY <1>3, <2>1, NoneAssumption
<1>13. ASSUME NEW p \in Proc, Reap(p)
       PROVE  InstanceInv'
  BY <1>4, <1>13 DEF Reap
<1>14. ASSUME NEW p \in Proc, Crash(p)
       PROVE  InstanceInv'
  BY <1>3, <1>14 DEF Crash
<1>15. ASSUME NEW p \in Proc, Second(p) \/ ExitDelete(p) \/ ExitPlain(p) \/ Dead(p)
       PROVE  InstanceInv'
  <2>1. tray_quit_requested[p] \in BOOLEAN /\ FALSE \in BOOLEAN
    BY DEF TypeOK, ProcessTypes
  <2>2. pc[p] # "free" /\ (Ends(p, FALSE) \/ Ends(p, tray_quit_requested[p]))
    BY <1>15 DEF Second, ExitDelete, ExitPlain, Dead
  <2> QED BY <1>5, <2>1, <2>2
<1> HIDE DEF InstanceInv, SingleInstance, Guarded, Live, TypeOK, ProcessTypes, Points
<1> QED BY Groups, <1>1, <1>2, <1>6, <1>7, <1>8, <1>9, <1>10, <1>11, <1>12, <1>13, <1>14, <1>15

-----------------------------------------------------------------------------
(* The service and its process. *)

\* The service has a process where it watches one, and only its own may be
\* one that it does not know any more: it was killed, and is being cleared up.
ServiceInv ==
    /\ svc \in {"watch", "changed"} <=> child # None
    /\ svc \in {"stopped", "wait", "session"} => console_session_id = None
    /\ svc \in {"spawn", "watch", "changed"} => console_session_id # None
    /\ child # None => /\ service_mode[child] /\ pc[child] # "free"
                       /\ session[child] = console_session_id
    /\ \A p \in Proc :
          /\ service_mode[p] => pc[p] # "free" /\ (child = p \/ pc[p] = "dying")
          /\ pc[p] = "exited" => child = p
    /\ ChangeIsNoticed

LEMMA ServiceStepInv ==
    ASSUME TypeOK, ServiceInv, Next
    PROVE  ServiceInv'
<1> USE NoneAssumption
        DEF ServiceInv, ChangeIsNoticed, TypeOK, ServiceTypes, ProcessTypes,
            Points, Services, serviceVars, processVars
<1>1. CASE Pause \/ AskConsole \/ NotChanged \/ Deliver
  BY <1>1 DEF Pause, AskConsole, NotChanged, Deliver
<1>2. CASE SpawnFails \/ StopControl \/ StartService
  BY <1>2 DEF SpawnFails, StopControl, StartService
<1>3. ASSUME NEW v \in Values, UserSets(v)
      PROVE  ServiceInv'
  BY <1>3 DEF UserSets
<1>4. ASSUME NEW c \in Session \cup {None}, ConsoleChange(c)
      PROVE  ServiceInv'
  BY <1>4 DEF ConsoleChange
<1>5. CASE ServiceCrash
  <2>1. CASE child = None
    BY <1>5, <2>1 DEF ServiceCrash
  <2>2. CASE child # None /\ pc[child] = "exited"
    BY <1>5, <2>2 DEF ServiceCrash, Killed, Freed
  <2>3. CASE child # None /\ pc[child] # "exited"
    BY <1>5, <2>3 DEF ServiceCrash, Killed
  <2> QED BY <2>1, <2>2, <2>3
<1>6. ASSUME NEW p \in Proc, Spawn(p)
      PROVE  ServiceInv'
  BY <1>6 DEF Spawn, Starts
<1>7. ASSUME NEW p \in Proc, WatchStop(p) \/ Changed(p)
      PROVE  ServiceInv'
  <2>1. CASE pc[p] = "exited"
    BY <1>7, <2>1 DEF WatchStop, Changed, Terminate, Killed, Freed
  <2>2. CASE pc[p] # "exited"
    BY <1>7, <2>2 DEF WatchStop, Changed, Terminate, Killed
  <2> QED BY <2>1, <2>2
<1>8. ASSUME NEW p \in Proc, Reap(p) \/ WatchChange(p)
      PROVE  ServiceInv'
  BY <1>8 DEF Reap, WatchChange, Freed
<1>9. ASSUME NEW p \in Proc, NEW s \in Session, Launch(p, s)
      PROVE  ServiceInv'
  BY <1>9 DEF Launch, Starts
<1>10. ASSUME NEW p \in Proc, Acquire(p) \/ AcquireFails(p) \/ Release(p)
       PROVE  ServiceInv'
  BY <1>10 DEF Acquire, AcquireFails, Release, Step
<1>11. ASSUME NEW p \in Proc, Crash(p)
       PROVE  ServiceInv'
  BY <1>11 DEF Crash, Live, Killed
<1>12. ASSUME NEW p \in Proc, NEW code, Ends(p, code), UNCHANGED serviceVars
       PROVE  ServiceInv'
  <2>1. CASE child = p
    BY <1>12, <2>1 DEF Ends
  <2>2. CASE child # p
    BY <1>12, <2>2 DEF Ends, Freed
  <2> QED BY <2>1, <2>2
<1>13. ASSUME NEW p \in Proc, Second(p) \/ ExitDelete(p) \/ ExitPlain(p) \/ Dead(p)
       PROVE  ServiceInv'
  BY <1>12, <1>13 DEF Second, ExitDelete, ExitPlain, Dead
<1>14. ASSUME NEW p \in Proc, Moves(p)
       PROVE  ServiceInv'
  BY <1>14 DEF Moves, Within
<1> HIDE NoneAssumption
         DEF ServiceInv, ChangeIsNoticed, TypeOK, ServiceTypes, ProcessTypes,
             Points, Services, serviceVars, processVars
<1> QED BY Groups, <1>1, <1>2, <1>3, <1>4, <1>5, <1>6, <1>7, <1>8, <1>9, <1>10, <1>11,
           <1>13, <1>14

\* Only the service gives its process up, and it has looked at its exit code
\* unless it stops, or serves another session.
LEMMA PassingOn ==
    ASSUME TypeOK, ServiceInv, Next, NEW p \in Proc,
           child = p, pc[p] = "exited", tray_quit_requested[p], child' # p
    PROVE  svc' = "stopped" \/ stop_event' \/ console # session[p]
<1>1. CASE Pause \/ AskConsole \/ NotChanged \/ Deliver
  BY <1>1 DEF Pause, AskConsole, NotChanged, Deliver
<1>2. CASE SpawnFails \/ StopControl \/ StartService \/ ServiceCrash
  BY <1>2 DEF SpawnFails, StopControl, StartService, ServiceCrash
<1>3. CASE \/ \E v \in Values : UserSets(v)
           \/ \E c \in Session \cup {None} : ConsoleChange(c)
  BY <1>3 DEF UserSets, ConsoleChange, serviceVars
<1>4. ASSUME NEW q \in Proc, WatchStop(q) \/ Changed(q)
      PROVE  stop_event' \/ console # session[p]
  BY <1>4, NoneAssumption DEF WatchStop, Changed, Terminate, ServiceInv
<1>5. ASSUME NEW q \in Proc, Spawn(q) \/ Reap(q) \/ WatchChange(q)
      PROVE  svc' = "stopped" \/ stop_event'
  BY <1>5, NoneAssumption DEF Spawn, Reap, WatchChange, ServiceInv
<1>6. ASSUME NEW q \in Proc,
             \/ \E s \in Session : Launch(q, s)
             \/ Acquire(q) \/ AcquireFails(q) \/ Second(q) \/ Release(q)
             \/ Crash(q) \/ ExitDelete(q) \/ ExitPlain(q) \/ Dead(q) \/ Moves(q)
      PROVE  FALSE
  BY <1>6 DEF Launch, Acquire, AcquireFails, Second, Release, Crash, ExitDelete,
              ExitPlain, Dead, Moves, serviceVars
<1> QED BY Groups, <1>1, <1>2, <1>3, <1>4, <1>5, <1>6

-----------------------------------------------------------------------------
LEMMA LivesInitially ==
    ASSUME Init
    PROVE  InstanceInv /\ ServiceInv
<1>1. InstanceInv
  BY DEF Init, InstanceInv, SingleInstance, Guarded, Live
<1>2. ServiceInv
  BY NoneAssumption DEF Init, ServiceInv, ChangeIsNoticed
<1> QED BY <1>1, <1>2

LEMMA LivesPreserved ==
    ASSUME TypeOK, InstanceInv, ServiceInv, [Next]_vars
    PROVE  InstanceInv' /\ ServiceInv'
<1>1. CASE Next
  <2>1. svc = "spawn" => console_session_id \in Session
    BY DEF ServiceInv, TypeOK, ServiceTypes
  <2>2. child # None => pc[child] # "free"
    BY DEF ServiceInv
  <2> QED BY <1>1, <2>1, <2>2, InstanceStep, ServiceStepInv
<1>2. CASE UNCHANGED vars
  BY <1>2 DEF vars, serviceVars, processVars, InstanceInv, SingleInstance,
              Guarded, Live, ServiceInv, ChangeIsNoticed
<1> QED BY <1>1, <1>2

(* single_instance.cpp and cosmicsvc.cpp, the processes and who watches      *)
(* them: the inductive invariant of the next four theorems.                  *)
THEOREM Lives == Spec => [](InstanceInv /\ ServiceInv)
<1>1. Init => InstanceInv /\ ServiceInv
  BY LivesInitially
<1>2. TypeOK /\ InstanceInv /\ ServiceInv /\ [Next]_vars => InstanceInv' /\ ServiceInv'
  BY LivesPreserved
<1> QED BY <1>1, <1>2, TypeInvariant, PTL DEF Spec

(* single_instance.cpp:62: two processes of a session never both run with   *)
(* the mutex, whatever was killed, was started or ended in between.         *)
THEOREM OneInstanceRuns == Spec => []SingleInstance
<1>1. InstanceInv => SingleInstance
  BY DEF InstanceInv
<1> QED BY <1>1, Lives, PTL

(* cosmicsvc.cpp:233: there is no second process of the service, and none    *)
(* after it has stopped or died.                                             *)
THEOREM OneServed == Spec => []OneServiceProcess
<1>1. ServiceInv => OneServiceProcess
  BY NoneAssumption DEF ServiceInv, OneServiceProcess, Live
<1> QED BY <1>1, Lives, PTL

(* cosmicsvc.cpp:46: a change of the console's session is never lost between *)
(* the question whose session it is and the wait.                            *)
THEOREM NoChangeIsLost == Spec => []ChangeIsNoticed
<1>1. ServiceInv => ChangeIsNoticed
  BY DEF ServiceInv
<1> QED BY <1>1, Lives, PTL

(* cosmicsvc.cpp:292: who quits from the tray is not given another process   *)
(* for the session that has the console.                                     *)
THEOREM QuitReachesService == Spec => QuitIsPassedOn
<1> DEFINE Passed ==
        \A p \in Proc :
            /\ child = p /\ pc[p] = "exited" /\ tray_quit_requested[p]
            /\ child' # p
            => svc' = "stopped" \/ stop_event' \/ console # session[p]
<1>1. TypeOK /\ ServiceInv /\ [Next]_vars => [Passed]_vars
  <2>1. TypeOK /\ ServiceInv /\ Next => Passed
    BY PassingOn
  <2> QED BY <2>1
<1> QED BY <1>1, TypeInvariant, Lives, PTL DEF Spec, QuitIsPassedOn
=============================================================================
