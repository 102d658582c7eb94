---------------------------- MODULE HostLifetime ----------------------------
(***************************************************************************)
(* The life of the host's processes on Windows: the service that starts    *)
(* and restarts them (tools/cosmicsvc.cpp), the guard against a second     *)
(* instance (src/app/single_instance.cpp), the start and the end of the    *)
(* program (src/main.cpp, src/hostglue/host.cpp), and the one thing they   *)
(* change that outlives them: a setting of the graphics driver, with the   *)
(* file from which it is undone (platform/windows/nvprefs).                *)
(*                                                                         *)
(* A process can die anywhere, by a crash or because the service ends it.  *)
(* Then its handles are closed and its files stay.  The setting is one     *)
(* value: the host's, or one of the user's (to have none is one of them).  *)
(* A session of the driver interface works on a copy; saving it writes     *)
(* what the session changed, which is an assumption about the driver.  The *)
(* application profile is of interest only because it may save the copy.   *)
(***************************************************************************)
EXTENDS Naturals, FiniteSets

CONSTANTS
    Session,    \* the sessions that may own the console
    Home,       \* the one that owns it at first
    Proc,       \* room for processes
    Values,     \* what the user may have chosen
    First,      \* what the user has at first
    Ours,       \* OGL_CPL_PREFER_DXPRESENT_PREFER_ENABLED
    None,       \* no session, no process, no value
    MaxEvents   \* how often something fails, or happens unasked

ASSUME ProcAssumption == Proc \subseteq Nat
ASSUME FirstAssumption == Home \in Session /\ First \in Values
ASSUME OursAssumption == Ours \notin Values
ASSUME NoneAssumption ==
    None \notin Session /\ None \notin Proc /\ None \notin Values /\ None # Ours
ASSUME FileAssumption ==
    Values \cap {"none", "empty"} = {} /\ Ours \notin {"none", "empty"}
ASSUME EventsAssumption == MaxEvents \in Nat

VARIABLES
    svc,                    \* where ServiceMain is
    stop_event,             \* manual reset
    session_change_event,   \* automatic reset
    notice,                 \* WTS_CONSOLE_CONNECT is on its way to HandlerEx
    console,                \* the session of the console
    console_session_id,     \* the one the service started its process for
    child,                  \* the process it watches
    pc,                     \* where a process is
    session,                \* the session it runs in
    service_mode,           \* it was started by the service
    tray_quit_requested,
    mutex,                  \* the processes with a handle to a session's mutex
    driver,                 \* the saved setting
    copy,                   \* the setting in the process's driver session
    dirty,                  \* it was changed and not saved
    current,                \* the processes whose copy is of the setting as it is
    undo_data,              \* the value the process would put back
    undo_file,              \* its object for the file: none, open or closed
    file,                   \* the file: none, empty, or the value in it
    holder,                 \* who has it open (no one else can open it)
    chosen,                 \* what the user last had
    abandoned,              \* a file was deleted although undoing had failed
    outdated,               \* a process went by a setting from before
    events

serviceVars ==
    <<svc, stop_event, session_change_event, notice, console,
      console_session_id, child>>
processVars == <<pc, session, service_mode, tray_quit_requested, mutex>>
localVars == <<copy, dirty, current, undo_data, undo_file>>
diskVars == <<driver, file, holder>>
lossVars == <<chosen, abandoned, outdated>>
pastVars == <<lossVars, events>>
vars == <<serviceVars, processVars, localVars, diskVars, pastVars>>

Services == {"stopped", "wait", "session", "spawn", "watch", "changed"}
Points ==
    {"free", "acquire", "second", "load", "open", "undo", "drop", "drop_anyway",
     "apply", "modify", "create", "write", "fill", "save", "run", "release",
     "exit_load", "exit_save", "exit_delete", "exited", "dying"}

ServiceTypes ==
    /\ svc \in Services
    /\ stop_event \in BOOLEAN /\ session_change_event \in BOOLEAN
    /\ notice \in BOOLEAN
    /\ console \in Session \cup {None}
    /\ console_session_id \in Session \cup {None}
    /\ child \in Proc \cup {None}

ProcessTypes ==
    /\ pc \in [Proc -> Points]
    /\ session \in [Proc -> Session \cup {None}]
    /\ service_mode \in [Proc -> BOOLEAN]
    /\ tray_quit_requested \in [Proc -> BOOLEAN]
    /\ mutex \in [Session -> SUBSET Proc]

LocalTypes ==
    /\ copy \in [Proc -> Values \cup {Ours, None}]
    /\ dirty \in [Proc -> BOOLEAN] /\ current \subseteq Proc
    /\ undo_data \in [Proc -> Values \cup {None}]
    /\ undo_file \in [Proc -> {"none", "open", "closed"}]

DiskTypes ==
    /\ driver \in Values \cup {Ours}
    /\ file \in Values \cup {"none", "empty"}
    /\ holder \in Proc \cup {None}

PastTypes ==
    /\ chosen \in Values
    /\ abandoned \in BOOLEAN /\ outdated \in BOOLEAN
    /\ events \in 0 .. MaxEvents

TypeOK == ServiceTypes /\ ProcessTypes /\ LocalTypes /\ DiskTypes /\ PastTypes

Init ==
    /\ svc = "wait" /\ stop_event = FALSE /\ session_change_event = FALSE
    /\ notice = FALSE /\ console = Home /\ console_session_id = None
    /\ child = None
    /\ pc = [p \in Proc |-> "free"] /\ session = [p \in Proc |-> None]
    /\ service_mode = [p \in Proc |-> FALSE]
    /\ tray_quit_requested = [p \in Proc |-> FALSE]
    /\ mutex = [s \in Session |-> {}]
    /\ driver = First /\ chosen = First
    /\ copy = [p \in Proc |-> None] /\ dirty = [p \in Proc |-> FALSE]
    /\ current = {}
    /\ undo_data = [p \in Proc |-> None]
    /\ undo_file = [p \in Proc |-> "none"]
    /\ file = "none" /\ holder = None
    /\ abandoned = FALSE /\ outdated = FALSE /\ events = 0

\* Something fails, or happens that nobody has to do; the model allows so many.
Event == events < MaxEvents /\ events' = events + 1

Quiet == UNCHANGED events

-----------------------------------------------------------------------------
(* Processes: what they have in common. *)

\* A process of its own code runs, and may be killed.
Live(p) == pc[p] \notin {"free", "exited", "dying"}

Step(p, from, to) == pc[p] = from /\ pc' = [pc EXCEPT ![p] = to]

\* What it had in memory is gone.
Forget(p) ==
    /\ copy' = [copy EXCEPT ![p] = None]
    /\ dirty' = [dirty EXCEPT ![p] = FALSE]
    /\ current' = current \ {p}
    /\ undo_data' = [undo_data EXCEPT ![p] = None]
    /\ undo_file' = [undo_file EXCEPT ![p] = "none"]

\* unload: so is the copy of the settings.
Unload(p) ==
    /\ copy' = [copy EXCEPT ![p] = None]
    /\ dirty' = [dirty EXCEPT ![p] = FALSE]
    /\ current' = current \ {p}

\* The last handle to a process that has ended is closed.
Freed(p) ==
    /\ pc' = [pc EXCEPT ![p] = "free"]
    /\ session' = [session EXCEPT ![p] = None]
    /\ service_mode' = [service_mode EXCEPT ![p] = FALSE]
    /\ tray_quit_requested' = [tray_quit_requested EXCEPT ![p] = FALSE]

\* A process is killed; one that has ended already is only forgotten.
Killed(p) ==
    IF pc[p] = "exited"
    THEN Freed(p)
    ELSE /\ pc' = [pc EXCEPT ![p] = "dying"]
         /\ UNCHANGED <<session, service_mode, tray_quit_requested>>

\* A process ends with the exit code that stops the service, or another.
Ends(p, code1115) ==
    /\ IF child = p
       THEN /\ pc' = [pc EXCEPT ![p] = "exited"]
            /\ tray_quit_requested' = [tray_quit_requested EXCEPT ![p] = code1115]
            /\ UNCHANGED <<session, service_mode>>
       ELSE Freed(p)
    /\ mutex' = [mutex EXCEPT ![session[p]] = @ \ {p}]
    /\ Forget(p)

\* The file p refers to is deleted through its handle, which closes it.
Deleted(p) == file' = "none" /\ holder' = None

-----------------------------------------------------------------------------
(* The service. *)

\* WaitForSingleObject(stop_event, 3000): the loop ends, or goes round.
Pause ==
    /\ svc = "wait"
    /\ svc' = IF stop_event THEN "stopped" ELSE "session"
    /\ Quiet
    /\ UNCHANGED <<stop_event, session_change_event, notice, console,
                   console_session_id, child>>
    /\ UNCHANGED <<processVars, localVars, diskVars, lossVars>>

\* WTSGetActiveConsoleSessionId: there may be no session yet.
AskConsole ==
    /\ svc = "session"
    /\ console_session_id' = console
    /\ svc' = IF console = None THEN "wait" ELSE "spawn"
    /\ Quiet
    /\ UNCHANGED <<stop_event, session_change_event, notice, console, child>>
    /\ UNCHANGED <<processVars, localVars, diskVars, lossVars>>

\* The token, the job or CreateProcessAsUserW may fail.
SpawnFails ==
    /\ svc = "spawn" /\ Event
    /\ svc' = "wait" /\ console_session_id' = None
    /\ UNCHANGED <<stop_event, session_change_event, notice, console, child>>
    /\ UNCHANGED <<processVars, localVars, diskVars, lossVars>>

\* A process starts in s.  Which identity it takes means nothing; it is the
\* least that is free.
Starts(p, s, service) ==
    /\ pc[p] = "free" /\ \A q \in Proc : pc[q] = "free" => p <= q
    /\ pc' = [pc EXCEPT ![p] = "acquire"]
    /\ session' = [session EXCEPT ![p] = s]
    /\ service_mode' = [service_mode EXCEPT ![p] = service]
    /\ UNCHANGED <<tray_quit_requested, mutex, localVars>>

\* Fault: a change that came before the process is taken to be for an earlier.
SpawnForgetting(p) ==
    /\ svc = "spawn" /\ svc' = "watch"
    /\ Starts(p, console_session_id, TRUE)
    /\ child' = p
    /\ session_change_event' = FALSE
    /\ Quiet
    /\ UNCHANGED <<stop_event, notice, console, console_session_id>>
    /\ UNCHANGED <<diskVars, lossVars>>

\* CreateProcessAsUserW("cosmicdesk.exe --hidden --service") in the job.
Spawn(p) ==
    /\ svc = "spawn" /\ svc' = "watch"
    /\ Starts(p, console_session_id, TRUE)
    /\ child' = p
    /\ Quiet
    /\ UNCHANGED <<stop_event, session_change_event, notice, console,
                   console_session_id>>
    /\ UNCHANGED <<diskVars, lossVars>>

\* TerminateProcess, and the handles are closed.
Terminate(p) ==
    /\ child = p /\ child' = None
    /\ Killed(p) /\ Forget(p)
    /\ svc' = "wait" /\ console_session_id' = None
    /\ Quiet
    /\ UNCHANGED <<stop_event, notice, console, mutex>>
    /\ UNCHANGED <<diskVars, lossVars>>

\* Fault: the wait resets the event, as it does the other one.
WatchStopResetting(p) ==
    /\ svc = "watch" /\ stop_event
    /\ child = p /\ child' = None
    /\ Killed(p) /\ Forget(p)
    /\ stop_event' = FALSE
    /\ svc' = "wait" /\ console_session_id' = None
    /\ Quiet
    /\ UNCHANGED <<session_change_event, notice, console, mutex>>
    /\ UNCHANGED <<diskVars, lossVars>>

\* stop_event is looked at first, and stays set.
WatchStop(p) ==
    /\ svc = "watch" /\ stop_event
    /\ Terminate(p)
    /\ UNCHANGED session_change_event

\* Fault: the exit code is not asked for.
ReapAnyCode(p) ==
    /\ svc = "watch" /\ ~stop_event
    /\ child = p /\ pc[p] = "exited"
    /\ svc' = "wait" /\ console_session_id' = None
    /\ child' = None /\ Freed(p)
    /\ Quiet
    /\ UNCHANGED <<stop_event, session_change_event, notice, console, mutex>>
    /\ UNCHANGED <<localVars, diskVars, lossVars>>

\* Then the process: one that asks for it stops the service.
Reap(p) ==
    /\ svc = "watch" /\ ~stop_event
    /\ child = p /\ pc[p] = "exited"
    /\ stop_event' = (service_mode[p] /\ tray_quit_requested[p])
    /\ svc' = "wait" /\ console_session_id' = None
    /\ child' = None /\ Freed(p)
    /\ Quiet
    /\ UNCHANGED <<session_change_event, notice, console, mutex>>
    /\ UNCHANGED <<localVars, diskVars, lossVars>>

\* Last the session change, which the wait resets.
WatchChange(p) ==
    /\ svc = "watch" /\ ~stop_event
    /\ child = p /\ pc[p] # "exited"
    /\ session_change_event
    /\ session_change_event' = FALSE
    /\ svc' = "changed"
    /\ Quiet
    /\ UNCHANGED <<stop_event, notice, console, console_session_id, child>>
    /\ UNCHANGED <<processVars, localVars, diskVars, lossVars>>

\* The session may be the old one after all.
NotChanged ==
    /\ svc = "changed" /\ console = console_session_id
    /\ svc' = "watch"
    /\ Quiet
    /\ UNCHANGED <<stop_event, session_change_event, notice, console,
                   console_session_id, child>>
    /\ UNCHANGED <<processVars, localVars, diskVars, lossVars>>

Changed(p) ==
    /\ svc = "changed" /\ console # console_session_id
    /\ Terminate(p)
    /\ UNCHANGED session_change_event

\* HandlerEx: SERVICE_CONTROL_SESSIONCHANGE.
Deliver ==
    /\ notice /\ notice' = FALSE
    /\ session_change_event' = (session_change_event \/ svc # "stopped")
    /\ Quiet
    /\ UNCHANGED <<svc, stop_event, console, console_session_id, child>>
    /\ UNCHANGED <<processVars, localVars, diskVars, lossVars>>

\* HandlerEx: SERVICE_CONTROL_STOP, or PRESHUTDOWN.
StopControl ==
    /\ svc # "stopped" /\ Event
    /\ stop_event' = TRUE
    /\ UNCHANGED <<svc, session_change_event, notice, console,
                   console_session_id, child>>
    /\ UNCHANGED <<processVars, localVars, diskVars, lossVars>>

\* At boot, by hand, or by --shortcut-admin: both events are made anew.
StartService ==
    /\ svc = "stopped" /\ Event
    /\ svc' = "wait" /\ stop_event' = FALSE /\ session_change_event' = FALSE
    /\ UNCHANGED <<notice, console, console_session_id, child>>
    /\ UNCHANGED <<processVars, localVars, diskVars, lossVars>>

\* The service dies: the last handle to the job goes, and with it the child.
ServiceCrash ==
    /\ svc # "stopped" /\ Event
    /\ svc' = "stopped" /\ console_session_id' = None
    /\ stop_event' = FALSE /\ session_change_event' = FALSE
    /\ child' = None
    /\ IF child = None
       THEN UNCHANGED <<pc, session, service_mode, tray_quit_requested, localVars>>
       ELSE Killed(child) /\ Forget(child)
    /\ UNCHANGED <<notice, console, mutex>>
    /\ UNCHANGED <<diskVars, lossVars>>

-----------------------------------------------------------------------------
(* A process: its start and its end. *)

\* Started by the user: at sign-in, from the menu, a second time.  The model
\* keeps room for the service's process.
Launch(p, s) ==
    /\ Event
    /\ child # None \/ \E q \in Proc \ {p} : pc[q] = "free"
    /\ Starts(p, s, FALSE)
    /\ UNCHANGED <<serviceVars, diskVars, lossVars>>

\* single_instance::acquire: any handle to the mutex means there is another.
Acquire(p) ==
    /\ Step(p, "acquire", IF mutex[session[p]] = {} THEN "load" ELSE "second")
    /\ mutex' = [mutex EXCEPT ![session[p]] = @ \cup {p}]
    /\ Quiet
    /\ UNCHANGED <<session, service_mode, tray_quit_requested>>
    /\ UNCHANGED <<serviceVars, localVars, diskVars, lossVars>>

\* No mutex means no guard; it runs anyway.
AcquireFails(p) ==
    /\ Step(p, "acquire", "load") /\ Event
    /\ UNCHANGED <<session, service_mode, tray_quit_requested, mutex>>
    /\ UNCHANGED <<serviceVars, localVars, diskVars, lossVars>>

\* A second instance closes its handle and exits with 0.
Second(p) ==
    /\ pc[p] = "second"
    /\ Ends(p, FALSE)
    /\ Quiet
    /\ UNCHANGED <<serviceVars, diskVars, lossVars>>

\* The first stream begins: streaming_will_start looks at the setting again.
StreamStart(p) ==
    /\ Step(p, "run", "load") /\ Event
    /\ UNCHANGED <<session, service_mode, tray_quit_requested, mutex>>
    /\ UNCHANGED <<serviceVars, localVars, diskVars, lossVars>>

\* The main loop ends, for the tray's Quit or otherwise.
Quit(p, tray) ==
    /\ Step(p, "run", "release") /\ Event
    /\ tray_quit_requested' = [tray_quit_requested EXCEPT ![p] = tray]
    /\ UNCHANGED <<session, service_mode, mutex>>
    /\ UNCHANGED <<serviceVars, localVars, diskVars, lossVars>>

\* single_instance::release, before the destructors of static objects run.
Release(p) ==
    /\ Step(p, "release", "exit_load")
    /\ mutex' = [mutex EXCEPT ![session[p]] = @ \ {p}]
    /\ Quiet
    /\ UNCHANGED <<session, service_mode, tray_quit_requested>>
    /\ UNCHANGED <<serviceVars, localVars, diskVars, lossVars>>

\* A crash, or the user ends the process.
Crash(p) ==
    /\ Live(p) /\ Event
    /\ Killed(p) /\ Forget(p)
    /\ UNCHANGED mutex
    /\ UNCHANGED <<serviceVars, diskVars, lossVars>>

\* The system closes the handles of a process that has died.  Its exit code
\* is not the one that stops the service.
Dead(p) ==
    /\ pc[p] = "dying"
    /\ Ends(p, FALSE)
    /\ holder' = IF holder = p THEN None ELSE holder
    /\ Quiet
    /\ UNCHANGED <<serviceVars, driver, file, lossVars>>

-----------------------------------------------------------------------------
(* A process: the setting and the file. *)

\* A copy is saved, or the file is given up: it should be of the setting as
\* it is.
GoesBy(p) == outdated' = (outdated \/ p \notin current)

\* p saves v; the copies the others have are from before.
Saves(p, v) ==
    /\ driver' = v
    /\ current' = current \cap {p}

\* What such a step leaves alone.
Inside ==
    /\ UNCHANGED <<session, service_mode, tray_quit_requested, mutex>>
    /\ UNCHANGED serviceVars

\* nvprefs_interface::load.  An undo file of its own is not opened again.
Load(p) ==
    /\ Step(p, "load", IF undo_file[p] = "none" THEN "open" ELSE "apply")
    /\ copy' = [copy EXCEPT ![p] = driver]
    /\ dirty' = [dirty EXCEPT ![p] = FALSE]
    /\ current' = current \cup {p}
    /\ Inside /\ Quiet
    /\ UNCHANGED <<undo_data, undo_file, diskVars, lossVars>>

LoadFails(p) ==
    /\ Step(p, "load", "run")
    /\ Inside /\ Event
    /\ UNCHANGED <<localVars, diskVars, lossVars>>

\* undo_file_t::open_existing_file, not shared with anyone.
Open(p) ==
    /\ Step(p, "open", "undo")
    /\ file # "none" /\ holder = None
    /\ holder' = p
    /\ Inside /\ Quiet
    /\ UNCHANGED <<localVars, driver, file, lossVars>>

\* There is none, or it cannot be had; either way the start goes on.
OpenFails(p) ==
    /\ Step(p, "open", "apply")
    /\ Inside /\ IF file = "none" \/ holder # None THEN Quiet ELSE Event
    /\ UNCHANGED <<localVars, diskVars, lossVars>>

\* restore_global_profile_to_undo and save_settings: only the host's own
\* value is replaced.  A file without a value restores nothing.
Undo(p) ==
    /\ Step(p, "undo", "drop")
    /\ IF copy[p] = Ours /\ file \in Values
       THEN /\ copy' = [copy EXCEPT ![p] = file]
            /\ Saves(p, file) /\ GoesBy(p)
       ELSE UNCHANGED <<copy, current, driver, outdated>>
    /\ Inside /\ Quiet
    /\ UNCHANGED <<dirty, undo_data, undo_file, file, holder, chosen, abandoned>>

\* It was not read, not changed in the copy, or not saved.
UndoFails(p) ==
    /\ Step(p, "undo", "drop_anyway")
    /\ \/ UNCHANGED <<copy, dirty>>
       \/ /\ copy[p] = Ours /\ file \in Values
          /\ copy' = [copy EXCEPT ![p] = file]
          /\ dirty' = [dirty EXCEPT ![p] = TRUE]
    /\ Inside /\ Event
    /\ UNCHANGED <<current, undo_data, undo_file, diskVars, lossVars>>

\* "deleting the file": what is undone, or was found to need no undoing.
DropUndone(p) ==
    /\ Step(p, "drop", "apply")
    /\ IF driver = Ours THEN GoesBy(p) ELSE UNCHANGED outdated
    /\ UNCHANGED abandoned

\* "deleting the file anyway".
DropAnyway(p) ==
    /\ Step(p, "drop_anyway", "apply")
    /\ abandoned' = (abandoned \/ driver = Ours)
    /\ UNCHANGED outdated

Drop(p) ==
    /\ DropUndone(p) \/ DropAnyway(p)
    /\ Deleted(p)
    /\ Inside /\ Quiet
    /\ UNCHANGED <<localVars, driver, chosen>>

\* It was not deleted; the handle is closed.
DropFails(p) ==
    /\ Step(p, "drop", "apply") \/ Step(p, "drop_anyway", "apply")
    /\ holder' = None
    /\ Inside /\ Event
    /\ UNCHANGED <<localVars, driver, file, lossVars>>

\* modify_application_profile: when it saves, the copy is saved with it.
Apply(p, saves) ==
    /\ Step(p, "apply", "modify")
    /\ IF saves /\ dirty[p]
       THEN Saves(p, copy[p]) /\ GoesBy(p)
       ELSE UNCHANGED <<current, driver, outdated>>
    /\ dirty' = [dirty EXCEPT ![p] = @ /\ ~saves]
    /\ Inside /\ Quiet
    /\ UNCHANGED <<copy, undo_data, undo_file, file, holder, chosen, abandoned>>

\* Fault: undo data from an earlier modification is kept.
ModifyUnmerged(p) ==
    /\ copy[p] # Ours
    /\ Step(p, "modify", IF undo_file[p] = "none" THEN "create" ELSE "write")
    /\ undo_data' = [undo_data EXCEPT ![p] = IF @ = None THEN copy[p] ELSE @]
    /\ copy' = [copy EXCEPT ![p] = Ours]
    /\ Inside /\ Quiet
    /\ UNCHANGED <<dirty, current, undo_file, diskVars, lossVars>>

\* check_and_modify_global_profile: what the copy had is what is put back, and
\* replaces what was to be put back until then.
Modify(p) ==
    /\ copy[p] # Ours
    /\ Step(p, "modify", IF undo_file[p] = "none" THEN "create" ELSE "write")
    /\ undo_data' = [undo_data EXCEPT ![p] = copy[p]]
    /\ copy' = [copy EXCEPT ![p] = Ours]
    /\ Inside /\ Quiet
    /\ UNCHANGED <<dirty, current, undo_file, diskVars, lossVars>>

\* There is no need to, it is not wanted, or the driver refuses.
ModifyNot(p) ==
    /\ Step(p, "modify", "run")
    /\ Unload(p)
    /\ Inside /\ IF copy[p] = Ours THEN Quiet ELSE Event
    /\ UNCHANGED <<undo_data, undo_file, diskVars, lossVars>>

\* undo_file_t::create_new_file: CREATE_NEW.
Create(p) ==
    /\ Step(p, "create", "write")
    /\ file = "none"
    /\ file' = "empty" /\ holder' = p
    /\ undo_file' = [undo_file EXCEPT ![p] = "open"]
    /\ Inside /\ Quiet
    /\ UNCHANGED <<copy, dirty, current, undo_data, driver, lossVars>>

\* The change is reverted: load_settings, and then unload.  The undo data is
\* set only once there is a file.
CreateFails(p) ==
    /\ Step(p, "create", "run")
    /\ undo_data' = [undo_data EXCEPT ![p] = None]
    /\ Unload(p)
    /\ Inside /\ IF file # "none" THEN Quiet ELSE Event
    /\ UNCHANGED <<undo_file, diskVars, lossVars>>

\* undo_file_t::write_undo_data first empties the file.
Write(p) ==
    /\ Step(p, "write", "fill")
    /\ undo_file[p] = "open"
    /\ file' = "empty"
    /\ Inside /\ Quiet
    /\ UNCHANGED <<localVars, driver, holder, lossVars>>

\* And then writes the value.
Fill(p) ==
    /\ Step(p, "fill", "save")
    /\ file' = undo_data[p]
    /\ Inside /\ Quiet
    /\ UNCHANGED <<localVars, driver, holder, lossVars>>

\* Without the record there is no change: the file is deleted, if it is
\* there and can be.
WriteFails(p) ==
    /\ Step(p, "write", "run") \/ Step(p, "fill", "run")
    /\ \/ /\ undo_file[p] = "open"
          /\ Deleted(p)
          /\ undo_file' = [undo_file EXCEPT ![p] = "closed"]
       \/ UNCHANGED <<undo_file, file, holder>>
    /\ Unload(p)
    /\ Inside /\ IF undo_file[p] = "closed" THEN Quiet ELSE Event
    /\ UNCHANGED <<undo_data, driver, lossVars>>

\* save_settings.
Save(p) ==
    /\ Step(p, "save", "run")
    /\ driver' = copy[p] /\ GoesBy(p)
    /\ copy' = [copy EXCEPT ![p] = None]
    /\ dirty' = [dirty EXCEPT ![p] = FALSE]
    /\ current' = {}
    /\ Inside /\ Quiet
    /\ UNCHANGED <<undo_data, undo_file, file, holder, chosen, abandoned>>

SaveFails(p) ==
    /\ Step(p, "save", "run")
    /\ Unload(p)
    /\ Inside /\ Event
    /\ UNCHANGED <<undo_data, undo_file, diskVars, lossVars>>

\* ~nvprefs_interface: it owns an undo file, or has owned one, and the
\* settings can be loaded.
ExitLoad(p) ==
    /\ Step(p, "exit_load", "exit_save")
    /\ undo_file[p] # "none"
    /\ copy' = [copy EXCEPT ![p] = driver]
    /\ current' = current \cup {p}
    /\ Inside /\ Quiet
    /\ UNCHANGED <<dirty, undo_data, undo_file, diskVars, lossVars>>

\* restore_global_profile, as in Undo but from memory; and the memory may be
\* of a file that was deleted because it could not be written.
ExitSave(p) ==
    /\ Step(p, "exit_save", "exit_delete")
    /\ IF copy[p] = Ours
       THEN /\ Saves(p, undo_data[p])
            /\ outdated' = (outdated \/ p \notin current \/ undo_file[p] = "closed")
       ELSE UNCHANGED <<current, driver, outdated>>
    /\ Inside /\ Quiet
    /\ UNCHANGED <<copy, dirty, undo_data, undo_file, file, holder>>
    /\ UNCHANGED <<chosen, abandoned>>

\* The file is deleted, and main's value is the exit code.
ExitDelete(p) ==
    /\ pc[p] = "exit_delete"
    /\ undo_file[p] = "open"
    /\ Deleted(p)
    /\ Ends(p, tray_quit_requested[p])
    /\ Quiet
    /\ UNCHANGED <<serviceVars, driver, lossVars>>

\* There is nothing to undo or to delete.
NothingToUndo(p) ==
    \/ pc[p] = "exit_load" /\ undo_file[p] = "none"
    \/ pc[p] = "exit_delete" /\ undo_file[p] # "open"

\* That is so, or any of this fails: the process ends, and the file stays.
ExitPlain(p) ==
    /\ pc[p] \in {"exit_load", "exit_save", "exit_delete"}
    /\ IF NothingToUndo(p) THEN Quiet ELSE Event
    /\ holder' = IF holder = p THEN None ELSE holder
    /\ Ends(p, tray_quit_requested[p])
    /\ UNCHANGED <<serviceVars, driver, file, lossVars>>

-----------------------------------------------------------------------------
(* The user and the system. *)

\* In the driver's control panel.
UserSets(v) ==
    /\ v # driver /\ Event
    /\ driver' = v /\ chosen' = v /\ current' = {}
    /\ abandoned' = FALSE /\ outdated' = FALSE
    /\ UNCHANGED <<copy, dirty, undo_data, undo_file, file, holder>>
    /\ UNCHANGED <<serviceVars, processVars>>

\* Another session gets the console, or none has it.
ConsoleChange(s) ==
    /\ s # console /\ Event
    /\ console' = s
    /\ notice' = (notice \/ s # None)
    /\ UNCHANGED <<svc, stop_event, session_change_event, console_session_id,
                   child>>
    /\ UNCHANGED <<processVars, localVars, diskVars, lossVars>>

-----------------------------------------------------------------------------
ServiceStep ==
    \/ Pause \/ AskConsole \/ NotChanged
    \/ \E p \in Proc :
          Spawn(p) \/ WatchStop(p) \/ Reap(p) \/ WatchChange(p) \/ Changed(p)

\* What a process does without waiting for the user.
ProcessStep(p) ==
    \/ Acquire(p) \/ Second(p) \/ Release(p)
    \/ Load(p) \/ LoadFails(p) \/ Open(p) \/ OpenFails(p)
    \/ Undo(p) \/ UndoFails(p) \/ Drop(p) \/ DropFails(p)
    \/ \E saves \in BOOLEAN : Apply(p, saves)
    \/ Modify(p) \/ ModifyNot(p) \/ Create(p) \/ CreateFails(p)
    \/ Write(p) \/ Fill(p) \/ WriteFails(p) \/ Save(p) \/ SaveFails(p)
    \/ ExitLoad(p) \/ ExitSave(p) \/ ExitDelete(p) \/ ExitPlain(p)

\* What nobody has to do.
Chance ==
    \/ SpawnFails \/ StopControl \/ StartService \/ ServiceCrash
    \/ \E p \in Proc :
          \/ AcquireFails(p) \/ StreamStart(p) \/ Crash(p)
          \/ \E tray \in BOOLEAN : Quit(p, tray)
          \/ \E s \in Session : Launch(p, s)
    \/ \E v \in Values : UserSets(v)
    \/ \E s \in Session \cup {None} : ConsoleChange(s)

Next ==
    \/ ServiceStep \/ Deliver \/ Chance
    \/ \E p \in Proc : ProcessStep(p) \/ Dead(p)

Spec == Init /\ [][Next]_vars

\* The service's thread and the processes are scheduled, the system delivers
\* its notice and clears up after a process.
FairSpec ==
    /\ Spec
    /\ WF_vars(ServiceStep) /\ WF_vars(Deliver)
    /\ \A p \in Proc : WF_vars(ProcessStep(p)) /\ WF_vars(Dead(p))

-----------------------------------------------------------------------------
(* Properties. *)

\* What the user had is in the driver, or it is what the file says.
InTheFile == IF driver = Ours THEN file = chosen ELSE driver = chosen

(* nvprefs_interface.cpp:76-96, 159-180, 198-212: what the user last had is  *)
(* in the driver, or the driver has the host's value and the file says what  *)
(* the user had, whatever died in between; but for the two ways the code has *)
(* to lose it: a file deleted although it could not be undone (85, 88), and  *)
(* a process that saves the setting, or finds nothing to undo and deletes    *)
(* the file, by what the setting was before it was changed behind its back.  *)
Recoverable == InTheFile \/ abandoned \/ outdated

\* A process runs the program, and holds what says so to the others.
Guarded(p) ==
    /\ Live(p) /\ pc[p] \notin {"acquire", "second"}
    /\ p \in mutex[session[p]]

(* single_instance.cpp:62: of the processes of one session that hold the     *)
(* mutex, at most one runs; the others were told that they are second.  A    *)
(* process that has been killed still holds it until the system clears up.   *)
SingleInstance ==
    \A p, q \in Proc :
        Guarded(p) /\ Guarded(q) /\ session[p] = session[q] => p = q

(* cosmicsvc.cpp:233: however the service and its processes end, and         *)
(* whatever starts in between, it has one process at a time, the one it      *)
(* watches, and none when it is stopped.                                     *)
OneServiceProcess ==
    \A p \in Proc :
        service_mode[p] /\ Live(p) => child = p /\ svc \in {"watch", "changed"}

(* cosmicsvc.cpp:46: as long as the service starts or watches a process for  *)
(* a session that is not the console's any more, the change is on its way.   *)
ChangeIsNoticed ==
    svc \in {"spawn", "watch"} /\ console \notin {console_session_id, None} =>
        notice \/ session_change_event

(* main.cpp:1146, cosmicsvc.cpp:292: the service does not forget a process   *)
(* that asked for its end without ending, or another session to serve.       *)
QuitIsPassedOn ==
    [][ \A p \in Proc :
            /\ child = p /\ pc[p] = "exited" /\ tray_quit_requested[p]
            /\ child' # p
            => svc' = "stopped" \/ stop_event' \/ console # session[p] ]_vars

\* A process runs the program in s, or is about to.
ServedBy(p, s) ==
    session[p] = s /\ Live(p) /\ pc[p] \notin {"acquire", "second"}

(* cosmicsvc.cpp:43: the session that owns the console gets a process, and   *)
(* a change of it while the service is at work is not lost.                  *)
ConsoleServed ==
    \A s \in Session :
        (svc # "stopped" /\ console = s) ~>
            \/ console # s \/ stop_event \/ svc = "stopped"
            \/ \E p \in Proc : ServedBy(p, s)

(* cosmicsvc.cpp:59: a stop ends the service, and its process with it, where *)
(* ever the service is at the time; no process of an earlier one survives.   *)
StopHonoured ==
    stop_event ~>
        svc = "stopped" /\ \A p \in Proc : service_mode[p] => ~Live(p)

(* main.cpp:1141: who quits from the tray of the service's process is not    *)
(* given another one, unless the console goes to another session before.     *)
QuitStopsService ==
    \A s \in Session :
        (\E p \in Proc : /\ child = p /\ pc[p] = "exited"
                         /\ tray_quit_requested[p] /\ session[p] = s)
            ~> (svc = "stopped" \/ console # s)
=============================================================================
