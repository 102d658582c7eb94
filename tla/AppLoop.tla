------------------------------- MODULE AppLoop -------------------------------
(***************************************************************************)
(* The main thread (src/main.cpp): the event loop that moves the window    *)
(* between the Bridge, the remote desktop and the tray, and drives the     *)
(* viewer session from what the user does.  The session is the one         *)
(* SessionContract promises; its worker runs between any two steps here.   *)
(*                                                                         *)
(* One turn of the loop is: the SDL events, the tray and the show and      *)
(* pairing requests, one reading of the session's status and what follows  *)
(* from it, and one frame with the click it returned.                      *)
(***************************************************************************)
EXTENDS Naturals

CONSTANTS
    Hosts,      \* machines the user can connect to or pair with
    Blank,      \* what is left of an address of spaces once it is trimmed
    HasTray     \* did the tray icon start?

ASSUME LoopAssumption ==
    /\ Hosts # {} /\ Blank \notin Hosts
    /\ HasTray \in BOOLEAN

VARIABLES
    pc,         \* how far the turn of the loop is
    running,    \* the loop's own flag
    mode,       \* AppMode
    busy, ended, state, launched,   \* the session, as SessionContract has it
    job,        \* what the last session was started for, and is it over?
    seen,       \* session_status, this turn's copy of the status
    linking,    \* connecting_address
    warp,       \* the scene's warp target, and whether it is at 0.95 or more
    latch,      \* pair_in_flight, pair_address, pair_error, pair_modal_open
    actions,    \* InputActions of this turn
    grab,       \* input_grabbed
    renderer,   \* vrenderer_active
    dialog      \* show_pin_dialog, and whether a frame has drawn it

session == <<busy, ended, state, launched, job>>
window  == <<actions, grab, renderer, dialog>>
scene   == <<linking, warp>>
vars    == <<pc, running, mode, session, seen, scene, latch, window>>

Session == INSTANCE SessionContract WITH running <- busy

-----------------------------------------------------------------------------
ViewerState == {"Idle", "Connecting", "PairingNeedPin", "PairingInProgress",
                "Streaming", "Failed"}
Settled     == {"Idle", "Failed"}
AppMode     == {"MainWindow", "Viewing", "HiddenToTray"}
Point       == {"boot", "events", "signals", "status", "frame", "call",
                "quit", "join", "stopped"}
Address     == Hosts \cup {Blank}
NoActions   == [quit |-> FALSE, toggle_grab |-> FALSE]

TypeOK ==
    /\ pc \in Point /\ mode \in AppMode
    /\ running \in BOOLEAN /\ busy \in BOOLEAN /\ ended \in BOOLEAN
    /\ launched \in BOOLEAN /\ grab \in BOOLEAN /\ renderer \in BOOLEAN
    /\ state \in ViewerState /\ seen \in ViewerState
    /\ job \in [kind : {"stream", "pair"}, host : Address, over : BOOLEAN]
    /\ linking \in Address
    /\ warp \in [target : {0, 1}, out : BOOLEAN]
    /\ latch \in [in_flight : BOOLEAN, address : Address, error : BOOLEAN,
                  modal : BOOLEAN]
    /\ actions \in [quit : BOOLEAN, toggle_grab : BOOLEAN]
    /\ dialog \in {"none", "asked", "drawn"}

Init ==
    /\ pc = "boot" /\ running = TRUE
    /\ mode \in {"MainWindow"} \cup IF HasTray THEN {"HiddenToTray"} ELSE {}
    /\ Session!Init
    /\ job = [kind |-> "stream", host |-> Blank, over |-> TRUE]
    /\ seen = "Idle" /\ linking = Blank
    /\ warp = [target |-> 0, out |-> FALSE]
    /\ latch = [in_flight |-> FALSE, address |-> Blank, error |-> FALSE,
                modal |-> FALSE]
    /\ actions = NoActions /\ grab = FALSE /\ renderer = FALSE
    /\ dialog = "none"

(* start_connect or start_pair: without an address, or while a session      *)
(* runs, it does nothing.                                                   *)
Start(kind, h) ==
    IF h = Blank \/ busy
    THEN pc' = "events" /\ UNCHANGED session
    ELSE /\ pc' = "call"
         /\ Session!Start
         /\ job' = [kind |-> kind, host |-> h, over |-> FALSE]

EndSession == Session!End /\ UNCHANGED job

(* A connect request from a card or the command line.                       *)
Connect(h) ==
    /\ linking' = h
    /\ warp' = [warp EXCEPT !.target = 1]
    /\ Start("stream", h)

Boot ==
    /\ pc = "boot"
    /\ \/ pc' = "events" /\ UNCHANGED <<session, scene>>
       \/ \E h \in Hosts : Connect(h)
    /\ UNCHANGED <<running, mode, seen, latch, window>>

(* The rest of start_*, on this thread: Connecting is shown before it       *)
(* returns.                                                                 *)
Publish ==
    /\ pc = "call"
    /\ Session!Progress /\ state' = "Connecting"
    /\ pc' = "events"
    /\ UNCHANGED <<running, mode, job, seen, scene, latch, window>>

-----------------------------------------------------------------------------
(* Events. *)

(* leave_viewing_ui.                                                        *)
LeaveViewing == grab' = FALSE /\ renderer' = FALSE

CloseWindow ==
    /\ pc = "events"
    /\ IF ~HasTray
       THEN running' = FALSE /\ UNCHANGED <<mode, session, grab, renderer>>
       ELSE /\ IF mode = "Viewing" \/ state = "Streaming"
               THEN LeaveViewing /\ EndSession
               ELSE UNCHANGED <<session, grab, renderer>>
            /\ mode' = "HiddenToTray"
            /\ UNCHANGED running
    /\ UNCHANGED <<pc, seen, scene, latch, actions, dialog>>

(* The escape combos, which only a shown stream takes.                      *)
Combo ==
    /\ pc = "events" /\ mode = "Viewing"
    /\ \E a \in {"quit", "toggle_grab"} :
           actions' = [actions EXCEPT ![a] = TRUE]
    /\ UNCHANGED <<pc, running, mode, session, seen, scene, latch, grab,
                   renderer, dialog>>

EventsDone ==
    /\ pc = "events" /\ pc' = "signals"
    /\ UNCHANGED <<running, mode, session, seen, scene, latch, window>>

-----------------------------------------------------------------------------
(* The tray menu, a second launch and a machine that asks to pair. *)

Show ==
    /\ pc = "signals"
    /\ mode' = "MainWindow"
    /\ UNCHANGED <<pc, running, session, seen, scene, latch, window>>

TrayQuit ==
    /\ pc = "signals" /\ HasTray
    /\ running' = FALSE
    /\ UNCHANGED <<pc, mode, session, seen, scene, latch, window>>

PinRequest ==
    /\ pc = "signals" /\ running
    /\ dialog' = "asked" /\ mode' = "MainWindow"
    /\ UNCHANGED <<pc, running, session, seen, scene, latch, actions, grab,
                   renderer>>

SignalsDone ==
    /\ pc = "signals"
    /\ pc' = IF running THEN "status" ELSE "quit"
    /\ UNCHANGED <<running, mode, session, seen, scene, latch, window>>

-----------------------------------------------------------------------------
(* What one reading of the status decides. *)

(* Fault: the case of a pairing in progress falls through.                  *)
ResolveLatchThrough ==
    latch' = IF latch.in_flight /\ state \in Settled \cup {"PairingInProgress"}
             THEN [latch EXCEPT !.in_flight = FALSE, !.modal = FALSE]
             ELSE latch

(* A settled status is the outcome of the pairing: a failure is kept for    *)
(* the modal, anything else closes it and applies the port and nickname     *)
(* that were typed with the address.                                        *)
ResolveLatch ==
    latch' = CASE latch.in_flight /\ state = "Failed" ->
                    [latch EXCEPT !.in_flight = FALSE, !.error = TRUE]
               [] latch.in_flight /\ state = "Idle" ->
                    [latch EXCEPT !.in_flight = FALSE, !.modal = FALSE]
               [] OTHER -> latch

(* Enter Viewing once the warp is out, leave it when the stream is over.    *)
ChooseMode ==
    IF state = "Streaming" /\ warp.out
    THEN IF mode = "HiddenToTray"
         THEN UNCHANGED <<mode, grab, renderer>>
         ELSE /\ mode' = "Viewing"
              /\ grab' = (mode # "Viewing" \/ grab)
              /\ UNCHANGED renderer
    ELSE IF mode = "Viewing"
         THEN mode' = "MainWindow" /\ LeaveViewing
         ELSE UNCHANGED <<mode, grab, renderer>>

(* Fault: the address is kept while Connecting or Streaming only.           *)
SettlePairing ==
    /\ linking' = IF state \in {"Connecting", "Streaming"} THEN linking
                                                            ELSE Blank
    /\ warp' = IF state \in Settled \/ (mode = "Viewing" /\ mode' # "Viewing")
               THEN [warp EXCEPT !.target = 0] ELSE warp

Settle ==
    /\ linking' = IF state \in Settled THEN Blank ELSE linking
    /\ warp' = IF state \in Settled \/ (mode = "Viewing" /\ mode' # "Viewing")
               THEN [warp EXCEPT !.target = 0] ELSE warp

ReadStatus ==
    /\ pc = "status"
    /\ seen' = state
    /\ ResolveLatch /\ ChooseMode /\ Settle
    /\ actions' = IF mode' = "Viewing" THEN actions ELSE NoActions
    /\ pc' = IF mode' = "HiddenToTray" THEN "events" ELSE "frame"
    /\ UNCHANGED <<running, session, dialog>>

-----------------------------------------------------------------------------
(* Frames. *)

(* A frame of the remote desktop and what the top bar or a combo asked for. *)
(* The renderer is created once the stream's size is known.                 *)
ViewingFrame ==
    /\ pc = "frame" /\ mode = "Viewing"
    /\ renderer' \in {renderer, TRUE}
    /\ \/ EndSession
       \/ ~actions.quit /\ UNCHANGED session
    /\ grab' = (grab # actions.toggle_grab)
    /\ actions' = NoActions
    /\ pc' = "events"
    /\ UNCHANGED <<running, mode, seen, scene, latch, dialog>>

(* A frame of the Bridge, in which scene::draw eases the warp towards its   *)
(* target.  A click is one of those the frame offered; the session can only *)
(* have come to rest since it was asked whether it is busy, so an offer is  *)
(* never outdated.                                                          *)
BridgeFrame(eased) ==
    /\ pc = "frame" /\ mode = "MainWindow"
    /\ eased \in {warp.out, warp.target = 1}
    /\ dialog' = IF dialog = "none" THEN "none" ELSE "drawn"
    /\ UNCHANGED <<running, mode, seen, actions, grab, renderer>>

Eased(out) == warp' = [warp EXCEPT !.out = out]

NoClick(out) ==
    /\ BridgeFrame(out) /\ Eased(out)
    /\ pc' = "events"
    /\ UNCHANGED <<session, linking, latch>>

(* Fault: the scene stays where it is.                                      *)
ClickConnectStill(out) ==
    /\ BridgeFrame(out) /\ ~busy /\ Eased(out)
    /\ \E h \in Hosts : linking' = h /\ Start("stream", h)
    /\ UNCHANGED latch

ClickConnect(out) ==
    /\ BridgeFrame(out) /\ ~busy
    /\ \E h \in Hosts :
           /\ linking' = h /\ warp' = [target |-> 1, out |-> out]
           /\ Start("stream", h)
    /\ UNCHANGED latch

OpenPair(out) ==
    /\ BridgeFrame(out) /\ Eased(out)
    /\ latch' = [latch EXCEPT !.modal = TRUE]
    /\ pc' = "events"
    /\ UNCHANGED <<session, linking>>

(* A pairing is shown for the latch, and for a connect that needs one.      *)
PairingShown ==
    \/ seen \in {"PairingNeedPin", "PairingInProgress"}
    \/ latch.in_flight /\ seen = "Connecting"

ClickPair(out) ==
    /\ BridgeFrame(out) /\ Eased(out)
    /\ latch.modal /\ ~busy /\ ~PairingShown
    /\ \E a \in Address :
           /\ latch' = [latch EXCEPT !.in_flight = TRUE, !.address = a,
                                     !.error = FALSE]
           /\ Start("pair", a)
    /\ UNCHANGED linking

(* Cancel while a pairing is shown, Disconnect while a session is linked.   *)
ClickEnd(out) ==
    /\ BridgeFrame(out) /\ Eased(out)
    /\ (latch.modal /\ PairingShown) \/ seen \in {"Connecting", "Streaming"}
    /\ EndSession
    /\ pc' = "events"
    /\ UNCHANGED <<linking, latch>>

ClosePair(out) ==
    /\ BridgeFrame(out) /\ Eased(out)
    /\ latch.modal /\ ~PairingShown
    /\ latch' = [latch EXCEPT !.modal = FALSE, !.error = FALSE]
    /\ pc' = "events"
    /\ UNCHANGED <<session, linking>>

(* The dialog's own buttons, which a frame of the Bridge handles.           *)
AnswerPin ==
    /\ pc = "frame" /\ mode = "MainWindow" /\ dialog = "drawn"
    /\ dialog' = "none"
    /\ UNCHANGED <<pc, running, mode, session, seen, scene, latch, actions,
                   grab, renderer>>

Click(out) ==
    \/ ClickConnect(out) \/ OpenPair(out) \/ ClickPair(out)
    \/ ClickEnd(out) \/ ClosePair(out)

Bridge == \E out \in BOOLEAN : NoClick(out) \/ Click(out)

-----------------------------------------------------------------------------
(* Shutdown: the session is ended, and destroyed with its worker joined.    *)

(* Fault: it is joined without having been ended.                           *)
QuitJoining ==
    /\ pc = "quit" /\ pc' = "join"
    /\ UNCHANGED <<running, mode, session, seen, scene, latch, window>>

Quit ==
    /\ pc = "quit" /\ pc' = "join"
    /\ EndSession
    /\ UNCHANGED <<running, mode, seen, scene, latch, window>>

Join ==
    /\ pc = "join" /\ ~busy
    /\ pc' = "stopped"
    /\ UNCHANGED <<running, mode, session, seen, scene, latch, window>>

Stopped == pc = "stopped" /\ UNCHANGED vars

-----------------------------------------------------------------------------
(* The session's worker, which start_* has spawned.  One that pairs never   *)
(* starts an application; one that reported its outcome only rests.         *)
Worker(step) ==
    /\ pc # "call" /\ step
    /\ job.kind = "pair" => state' # "Streaming" /\ ~launched'
    /\ UNCHANGED <<pc, running, mode, seen, scene, latch, window>>

Advance ==
    /\ ~job.over /\ UNCHANGED job
    /\ Worker(Session!Progress \/ Session!LaunchApp)
QuitApp == Worker(Session!QuitApp) /\ UNCHANGED job
Report  == Worker(Session!Report) /\ job' = [job EXCEPT !.over = TRUE]
Rest    == Worker(Session!Rest) /\ UNCHANGED job

User == CloseWindow \/ Combo \/ Show \/ TrayQuit \/ PinRequest \/ AnswerPin
Loop == \/ Boot \/ Publish \/ EventsDone \/ SignalsDone \/ ReadStatus
        \/ ViewingFrame \/ Bridge \/ Quit \/ Join
Next == User \/ Loop \/ Advance \/ QuitApp \/ Report \/ Rest \/ Stopped

Spec == Init /\ [][Next]_vars

(* The loop keeps turning, and each frame of the Bridge is drawn, so that   *)
(* the warp arrives where it is going; a session that was asked to end      *)
(* unwinds (SessionContract!EndHonoured, which ViewerSession keeps).        *)
FairSpec ==
    /\ Spec
    /\ WF_vars(Loop)
    /\ SF_vars(NoClick(warp.target = 1))
    /\ WF_vars(ended /\ QuitApp) /\ WF_vars(ended /\ Report) /\ WF_vars(Rest)

-----------------------------------------------------------------------------
(* What a session that was started and has no outcome yet is known for.     *)
Known ==
    /\ job.kind = "stream" => linking = job.host
    /\ job.kind = "pair" => latch.in_flight /\ latch.address = job.host

(* The inductive invariant: types; a session at rest has an outcome; one    *)
(* being started, or without an outcome, is known to the loop.              *)
IInv ==
    /\ TypeOK
    /\ pc = "boot" => ~busy
    /\ ~busy => job.over
    /\ pc = "call" => busy /\ state \in Settled /\ ~job.over
    /\ pc # "call" => job.over = (state \in Settled)
    /\ ~job.over => Known
    /\ state = "Streaming" => job.kind = "stream"
    /\ linking # Blank /\ job.kind = "stream" => linking = job.host

(* A pairing under way is always watched: until its outcome is there, the   *)
(* latch stays set, and for this pairing's machine.                         *)
PairingIsWatched ==
    job.kind = "pair" /\ ~job.over =>
        latch.in_flight /\ latch.address = job.host

(* While a session is linked, connecting or streaming, the machine the card *)
(* and the session label name is the one it was started for.                *)
LabelNamesTheHost ==
    /\ state = "Streaming" => linking = job.host
    /\ linking # Blank /\ job.kind = "stream" => linking = job.host

(* A stream that starts while the window is open is shown, unless it ends   *)
(* or the user looks away first: the warp never stalls on its way out.      *)
StreamIsShown ==
    (state = "Streaming" /\ mode = "MainWindow" /\ running)
        ~> (mode # "MainWindow" \/ state # "Streaming" \/ ~running)

(* What that rests on: from the request to the outcome of a stream the scene *)
(* eases towards it, whatever the window does, and the remote desktop is     *)
(* shown of a stream that has not ended without the loop's notice.           *)
WarpGoesOut ==
    /\ job.kind = "stream" /\ ~job.over => warp.target = 1
    /\ mode = "Viewing" => warp.out /\ (state = "Streaming" \/ job.over)

(* Quitting comes to an end: whatever the session is doing when the loop is *)
(* left, the join of its worker returns.                                    *)
QuitStops == (pc = "quit") ~> (pc = "stopped")

(* What that rests on: the join is made of a session that was asked to end,  *)
(* nothing restarts one after that, and the program stops with none alive.   *)
QuitIsOrdered ==
    /\ pc \in {"join", "stopped"} => ended
    /\ pc = "stopped" => ~busy

(* The loop starts and ends sessions only as the contract allows it: seen    *)
(* through it, the session still behaves as one of SessionContract.          *)
KeepsToContract == Session!Spec

(* "Leaving Viewing: flush held input, release the grab, restore the hints, *)
(* and tear down the video renderer": none of it survives into a frame of   *)
(* the Bridge.                                                              *)
GrabOnlyWhileViewing ==
    pc = "frame" /\ mode # "Viewing" => ~grab /\ ~renderer
=============================================================================
