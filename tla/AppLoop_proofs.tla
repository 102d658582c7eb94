---------------------------- MODULE AppLoop_proofs ----------------------------
(***************************************************************************)
(* What the main loop shows of its session, for any set of machines: the   *)
(* inductive invariant IInv of AppLoop, and the invariants it gives.       *)
(***************************************************************************)
EXTENDS AppLoop, TLAPS

(* A start that goes ahead is of a session at rest, and is for the machine  *)
(* asked for.                                                               *)
LEMMA StartStep ==
    ASSUME NEW kind \in {"stream", "pair"}, NEW h \in Address,
           TypeOK, Start(kind, h)
    PROVE  /\ busy' \in BOOLEAN /\ ended' \in BOOLEAN
           /\ UNCHANGED <<launched, state>>
           /\ job' \in [kind : {"stream", "pair"}, host : Address,
                    over : BOOLEAN]
           /\ \/ pc' = "events" /\ UNCHANGED <<busy, job>>
                 /\ (h = Blank \/ busy = TRUE)
              \/ /\ pc' = "call" /\ busy = FALSE /\ busy' = TRUE
                 /\ h # Blank /\ job' = [kind |-> kind, host |-> h, over |-> FALSE]
<1>1. CASE h = Blank \/ busy
  <2>1. pc' = "events" /\ UNCHANGED session
        BY <1>1 DEF Start
  <2>2. UNCHANGED <<busy, ended, launched, state, job>>
        BY <2>1 DEF session
  <2> QED BY <1>1, <2>1, <2>2 DEF TypeOK
<1>2. CASE ~(h = Blank \/ busy)
  <2>1. pc' = "call" /\ Session!Start /\ job' = [kind |-> kind, host |-> h, over |-> FALSE]
        BY <1>2 DEF Start
  <2>2. busy' = TRUE /\ ended' = FALSE /\ UNCHANGED <<launched, state>>
        BY <2>1 DEF Session!Start
  <2> QED BY <1>2, <2>1, <2>2 DEF TypeOK
<1> QED BY <1>1, <1>2

(* Ending a session changes nothing but the request.                        *)
LEMMA EndStep ==
    ASSUME EndSession
    PROVE  ended' = TRUE /\ UNCHANGED <<busy, state, launched, job>>
BY DEF EndSession, Session!End

(* What a step of the worker does to the session, whichever it is.          *)
LEMMA WorkerStep ==
    ASSUME IInv, Advance \/ QuitApp \/ Report \/ Rest
    PROVE  /\ pc # "call" /\ busy = TRUE
           /\ busy' \in BOOLEAN /\ launched' \in BOOLEAN
           /\ state' \in ViewerState
           /\ job' = job \/ job' = [job EXCEPT !.over = TRUE]
           /\ job'.over = (state' \in Settled)
           /\ busy' = FALSE => job'.over
           /\ job.kind = "pair" => state' # "Streaming"
           /\ UNCHANGED <<pc, running, mode, ended, seen, scene, latch, window>>
<1> USE DEF IInv, TypeOK, Worker, Settled, ViewerState
<1>1. CASE Advance
  <2>1. CASE Worker(Session!Progress)
    <3>1. PICK s \in {"Connecting", "PairingNeedPin", "PairingInProgress",
                      "Streaming"} : state' = s
          BY <2>1 DEF Session!Progress
    <3>2. busy = TRUE /\ UNCHANGED <<busy, ended, launched>>
          BY <2>1 DEF Session!Progress
    <3>3. state' \notin Settled /\ job' = job /\ job.over = FALSE
          BY <1>1, <3>1 DEF Advance
    <3> QED BY <2>1, <3>1, <3>2, <3>3
  <2>2. CASE Worker(Session!LaunchApp)
    <3>1. busy = TRUE /\ launched' = TRUE /\ UNCHANGED <<busy, ended, state>>
          BY <2>2 DEF Session!LaunchApp
    <3>2. state \in {"Connecting", "PairingInProgress"}
          BY <2>2 DEF Session!LaunchApp
    <3>3. state' \notin Settled /\ job' = job /\ job.over = FALSE
          BY <1>1, <3>1, <3>2 DEF Advance
    <3> QED BY <2>2, <3>1, <3>2, <3>3
  <2> QED BY <1>1, <2>1, <2>2 DEF Advance
<1>2. CASE QuitApp
      BY <1>2 DEF QuitApp, Session!QuitApp
<1>3. CASE Report
      BY <1>3 DEF Report, Session!Report, Session!Terminal
<1>4. CASE Rest
      BY <1>4 DEF Rest, Session!Rest, Session!Terminal
<1> QED BY <1>1, <1>2, <1>3, <1>4

-----------------------------------------------------------------------------
LEMMA InitInv == Init => IInv
<1> SUFFICES ASSUME Init PROVE IInv
    OBVIOUS
<1>1. busy = FALSE /\ ended = FALSE /\ state = "Idle" /\ launched = FALSE
      BY DEF Init, Session!Init
<1>2. mode \in AppMode
      BY DEF Init, AppMode
<1>3. /\ job \in [kind : {"stream", "pair"}, host : Address, over : BOOLEAN]
      /\ warp \in [target : {0, 1}, out : BOOLEAN]
      /\ latch \in [in_flight : BOOLEAN, address : Address, error : BOOLEAN,
                    modal : BOOLEAN]
      /\ actions \in [quit : BOOLEAN, toggle_grab : BOOLEAN]
      BY DEF Init, Address, NoActions
<1>4. TypeOK
      BY <1>1, <1>2, <1>3 DEF Init, TypeOK, Point, ViewerState, Address
<1> QED BY <1>1, <1>4 DEF Init, IInv, Settled

(* A frame of the Bridge leaves the types of what it draws.                 *)
LEMMA BridgeTypes ==
    ASSUME TypeOK, NEW out \in BOOLEAN, BridgeFrame(out)
    PROVE  /\ dialog' \in {"none", "asked", "drawn"}
           /\ [warp EXCEPT !.out = out] \in [target : {0, 1}, out : BOOLEAN]
           /\ [target |-> 1, out |-> out] \in [target : {0, 1}, out : BOOLEAN]
           /\ UNCHANGED <<running, mode, seen, actions, grab, renderer>>
BY DEF TypeOK, BridgeFrame

(* A click that starts a session: whichever of the two it is, the loop      *)
(* knows the session it starts.                                             *)
LEMMA ConnectInv ==
    ASSUME IInv, NEW h \in Hosts, Start("stream", h), linking' = h,
           busy = FALSE,
           warp' \in [target : {0, 1}, out : BOOLEAN],
           dialog' \in {"none", "asked", "drawn"},
           UNCHANGED <<running, mode, seen, latch, actions, grab, renderer>>
    PROVE  IInv'
<1> h \in Address /\ h # Blank
    BY LoopAssumption DEF Address
<1> TypeOK BY DEF IInv
<1>1. /\ busy' \in BOOLEAN /\ ended' \in BOOLEAN
      /\ UNCHANGED <<launched, state>>
      /\ job' \in [kind : {"stream", "pair"}, host : Address,
                    over : BOOLEAN]
      /\ pc' = "call" /\ busy' = TRUE
      /\ job' = [kind |-> "stream", host |-> h, over |-> FALSE]
      BY StartStep
<1>2. TypeOK'
      BY <1>1 DEF TypeOK, Point
<1> QED BY <1>1, <1>2 DEF IInv, Known

LEMMA PairInv ==
    ASSUME IInv, NEW a \in Address, Start("pair", a), busy = FALSE,
           latch' = [latch EXCEPT !.in_flight = TRUE, !.address = a,
                                  !.error = FALSE],
           warp' \in [target : {0, 1}, out : BOOLEAN],
           dialog' \in {"none", "asked", "drawn"},
           UNCHANGED <<running, mode, seen, linking, actions, grab, renderer>>
    PROVE  IInv'
<1> TypeOK BY DEF IInv
<1>1. /\ busy' \in BOOLEAN /\ ended' \in BOOLEAN
      /\ UNCHANGED <<launched, state>>
      /\ job' \in [kind : {"stream", "pair"}, host : Address,
                    over : BOOLEAN]
      /\ \/ pc' = "events" /\ UNCHANGED <<busy, job>>
         \/ /\ pc' = "call" /\ busy' = TRUE
            /\ job' = [kind |-> "pair", host |-> a, over |-> FALSE]
      BY StartStep
<1>2. /\ latch' \in [in_flight : BOOLEAN, address : Address, error : BOOLEAN,
                     modal : BOOLEAN]
      /\ latch'.in_flight = TRUE /\ latch'.address = a
      BY DEF TypeOK
<1>3. TypeOK'
      BY <1>1, <1>2 DEF TypeOK, Point
<1>4. state \in Settled
      BY DEF IInv
<1> QED BY <1>1, <1>2, <1>3, <1>4 DEF IInv, Known, Settled

(* A step that leaves the session alone, and the loop's knowledge of one    *)
(* that is not over, keeps the invariant when it keeps the types.           *)
LEMMA QuietStep ==
    ASSUME IInv, TypeOK', pc # "call", pc' \notin {"call", "boot"},
           UNCHANGED <<busy, state, job>>,
           linking' = linking \/ linking' = Blank,
           ~job.over => /\ linking' = linking
                        /\ latch'.in_flight = latch.in_flight
                        /\ latch'.address = latch.address
    PROVE  IInv'
BY DEF IInv, Known

LEMMA StepInv == IInv /\ [Next]_vars => IInv'
<1> SUFFICES ASSUME IInv, [Next]_vars PROVE IInv'
    OBVIOUS
<1>t. TypeOK
      BY DEF IInv
<1> USE DEF IInv, TypeOK, Known, Point, AppMode, Settled, session, window,
            scene
<1>1. CASE Boot
  <2>1. CASE pc' = "events" /\ UNCHANGED <<session, scene>>
        BY <1>1, <2>1 DEF Boot
  <2>2. CASE \E h \in Hosts : Connect(h)
    <3>1. PICK h \in Hosts : Connect(h)
          BY <2>2
    <3>2. busy = FALSE
          BY <1>1 DEF Boot
    <3>3. warp' \in [target : {0, 1}, out : BOOLEAN]
          BY <3>1 DEF Connect
    <3> QED BY <1>1, <3>1, <3>2, <3>3, ConnectInv DEF Boot, Connect
  <2> QED BY <1>1, <2>1, <2>2 DEF Boot
<1>2. CASE Publish
  BY <1>2 DEF Publish, Session!Progress, ViewerState
<1>3. CASE CloseWindow
  <2>1. /\ running' \in BOOLEAN /\ grab' \in BOOLEAN /\ renderer' \in BOOLEAN
        /\ mode' \in AppMode /\ ended' \in BOOLEAN
        /\ UNCHANGED <<busy, state, launched, job>>
    <3>1. CASE UNCHANGED session
          BY <1>3, <3>1 DEF CloseWindow, LeaveViewing
    <3>2. CASE EndSession
          BY <1>3, <3>2, EndStep DEF CloseWindow, LeaveViewing
    <3> QED BY <1>3, <3>1, <3>2 DEF CloseWindow
  <2> QED BY <1>3, <2>1 DEF CloseWindow
<1>4. CASE Combo
  <2>1. actions' \in [quit : BOOLEAN, toggle_grab : BOOLEAN]
        BY <1>4 DEF Combo
  <2> QED BY <1>4, <2>1 DEF Combo
<1>5. CASE EventsDone
  BY <1>5 DEF EventsDone
<1>6. CASE Show
  BY <1>6 DEF Show
<1>7. CASE TrayQuit
  <2>1. running' \in BOOLEAN
        BY <1>7 DEF TrayQuit
  <2> QED BY <1>7, <2>1 DEF TrayQuit
<1>8. CASE PinRequest
  BY <1>8 DEF PinRequest
<1>9. CASE SignalsDone
  BY <1>9 DEF SignalsDone
<1>10. CASE ReadStatus
  <2>1. /\ mode' \in AppMode /\ grab' \in BOOLEAN /\ renderer' \in BOOLEAN
        BY <1>10 DEF ReadStatus, ChooseMode, LeaveViewing
  <2>2. actions' \in [quit : BOOLEAN, toggle_grab : BOOLEAN]
        BY <1>10 DEF ReadStatus, NoActions
  <2>3. /\ linking' \in Address
        /\ linking' = linking \/ (state \in Settled /\ linking' = Blank)
        /\ warp' \in [target : {0, 1}, out : BOOLEAN]
        BY <1>10 DEF ReadStatus, Settle, Address
  <2>4. /\ latch' \in [in_flight : BOOLEAN, address : Address, error : BOOLEAN,
                       modal : BOOLEAN]
        /\ latch' = latch \/ state \in Settled
        BY <1>10 DEF ReadStatus, ResolveLatch
  <2>5. pc' \in {"events", "frame"} /\ seen' = state
        /\ UNCHANGED <<running, busy, ended, state, launched, job, dialog>>
        BY <1>10 DEF ReadStatus
  <2>6. TypeOK'
        BY <2>1, <2>2, <2>3, <2>4, <2>5
  <2>7. pc = "status" /\ (state \in Settled => job.over)
        BY <1>10 DEF ReadStatus
  <2> QED BY <2>3, <2>4, <2>5, <2>6, <2>7, QuietStep
<1>11. CASE ViewingFrame
  <2>1. /\ renderer' \in BOOLEAN /\ grab' \in BOOLEAN
        /\ actions' \in [quit : BOOLEAN, toggle_grab : BOOLEAN]
        BY <1>11 DEF ViewingFrame, NoActions
  <2>2. ended' \in BOOLEAN /\ UNCHANGED <<busy, state, launched, job>>
        BY <1>11, EndStep DEF ViewingFrame
  <2> QED BY <1>11, <2>1, <2>2 DEF ViewingFrame
<1>12. CASE AnswerPin
  BY <1>12 DEF AnswerPin
<1>13. CASE Bridge
  <2>0. PICK out \in BOOLEAN : NoClick(out) \/ Click(out)
        BY <1>13 DEF Bridge
  <2>1. CASE NoClick(out)
    <3>1. TypeOK'
          BY <2>1, BridgeTypes DEF NoClick, Eased
    <3> QED BY <2>1, <3>1, QuietStep DEF NoClick, BridgeFrame
  <2>2. CASE ClickConnect(out)
        BY <2>2, BridgeTypes, ConnectInv DEF ClickConnect
  <2>3. CASE OpenPair(out)
    <3>1. latch' \in [in_flight : BOOLEAN, address : Address, error : BOOLEAN,
                      modal : BOOLEAN]
          /\ latch'.in_flight = latch.in_flight
          /\ latch'.address = latch.address
          BY <2>3 DEF OpenPair
    <3>2. TypeOK'
          BY <2>3, <3>1, BridgeTypes DEF OpenPair, Eased
    <3> QED BY <2>3, <3>1, <3>2, QuietStep DEF OpenPair, BridgeFrame
  <2>4. CASE ClickPair(out)
    <3>1. PICK a \in Address :
              /\ latch' = [latch EXCEPT !.in_flight = TRUE, !.address = a,
                                        !.error = FALSE]
              /\ Start("pair", a)
          BY <2>4 DEF ClickPair
    <3> QED BY <2>4, <3>1, BridgeTypes, PairInv DEF ClickPair, Eased
  <2>5. CASE ClickEnd(out)
    <3>1. TypeOK'
          BY <2>5, BridgeTypes, EndStep DEF ClickEnd, Eased
    <3> QED BY <2>5, <3>1, EndStep, QuietStep DEF ClickEnd, BridgeFrame
  <2>6. CASE ClosePair(out)
    <3>1. latch' \in [in_flight : BOOLEAN, address : Address, error : BOOLEAN,
                      modal : BOOLEAN]
          /\ latch'.in_flight = latch.in_flight
          /\ latch'.address = latch.address
          BY <2>6 DEF ClosePair
    <3>2. TypeOK'
          BY <2>6, <3>1, BridgeTypes DEF ClosePair, Eased
    <3> QED BY <2>6, <3>1, <3>2, QuietStep DEF ClosePair, BridgeFrame
  <2> QED BY <2>0, <2>1, <2>2, <2>3, <2>4, <2>5, <2>6 DEF Click
<1>14. CASE Quit
  BY <1>14, EndStep DEF Quit
<1>15. CASE Join
  BY <1>15 DEF Join
<1>16. CASE Advance \/ QuitApp \/ Report \/ Rest
  <2>1. /\ pc # "call" /\ busy = TRUE
        /\ busy' \in BOOLEAN /\ launched' \in BOOLEAN
        /\ state' \in ViewerState
        /\ job' = job \/ job' = [job EXCEPT !.over = TRUE]
        /\ job'.over = (state' \in Settled)
        /\ busy' = FALSE => job'.over
        /\ job.kind = "pair" => state' # "Streaming"
        /\ UNCHANGED <<pc, running, mode, ended, seen, linking, warp,
                       latch, actions, grab, renderer, dialog>>
        BY <1>16, WorkerStep
  <2>2. /\ job' \in [kind : {"stream", "pair"}, host : Address, over : BOOLEAN]
        /\ job'.kind = job.kind /\ job'.host = job.host
        /\ job.over => job'.over
        BY <2>1
  <2>3. TypeOK'
        BY <2>1, <2>2
  <2> QED BY <2>1, <2>2, <2>3
<1>17. CASE Stopped \/ UNCHANGED vars
  BY <1>17 DEF Stopped, vars
<1> QED BY <1>1, <1>2, <1>3, <1>4, <1>5, <1>6, <1>7, <1>8, <1>9,
           <1>10, <1>11, <1>12, <1>13, <1>14, <1>15, <1>16, <1>17
        DEF Next, User, Loop

-----------------------------------------------------------------------------
(* The main thread's variables keep their types, and what the loop shows of *)
(* a session agrees with it, whatever the user and the worker do.           *)
THEOREM Invariance == Spec => []IInv
<1>1. Init => IInv
      BY InitInv
<1>2. IInv /\ [Next]_vars => IInv'
      BY StepInv
<1> QED BY <1>1, <1>2, PTL DEF Spec

(* The type invariant of the main loop.                                     *)
THEOREM TypeInvariant == Spec => []TypeOK
<1>1. IInv => TypeOK
      BY DEF IInv
<1> QED BY <1>1, Invariance, PTL

(* A pairing under way is always watched by the latch, for its machine.     *)
THEOREM PairingWatched == Spec => []PairingIsWatched
<1>1. IInv => PairingIsWatched
      BY DEF IInv, Known, PairingIsWatched
<1> QED BY <1>1, Invariance, PTL

(* The machine named as linked or streaming is the session's own.           *)
THEOREM LabelIsRight == Spec => []LabelNamesTheHost
<1>1. IInv => LabelNamesTheHost
      BY DEF IInv, Known, LabelNamesTheHost, Settled
<1> QED BY <1>1, Invariance, PTL

-----------------------------------------------------------------------------
(* A start leaves the scene to its caller; a step that leaves session and    *)
(* scene alone, and does not enter Viewing, keeps the warp's invariant.      *)
LEMMA WarpQuiet ==
    ASSUME WarpGoesOut, mode' \in {mode, "MainWindow", "HiddenToTray"},
           UNCHANGED <<job, state, warp>>
    PROVE  WarpGoesOut'
BY DEF WarpGoesOut

(* The remote desktop is never what the program opens with.                  *)
BootsOutside == pc = "boot" => mode # "Viewing"

LEMMA WarpStep ==
    IInv /\ BootsOutside /\ WarpGoesOut /\ [Next]_vars => WarpGoesOut'
<1> SUFFICES ASSUME IInv, BootsOutside, WarpGoesOut, [Next]_vars
             PROVE  WarpGoesOut'
    OBVIOUS
<1>t. TypeOK
      BY DEF IInv
<1> USE DEF session, window, scene
<1>1. CASE Boot
  <2>1. CASE UNCHANGED <<session, scene>>
        BY <1>1, <2>1, WarpQuiet DEF Boot
  <2>2. CASE \E h \in Hosts : Connect(h)
    <3>1. mode' # "Viewing" /\ warp' = [warp EXCEPT !.target = 1]
          BY <1>1, <2>2 DEF Boot, Connect, BootsOutside
    <3>2. warp'.target = 1
          BY <1>t, <3>1 DEF TypeOK
    <3> QED BY <3>1, <3>2 DEF WarpGoesOut
  <2> QED BY <1>1, <2>1, <2>2 DEF Boot
<1>2. CASE Publish
      BY <1>2 DEF Publish, Session!Progress, WarpGoesOut, IInv, Settled
<1>3. CASE CloseWindow
      BY <1>3, EndStep, WarpQuiet DEF CloseWindow
<1>4. CASE Combo \/ EventsDone \/ Show \/ TrayQuit \/ PinRequest \/ SignalsDone
           \/ AnswerPin \/ Join
      BY <1>4, WarpQuiet
      DEF Combo, EventsDone, Show, TrayQuit, PinRequest, SignalsDone,
          AnswerPin, Join
<1>5. CASE ReadStatus
  <2>1. UNCHANGED <<job, state>> /\ warp' \in {warp, [warp EXCEPT !.target = 0]}
        BY <1>5 DEF ReadStatus, Settle
  <2>2. pc = "status" /\ job.over = (state \in Settled)
        BY <1>5 DEF ReadStatus, IInv
  <2>3. CASE state \in Settled
    <3>1. mode' # "Viewing"
          BY <1>5, <2>3 DEF ReadStatus, ChooseMode, Settled, IInv, TypeOK, AppMode
    <3> QED BY <2>1, <2>2, <2>3, <3>1 DEF WarpGoesOut
  <2>4. CASE state \notin Settled
    <3>1. mode = "Viewing" => state = "Streaming" /\ warp.out
          BY <2>2, <2>4 DEF WarpGoesOut
    <3>2. mode' = "Viewing" => state = "Streaming" /\ warp.out
          BY <1>5 DEF ReadStatus, ChooseMode
    <3>3. mode = "Viewing" => mode' = "Viewing"
          BY <1>5, <3>1 DEF ReadStatus, ChooseMode
    <3>4. warp' = warp
          BY <1>5, <2>4, <3>3 DEF ReadStatus, Settle
    <3> QED BY <2>1, <3>2, <3>4 DEF WarpGoesOut
  <2> QED BY <2>3, <2>4
<1>6. CASE ViewingFrame
      BY <1>6, EndStep, WarpQuiet DEF ViewingFrame
<1>7. CASE Bridge
  <2>0. PICK out \in BOOLEAN : NoClick(out) \/ Click(out)
        BY <1>7 DEF Bridge
  <2>1. BridgeFrame(out)
        BY <2>0 DEF NoClick, Click, ClickConnect, OpenPair, ClickPair,
                    ClickEnd, ClosePair
  <2>2. mode' = "MainWindow" /\ pc = "frame"
        BY <2>1 DEF BridgeFrame
  <2>3. CASE ClickConnect(out)
        BY <2>2, <2>3 DEF ClickConnect, WarpGoesOut
  <2>4. CASE ClickPair(out)
    <3>1. PICK a \in Address : Start("pair", a)
          BY <2>4 DEF ClickPair
    <3>2. busy = FALSE /\ job.over
          BY <2>4 DEF ClickPair, IInv, TypeOK
    <3>3. job'.kind = "pair" \/ job' = job
      <4>1. CASE a = Blank \/ busy
            BY <3>1, <4>1 DEF Start
      <4>2. CASE ~(a = Blank \/ busy)
            BY <3>1, <4>2 DEF Start
      <4> QED BY <4>1, <4>2
    <3> QED BY <2>2, <3>2, <3>3 DEF WarpGoesOut
  <2>5. CASE NoClick(out) \/ OpenPair(out) \/ ClickEnd(out) \/ ClosePair(out)
    <3>1. job' = job /\ warp' = [warp EXCEPT !.out = out]
          BY <2>5, EndStep DEF NoClick, OpenPair, ClickEnd, ClosePair, Eased
    <3>2. warp'.target = warp.target
          BY <1>t, <3>1 DEF TypeOK
    <3> QED BY <2>2, <3>1, <3>2 DEF WarpGoesOut
  <2> QED BY <2>0, <2>3, <2>4, <2>5 DEF Click
<1>8. CASE Quit
      BY <1>8, EndStep, WarpQuiet DEF Quit
<1>9. CASE Advance \/ QuitApp \/ Report \/ Rest
  <2>1. UNCHANGED <<mode, warp>> /\ (job' = job \/ job' = [job EXCEPT !.over = TRUE])
        /\ pc # "call"
        BY <1>9, WorkerStep
  <2>2. job'.kind = job.kind /\ (job.over => job'.over)
        BY <1>t, <2>1 DEF TypeOK
  <2>3. state = "Streaming" => state' = "Streaming" \/ job'.over
    <3>1. CASE Advance
          BY <1>t, <3>1 DEF Advance, Worker, Session!Progress, Session!Flow,
                            Session!LaunchApp
    <3>2. CASE Report
          BY <1>t, <3>2 DEF Report, TypeOK
    <3>3. CASE QuitApp \/ Rest
          BY <3>3 DEF QuitApp, Rest, Worker, Session!QuitApp, Session!Rest
    <3> QED BY <1>9, <3>1, <3>2, <3>3
  <2> QED BY <2>1, <2>2, <2>3 DEF WarpGoesOut
<1>10. CASE Stopped \/ UNCHANGED vars
      BY <1>10, WarpQuiet DEF Stopped, vars
<1> QED BY <1>1, <1>2, <1>3, <1>4, <1>5, <1>6, <1>7, <1>8, <1>9, <1>10
        DEF Next, User, Loop

(* A stream that is under way is always on its way to the window.            *)
THEOREM WarpIsOnItsWay == Spec => []WarpGoesOut
<1>1. Init => BootsOutside /\ WarpGoesOut
      BY DEF Init, BootsOutside, WarpGoesOut
<1>2. BootsOutside /\ [Next]_vars => BootsOutside'
      BY DEF BootsOutside, Next, vars, User, Loop, Boot, Publish, CloseWindow,
             Combo, EventsDone, Show, TrayQuit, PinRequest, SignalsDone,
             ReadStatus, ViewingFrame, Bridge, NoClick, Click, ClickConnect,
             OpenPair, ClickPair, ClickEnd, ClosePair, BridgeFrame, AnswerPin,
             Start, Quit, Join, Advance, QuitApp, Report, Rest, Worker, Stopped
<1> QED BY <1>1, <1>2, WarpStep, Invariance, PTL DEF Spec

-----------------------------------------------------------------------------
LEMMA QuitStep == IInv /\ QuitIsOrdered /\ [Next]_vars => QuitIsOrdered'
<1> SUFFICES ASSUME IInv, QuitIsOrdered, [Next]_vars PROVE QuitIsOrdered'
    OBVIOUS
<1>t. TypeOK
      BY DEF IInv
<1> USE DEF session, QuitIsOrdered
<1>1. CASE Boot \/ Bridge
  <2>1. pc' \in {"events", "call"}
        BY <1>1 DEF Boot, Connect, Bridge, NoClick, Click, ClickConnect,
                    OpenPair, ClickPair, ClickEnd, ClosePair, Start
  <2> QED BY <2>1
<1>2. CASE Publish \/ EventsDone \/ SignalsDone \/ ReadStatus \/ ViewingFrame
      BY <1>2 DEF Publish, EventsDone, SignalsDone, ReadStatus, ViewingFrame
<1>3. CASE CloseWindow \/ Combo \/ Show \/ TrayQuit \/ PinRequest \/ AnswerPin
      BY <1>3 DEF CloseWindow, Combo, Show, TrayQuit, PinRequest, AnswerPin
<1>4. CASE Quit
      BY <1>4, EndStep DEF Quit
<1>5. CASE Join
      BY <1>5 DEF Join
<1>6. CASE Advance \/ QuitApp \/ Report \/ Rest
      BY <1>6, WorkerStep
<1>7. CASE Stopped \/ UNCHANGED vars
      BY <1>7 DEF Stopped, vars
<1> QED BY <1>1, <1>2, <1>3, <1>4, <1>5, <1>6, <1>7 DEF Next, User, Loop

(* The worker is asked to end before it is joined, and is gone when the      *)
(* program stops.                                                           *)
THEOREM QuitEndsTheSession == Spec => []QuitIsOrdered
<1>1. Init => QuitIsOrdered
      BY DEF Init, QuitIsOrdered
<1> QED BY <1>1, QuitStep, Invariance, PTL DEF Spec

-----------------------------------------------------------------------------
(* Every step of the loop or the worker is one the contract allows.          *)
LEMMA ContractStep ==
    IInv /\ [Next]_vars => [Session!Next]_(Session!contractVars)
<1> SUFFICES ASSUME IInv, [Next]_vars
             PROVE  Session!Next \/ UNCHANGED Session!contractVars
    OBVIOUS
<1> USE DEF session, Session!contractVars, Session!Next
<1>1. CASE Boot \/ Bridge
  <2>1. UNCHANGED session \/ EndSession \/ Session!Start
        BY <1>1 DEF Boot, Connect, Bridge, NoClick, Click, ClickConnect,
                    OpenPair, ClickPair, ClickEnd, ClosePair, Start
  <2> QED BY <2>1 DEF EndSession
<1>2. CASE Publish
      BY <1>2 DEF Publish
<1>3. CASE CloseWindow \/ ViewingFrame \/ Quit
      BY <1>3 DEF CloseWindow, ViewingFrame, Quit, EndSession
<1>4. CASE Combo \/ EventsDone \/ Show \/ TrayQuit \/ PinRequest \/ SignalsDone
           \/ AnswerPin \/ ReadStatus \/ Join
      BY <1>4 DEF Combo, EventsDone, Show, TrayQuit, PinRequest, SignalsDone,
                  AnswerPin, ReadStatus, Join
<1>5. CASE Advance \/ QuitApp \/ Report \/ Rest
      BY <1>5 DEF Advance, QuitApp, Report, Rest, Worker
<1>6. CASE Stopped \/ UNCHANGED vars
      BY <1>6 DEF Stopped, vars
<1> QED BY <1>1, <1>2, <1>3, <1>4, <1>5, <1>6 DEF Next, User, Loop

(* The application keeps to the contract that ViewerSession implements.      *)
THEOREM ApplicationKeepsContract == Spec => KeepsToContract
<1>1. Init => Session!Init
      BY DEF Init
<1> QED BY <1>1, ContractStep, Invariance, PTL
        DEF Spec, KeepsToContract, Session!Spec
=============================================================================
