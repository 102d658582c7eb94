--------------------------- MODULE SessionContract ---------------------------
(***************************************************************************)
(* What the rest of the application may rely on when it drives a viewer    *)
(* session (src/viewer/session.h): one session at a time, a status that    *)
(* only moves along the published order, a host whose application is quit  *)
(* before the outcome is reported, and an end request that is always       *)
(* honoured.  ViewerSession implements it; AppLoop is written against it.  *)
(***************************************************************************)

VARIABLES
    running,    \* busy(): a worker is alive
    ended,      \* the current session was asked to end
    state,      \* SessionStatus::state
    launched    \* an application started for this session runs on the host

contractVars == <<running, ended, state, launched>>

Terminal == {"Idle", "Failed"}

\* What may be reported next while a session makes progress.
Flow == { <<"Idle", "Connecting">>, <<"Failed", "Connecting">>,
          <<"Connecting", "PairingNeedPin">>,
          <<"PairingNeedPin", "PairingInProgress">>,
          <<"Connecting", "Streaming">>,
          <<"PairingInProgress", "Streaming">> }

Init ==
    /\ running = FALSE /\ ended = FALSE
    /\ state = "Idle" /\ launched = FALSE

(* start_connect or start_pair while nothing runs. *)
Start ==
    /\ ~running
    /\ running' = TRUE /\ ended' = FALSE
    /\ UNCHANGED <<state, launched>>

(* end_session, at any time. *)
End ==
    /\ ended' = TRUE
    /\ UNCHANGED <<running, state, launched>>

(* The status advances; Streaming is only shown of an application that was  *)
(* launched.                                                                *)
Progress ==
    /\ running
    /\ \E s \in {"Connecting", "PairingNeedPin", "PairingInProgress",
                 "Streaming"} :
           /\ <<state, s>> \in Flow
           /\ s = "Streaming" => launched
           /\ state' = s
    /\ UNCHANGED <<running, ended, launched>>

(* gs_start_app succeeds. *)
LaunchApp ==
    /\ running /\ ~launched
    /\ state \in {"Connecting", "PairingInProgress"}
    /\ launched' = TRUE
    /\ UNCHANGED <<running, ended, state>>

(* The application is quit, whatever the outcome will be. *)
QuitApp ==
    /\ running /\ launched
    /\ launched' = FALSE
    /\ UNCHANGED <<running, ended, state>>

(* The outcome.  Once a session has an application on the host it is quit   *)
(* before the outcome is shown, and in the very step that shows it only     *)
(* when the connection never started.                                       *)
Report ==
    /\ running /\ state \notin Terminal
    /\ launched => state # "Streaming" /\ ended
    /\ state' \in Terminal
    /\ launched' = FALSE
    /\ UNCHANGED <<running, ended>>

(* The worker is gone and the next session may start. *)
Rest ==
    /\ running /\ state \in Terminal /\ ~launched
    /\ running' = FALSE
    /\ UNCHANGED <<ended, state, launched>>

Next == Start \/ End \/ Progress \/ LaunchApp \/ QuitApp \/ Report \/ Rest

Spec == Init /\ [][Next]_contractVars

(* A session that was asked to end comes to rest.                           *)
EndHonoured == (running /\ ended) ~> ~running
=============================================================================
