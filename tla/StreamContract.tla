--------------------------- MODULE StreamContract ---------------------------
(***************************************************************************)
(* What the streaming core of the host promises to the code around it: a   *)
(* session is opened once, goes live at most once and is closed once, and  *)
(* the sockets and threads all sessions share are there for as long as one *)
(* of them holds them: they are never ended under a holder, and never      *)
(* joined while they end.  HostStream implements it.                       *)
(***************************************************************************)
CONSTANT Session

VARIABLES
    phase,      \* how far each session is
    holders,    \* the sessions that hold the shared context
    service     \* the shared context

contractVars == <<phase, holders, service>>

Init ==
    /\ phase = [s \in Session |-> "none"]
    /\ holders = {} /\ service = "down"

Move(s, from, to) ==
    /\ phase[s] \in from
    /\ phase' = [phase EXCEPT ![s] = to]

(* An ANNOUNCE opens a session. *)
Open(s) == Move(s, {"none"}, "opening") /\ UNCHANGED <<holders, service>>

(* It takes hold of the context, which is built for the first holder.       *)
Acquire(s) ==
    /\ phase[s] = "opening" /\ s \notin holders
    /\ service # "ending"
    /\ holders' = holders \cup {s} /\ service' = "up"
    /\ UNCHANGED phase

(* Only a holder goes live, and only a live session is told to stop.        *)
GoLive(s) ==
    /\ s \in holders
    /\ Move(s, {"opening"}, "live")
    /\ UNCHANGED <<holders, service>>

EndLive(S) ==
    /\ S # {} /\ \A s \in S : phase[s] = "live"
    /\ phase' = [s \in Session |-> IF s \in S THEN "ending" ELSE phase[s]]
    /\ UNCHANGED <<holders, service>>

(* A session is closed; with the last holder the context begins to end.     *)
Close(s) ==
    /\ Move(s, {"live", "ending"}, "closed")
    /\ s \in holders /\ holders' = holders \ {s}
    /\ service' = IF holders' = {} THEN "ending" ELSE service

(* A session that could not start holds nothing.                            *)
Abandon(s) ==
    /\ s \notin holders
    /\ Move(s, {"opening"}, "closed")
    /\ UNCHANGED <<holders, service>>

Ended ==
    /\ service = "ending" /\ service' = "down"
    /\ UNCHANGED <<phase, holders>>

Next ==
    \/ \E s \in Session : Open(s) \/ Acquire(s) \/ GoLive(s) \/ Close(s)
                          \/ Abandon(s)
    \/ \E S \in SUBSET Session : EndLive(S)
    \/ Ended

Spec == Init /\ [][Next]_contractVars
=============================================================================
