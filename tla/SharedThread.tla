----------------------------- MODULE SharedThread -----------------------------
(***************************************************************************)
(* What safe::shared_t (host/sunshine/src/thread_safe.h) promises of a     *)
(* thread that several users share through a counted reference: the first  *)
(* to take one starts the thread, the last to give one back joins it and   *)
(* keeps the lock until it has.  The thread may be over before that, by    *)
(* itself, but is never started beside another nor left without anybody    *)
(* who joins it.                                                           *)
(*                                                                         *)
(* VideoCapture implements it for the capture thread and the streams that  *)
(* encode, HostStream for the control thread and the sessions.             *)
(***************************************************************************)
CONSTANT User

VARIABLES
    holders,    \* the users that hold a reference
    worker,     \* the thread
    joining     \* the last reference is being given back, under the lock

sharedVars == <<holders, worker, joining>>

Init == holders = {} /\ worker = "none" /\ joining = FALSE

(* shared_t::ref constructs the object, and with it the thread, for the     *)
(* first user.                                                              *)
Ref(u) ==
    /\ ~joining /\ u \notin holders
    /\ holders' = holders \cup {u}
    /\ worker' = IF holders = {} THEN "running" ELSE worker
    /\ UNCHANGED joining

(* ptr_t::release destructs it for the last one.                            *)
Release(u) ==
    /\ ~joining /\ u \in holders
    /\ holders' = holders \ {u}
    /\ joining' = (holders' = {})
    /\ UNCHANGED worker

(* The thread's function returns.                                           *)
Returns ==
    /\ worker = "running" /\ worker' = "over"
    /\ UNCHANGED <<holders, joining>>

(* Its join does, and the lock is free again.                               *)
Joined ==
    /\ joining /\ worker = "over"
    /\ worker' = "none" /\ joining' = FALSE
    /\ UNCHANGED holders

Next == (\E u \in User : Ref(u) \/ Release(u)) \/ Returns \/ Joined

Spec == Init /\ [][Next]_sharedVars
=============================================================================
