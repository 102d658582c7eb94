----------------------------- MODULE PresenceCache -----------------------------
(***************************************************************************)
(* The presence poller (src/app/presence.cpp) and the wallpaper cache it   *)
(* feeds (src/app/wallcache.cpp), with the two things the main thread does *)
(* to them: it hands over the host list when that changed, and it removes  *)
(* hosts, which drops their cached files.                                  *)
(*                                                                         *)
(* One worker thread polls a copy of the target set, then downloads at     *)
(* most one wallpaper.  Whatever the main thread does in between meets     *)
(* that copy.  Files outlive the process, so the model has launches.  An   *)
(* image is identified with its hash; ports are left out.                  *)
(***************************************************************************)
EXTENDS Naturals

CONSTANTS
    Hosts,          \* addresses; numbers, for std::map visits them in order
    Hashes,         \* wallpapers
    Movers,         \* bound: the other hosts always answer and always
                    \* advertise one and the same wallpaper
    MaxLaunches     \* bound: how often the application is started

ASSUME CacheAssumption ==
    /\ Hosts \subseteq Nat \ {0}
    /\ "none" \notin Hashes /\ "unknown" \notin Hashes
    /\ Movers \subseteq Hosts
    /\ MaxLaunches \in Nat

VARIABLES
    main,           \* control point of the main thread ...
    removing,       \* ... and the host whose removal it is in the middle of
    saved,          \* Settings::hosts, in memory and on disk
    poll_targets,   \* g_poll_targets
    results,        \* g_results
    running,        \* g_running
    cancel,         \* g_cancel_requested
    worker,         \* control point of the presence worker
    targets, todo,  \* its copy of the targets, and those not polled yet
    polled,         \* wallpaper_targets: the hash each host advertised
    scan, hit,      \* sync's loop: hosts to look at; the one found on disk
    last,           \* g_last_attempted_address, 0 for ""
    forgotten,      \* hosts forgotten since sync last read g_forget_seq
    files,          \* the wallpapers directory
    index,          \* g_index; "none" is a cached negative
    online, wall,   \* the machines: which answer, what each advertises
    launches        \* starts of the application so far

mainVars  == <<main, removing, saved>>
shared    == <<poll_targets, results, running, cancel>>
passVars  == <<targets, todo, polled>>
syncVars  == <<scan, hit, last, forgotten>>
cacheVars == <<files, index>>
hostVars  == <<online, wall>>
vars      == <<mainVars, shared, worker, passVars, syncVars, cacheVars,
               hostVars, launches>>

-----------------------------------------------------------------------------
MainPoint   == {"free", "forget", "cancel", "join", "stopped"}
SyncPoint   == {"scan", "hit", "fetch", "check", "prune", "discard"}
WorkerPoint == SyncPoint \cup {"none", "top", "poll", "decide", "enter",
                               "sleep", "dead"}
Presence    == {"absent", "offline", "online"}
Advertised  == Hashes \cup {"none"}
File        == [host : Hosts, hash : Hashes, image : Hashes]

OfHost(h)    == {f \in files : f.host = h}
Named(h, x)  == {f \in files : f.host = h /\ f.hash = x}

Init ==
    /\ main = "free" /\ removing = 0 /\ saved = {}
    /\ poll_targets = {} /\ results = [h \in Hosts |-> "absent"]
    /\ running = FALSE /\ cancel = FALSE /\ worker = "none"
    /\ targets = {} /\ todo = {} /\ polled = [h \in Hosts |-> "none"]
    /\ scan = {} /\ hit = 0 /\ last = 0 /\ forgotten = {}
    /\ files = {} /\ index = [h \in Hosts |-> "unknown"]
    /\ online \in {S \in SUBSET Hosts : Hosts \ Movers \subseteq S}
    /\ wall \in {w \in [Hosts -> Advertised] :
                    \A h \in Hosts \ Movers : w[h] # "none"}
    /\ launches = 1

-----------------------------------------------------------------------------
(* The main thread. *)

(* A paired machine joins the list.                                         *)
AddHost(h) ==
    /\ main \in {"free", "forget"} /\ h \notin saved
    /\ saved' = saved \cup {h}
    /\ UNCHANGED <<main, removing, shared, worker, passVars, syncVars,
                   cacheVars, hostVars, launches>>

(* Settings::remove_host erases and saves, and only then ...                *)
RemoveHost(h) ==
    /\ main = "free" /\ h \in saved
    /\ saved' = saved \ {h}
    /\ main' = "forget" /\ removing' = h
    /\ UNCHANGED <<shared, worker, passVars, syncVars, cacheVars, hostVars,
                   launches>>

(* ... calls wallcache::forget.                                             *)
Forget ==
    /\ main = "forget"
    /\ forgotten' = forgotten \cup {removing}
    /\ files' = files \ OfHost(removing)
    /\ index' = [index EXCEPT ![removing] = "unknown"]
    /\ main' = "free" /\ removing' = 0
    /\ UNCHANGED <<saved, shared, worker, passVars, scan, hit, last,
                   hostVars, launches>>

(* A frame finds the list changed and calls presence::start.                *)
Start ==
    /\ main = "free" /\ saved # poll_targets
    /\ poll_targets' = saved
    /\ results' = [h \in Hosts |->
                       IF h \in saved THEN results[h] ELSE "absent"]
    /\ IF worker = "none"
         THEN cancel' = FALSE /\ running' = TRUE /\ worker' = "top"
         ELSE UNCHANGED <<cancel, running, worker>>
    /\ UNCHANGED <<mainVars, passVars, syncVars, cacheVars, hostVars,
                   launches>>

(* wallcache::path_for: some cached file of the host, or none.              *)
PathFor(h) ==
    /\ main = "free" /\ h \in saved /\ index[h] = "unknown"
    /\ \E x \in {f.hash : f \in OfHost(h)}
                  \cup (IF OfHost(h) = {} THEN {"none"} ELSE {}) :
           index' = [index EXCEPT ![h] = x]
    /\ UNCHANGED <<mainVars, shared, worker, passVars, syncVars, files,
                   hostVars, launches>>

(* presence::stop: the flag, the cancel, the join.                          *)
Stop ==
    /\ main = "free"
    /\ main' = "cancel"
    /\ running' = FALSE
    /\ UNCHANGED <<removing, saved, poll_targets, results, cancel, worker,
                   passVars, syncVars, cacheVars, hostVars, launches>>

Cancel ==
    /\ main = "cancel"
    /\ main' = "join"
    /\ cancel' = TRUE
    /\ UNCHANGED <<removing, saved, poll_targets, results, running, worker,
                   passVars, syncVars, cacheVars, hostVars, launches>>

Join ==
    /\ main = "join" /\ worker \in {"none", "dead"}
    /\ main' = "stopped"
    /\ worker' = "none"
    /\ poll_targets' = {} /\ results' = [h \in Hosts |-> "absent"]
    /\ UNCHANGED <<removing, saved, running, cancel, passVars, syncVars,
                   cacheVars, hostVars, launches>>

(* The process ends, killed or after stop, and is started again: the list   *)
(* and the files are what is left of it.                                    *)
Relaunch ==
    /\ launches < MaxLaunches
    /\ launches' = launches + 1
    /\ main' = "free" /\ removing' = 0
    /\ poll_targets' = {} /\ results' = [h \in Hosts |-> "absent"]
    /\ running' = FALSE /\ cancel' = FALSE /\ worker' = "none"
    /\ targets' = {} /\ todo' = {} /\ polled' = [h \in Hosts |-> "none"]
    /\ scan' = {} /\ hit' = 0 /\ last' = 0 /\ forgotten' = {}
    /\ index' = [h \in Hosts |-> "unknown"]
    /\ UNCHANGED <<saved, files, hostVars>>

-----------------------------------------------------------------------------
(* The worker: one pass. *)

First(S) == CHOOSE h \in S : \A k \in S : h <= k

Goto(from, to) ==
    /\ worker = from /\ worker' = to
    /\ UNCHANGED <<mainVars, poll_targets, running, cancel, hostVars,
                   launches>>

(* The pass is over and its local copies are gone.                          *)
EndPass(from) ==
    /\ Goto(from, "sleep")
    /\ targets' = {} /\ todo' = {} /\ polled' = [h \in Hosts |-> "none"]
    /\ scan' = {}
    /\ UNCHANGED <<results, hit, last, forgotten>>

CopyTargets ==
    /\ running
    /\ Goto("top", "poll")
    /\ targets' = poll_targets /\ todo' = poll_targets
    /\ polled' = [h \in Hosts |-> "none"]
    /\ UNCHANGED <<results, syncVars, cacheVars>>

Exit ==
    /\ ~running
    /\ Goto("top", "dead")
    /\ UNCHANGED <<results, passVars, syncVars, cacheVars>>

PollHost(h) ==
    /\ running /\ h \in todo /\ h = First(todo)
    /\ Goto("poll", "poll")
    /\ todo' = todo \ {h}
    /\ IF h \in online
         THEN /\ results' = [results EXCEPT ![h] = "online"]
              /\ polled' = [polled EXCEPT ![h] = wall[h]]
         ELSE /\ results' = [results EXCEPT ![h] = "offline"]
              /\ UNCHANGED polled
    /\ UNCHANGED <<targets, syncVars, cacheVars>>

PollsDone ==
    /\ ~running \/ todo = {}
    /\ Goto("poll", "decide")
    /\ UNCHANGED <<results, passVars, syncVars, cacheVars>>

(* sync is skipped once stop was requested, but stop may come right after.  *)
EnterSync ==
    /\ running
    /\ Goto("decide", "enter")
    /\ UNCHANGED <<results, passVars, syncVars, cacheVars>>

SkipSync ==
    /\ ~running
    /\ EndPass("decide")
    /\ UNCHANGED cacheVars

(* Fault: sync clears a cancel on entry.                                    *)
BeginSyncClearing ==
    /\ worker = "enter" /\ worker' = "scan"
    /\ scan' = targets \ todo
    /\ cancel' = FALSE
    /\ UNCHANGED <<mainVars, poll_targets, results, running, passVars, hit,
                   last, forgotten, cacheVars, hostVars, launches>>

BeginSync ==
    /\ Goto("enter", "scan")
    /\ scan' = targets \ todo
    /\ UNCHANGED <<results, passVars, hit, last, forgotten, cacheVars>>

(* Fault: every scan starts at the front.                                   *)
NextInScanFront == First(scan)

(* Round robin from the host after the one attempted last.                  *)
NextInScan ==
    LET after == {h \in scan : h > last}
    IN  IF last \in targets \ todo /\ after # {} THEN First(after)
                                                 ELSE First(scan)

Skip(h) ==
    /\ h \in scan /\ h = NextInScan /\ polled[h] = "none"
    /\ Goto("scan", "scan")
    /\ scan' = scan \ {h}
    /\ UNCHANGED <<results, passVars, hit, last, forgotten, cacheVars>>

(* Fault: any file of the host counts as current.                           *)
FoundAny(h) ==
    /\ h \in scan /\ h = NextInScan /\ polled[h] # "none"
    /\ OfHost(h) # {}
    /\ Goto("scan", "hit")
    /\ scan' = scan \ {h} /\ hit' = h
    /\ UNCHANGED <<results, passVars, last, forgotten, cacheVars>>

(* The file exists: it is entered into the index under the lock, later.     *)
Found(h) ==
    /\ h \in scan /\ h = NextInScan /\ polled[h] # "none"
    /\ Named(h, polled[h]) # {}
    /\ Goto("scan", "hit")
    /\ scan' = scan \ {h} /\ hit' = h
    /\ UNCHANGED <<results, passVars, last, forgotten, cacheVars>>

IndexHit ==
    /\ Goto("hit", "scan")
    /\ index' = [index EXCEPT ![hit] = polled[hit]]
    /\ hit' = 0
    /\ UNCHANGED <<results, passVars, scan, last, forgotten, files>>

(* The one attempt of this pass; g_forget_seq is read before it.            *)
Attempt(h) ==
    /\ h \in scan /\ h = NextInScan /\ polled[h] # "none"
    /\ Named(h, polled[h]) = {}
    /\ Goto("scan", "fetch")
    /\ scan' = {} /\ last' = h /\ forgotten' = {}
    /\ UNCHANGED <<results, passVars, hit, cacheVars>>

NothingToDo ==
    /\ scan = {}
    /\ EndPass("scan")
    /\ UNCHANGED cacheVars

(* The host serves the wallpaper it has now; the rename puts it in place.   *)
Download ==
    /\ last \in online /\ wall[last] # "none"
    /\ Goto("fetch", "check")
    /\ files' = files \cup {[host |-> last, hash |-> polled[last],
                             image |-> wall[last]]}
    /\ UNCHANGED <<results, passVars, syncVars, index>>

(* No answer, no image, not paired, or the disk is full; nothing is left.   *)
DownloadFailed ==
    /\ EndPass("fetch")
    /\ UNCHANGED cacheVars

(* The progress callback aborts the transfer.                               *)
Abort == cancel /\ DownloadFailed

(* Fault: the forget counter is not compared.                               *)
CheckBlind ==
    /\ Goto("check", "prune")
    /\ index' = [index EXCEPT ![last] = polled[last]]
    /\ UNCHANGED <<results, passVars, syncVars, files>>

(* Under the lock: has anything been forgotten meanwhile?                   *)
Check ==
    /\ \/ /\ forgotten = {}
          /\ Goto("check", "prune")
          /\ index' = [index EXCEPT ![last] = polled[last]]
       \/ /\ forgotten # {}
          /\ Goto("check", "discard")
          /\ UNCHANGED index
    /\ UNCHANGED <<results, passVars, syncVars, files>>

(* Fault: pruning keeps nothing.                                            *)
PruneAll ==
    /\ EndPass("prune")
    /\ files' = files \ OfHost(last)
    /\ UNCHANGED index

Prune ==
    /\ EndPass("prune")
    /\ files' = files \ (OfHost(last) \ Named(last, polled[last]))
    /\ UNCHANGED index

Discard ==
    /\ EndPass("discard")
    /\ files' = files \ Named(last, polled[last])
    /\ UNCHANGED index

(* The poll interval, cut short by stop.                                    *)
Wake ==
    /\ Goto("sleep", "top")
    /\ UNCHANGED <<results, passVars, syncVars, cacheVars>>

Worker ==
    \/ CopyTargets \/ Exit \/ PollsDone \/ EnterSync \/ SkipSync \/ BeginSync
    \/ \E h \in Hosts : PollHost(h) \/ Skip(h) \/ Found(h) \/ Attempt(h)
    \/ IndexHit \/ NothingToDo
    \/ Check \/ Prune \/ Discard \/ Wake

-----------------------------------------------------------------------------
(* The machines come and go and change their wallpapers. *)

HostComesOrGoes(h) ==
    /\ online' = IF h \in online THEN online \ {h} ELSE online \cup {h}
    /\ UNCHANGED <<mainVars, shared, worker, passVars, syncVars, cacheVars,
                   wall, launches>>

ChangeWallpaper(h, x) ==
    /\ wall' = [wall EXCEPT ![h] = x]
    /\ UNCHANGED <<mainVars, shared, worker, passVars, syncVars, cacheVars,
                   online, launches>>

-----------------------------------------------------------------------------
Stopped == main = "stopped" /\ UNCHANGED vars

Next ==
    \/ \E h \in Hosts : AddHost(h) \/ RemoveHost(h) \/ PathFor(h)
    \/ Forget \/ Start \/ Stop \/ Cancel \/ Join \/ Relaunch
    \/ Worker \/ Download \/ DownloadFailed \/ Abort
    \/ \E h \in Movers : HostComesOrGoes(h)
    \/ \E h \in Movers, x \in Advertised : ChangeWallpaper(h, x)
    \/ Stopped

Spec == Init /\ [][Next]_vars

(* Both threads keep running.  A poll has its 2 s timeout and a transfer    *)
(* its 35 s, but once stop was requested nobody waits for those: only the   *)
(* progress callback is relied on then.                                     *)
FairSpec ==
    /\ Spec
    /\ WF_vars(Forget) /\ WF_vars(Start) /\ WF_vars(Cancel) /\ WF_vars(Join)
    /\ WF_vars(Worker)
    /\ WF_vars(running /\ (Download \/ DownloadFailed)) /\ WF_vars(Abort)

(* Moreover a transfer that is tried again and again succeeds at last.      *)
HealthySpec == FairSpec
               /\ \A h \in Hosts : SF_vars(running /\ last = h /\ Download)
-----------------------------------------------------------------------------
(* Properties *)

TypeOK ==
    /\ main \in MainPoint /\ removing \in Hosts \cup {0}
    /\ main = "forget" => removing \in Hosts
    /\ saved \in SUBSET Hosts /\ poll_targets \in SUBSET Hosts
    /\ results \in [Hosts -> Presence]
    /\ running \in BOOLEAN /\ cancel \in BOOLEAN
    /\ worker \in WorkerPoint
    /\ targets \in SUBSET Hosts /\ todo \in SUBSET targets
    /\ polled \in [Hosts -> Advertised]
    /\ scan \in SUBSET Hosts
    /\ hit \in Hosts \cup {0} /\ last \in Hosts \cup {0}
    /\ worker = "hit" => hit \in Hosts /\ polled[hit] # "none"
    /\ worker \in {"fetch", "check", "prune", "discard"} =>
           last \in Hosts /\ polled[last] # "none"
    /\ forgotten \in SUBSET Hosts
    /\ files \in SUBSET File
    /\ index \in [Hosts -> Advertised \cup {"unknown"}]
    /\ online \in SUBSET Hosts /\ wall \in [Hosts -> Advertised]
    /\ launches \in Nat

(* A host forgotten while its wallpaper was on the way leaves no file       *)
(* behind: once sync is through with that transfer nothing of it is on disk,*)
(* though forget found nothing to delete.                                   *)
ForgottenStaysGone ==
    last \in forgotten /\ worker \notin {"fetch", "check", "discard"}
        => OfHost(last) = {}

(* Pruning never deletes what was just entered into the index.              *)
PruneKeepsIndexed ==
    [][\A h \in Hosts, x \in Hashes :
           /\ worker = "prune"
           /\ index[h] = x /\ Named(h, x) # {} /\ index'[h] = x
           => Named(h, x)' # {}]_vars

(* stop returns although the transfer in flight would never end.            *)
StopReturns == main = "cancel" ~> main \in {"stopped", "free"}

(* What that rests on (presence.cpp:215-229, wallcache.cpp:350): a worker is *)
(* told to leave only by a main thread that is there to join it, and while   *)
(* that waits nothing takes the cancel back.                                 *)
StopIsHeard ==
    /\ main \in {"cancel", "join", "stopped"} => ~running
    /\ main = "join" => cancel
    /\ main = "stopped" => worker = "none"
    /\ ~running /\ worker # "none" => main \in {"cancel", "join"}
    /\ running => worker \notin {"none", "dead"}

(* A host that stays listed, answers and advertises a wallpaper that is not *)
(* on disk gets its attempts, however many others keep failing before it.   *)
Wanting(h) ==
    /\ running /\ h \in saved /\ h \in online
    /\ wall[h] # "none" /\ Named(h, wall[h]) = {}
NoStarvation ==
    \A h \in Hosts :
        \/ []<>~Wanting(h)
        \/ []<>(worker = "fetch" /\ last = h)
        \/ []<><<saved' # saved>>_vars

(* What that rests on (wallcache.cpp:363-376): whoever comes before the host *)
(* that is attempted, in the turn that starts after the last attempt, has no *)
(* wallpaper to fetch, has it on disk, or was forgotten during the pass.     *)
Late(h) == last \in targets \ todo /\ h <= last
Before(k, h) == (~Late(k) /\ Late(h)) \/ ((Late(k) <=> Late(h)) /\ k < h)
TurnIsKept ==
    [][worker = "scan" /\ worker' = "fetch" =>
           \A k \in targets \ todo :
               Before(k, last') => \/ polled[k] = "none"
                                   \/ Named(k, polled[k]) # {}
                                   \/ k \in forgotten]_vars

(* When list, machines and wallpapers no longer change, the index comes to  *)
(* name the advertised wallpaper of every reachable host, and its file is   *)
(* there.                                                                   *)
CacheConverges ==
    \/ []<><<saved' # saved \/ online' # online \/ wall' # wall>>_vars
    \/ \A h \in Hosts :
           <>[](running /\ h \in saved \cap online /\ wall[h] # "none"
                => index[h] = wall[h] /\ Named(h, wall[h]) # {})

(* wallcache.h of forget: "Drops every cached file for `address`"; PLAN.md: *)
(* "cache dropped on host Remove".                                          *)
RemovedLeavesNoFile ==
    main = "free" /\ worker \in {"none", "sleep"} =>
        \A h \in Hosts \ saved : OfHost(h) = {}
=============================================================================
