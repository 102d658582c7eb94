------------------------- MODULE PresenceCache_proofs -------------------------
(***************************************************************************)
(* Theorems about PresenceCache, for every set of hosts and wallpapers and *)
(* any number of launches.                                                 *)
(***************************************************************************)
EXTENDS PresenceCache, WellFoundedInduction, TLAPS

(* A forgotten host's transfer can only leave the one file that the worker  *)
(* will look at once more, and the index names what pruning keeps.          *)
ForgetInv ==
    /\ last \in forgotten =>
           \/ OfHost(last) = {}
           \/ worker \in {"check", "discard"}
              /\ OfHost(last) \subseteq Named(last, polled[last])
    /\ worker = "prune" => index[last] = polled[last] \/ last \in forgotten

IInv == TypeOK /\ ForgetInv
-----------------------------------------------------------------------------
(* Every step keeps every variable in its type.                             *)
LEMMA TypePreserved == TypeOK /\ [Next]_vars => TypeOK'
<1>1. SUFFICES ASSUME TypeOK, [Next]_vars
               PROVE  TypeOK'
  OBVIOUS
<1>2. TypeOK'
  <2> USE CacheAssumption, <1>1
      DEF TypeOK, vars, mainVars, shared, passVars, syncVars,
          cacheVars, hostVars, MainPoint, WorkerPoint,
          SyncPoint, Presence, Advertised
  <2>1. CASE \E h \in Hosts : AddHost(h)
    BY <2>1 DEF AddHost
  <2>2. CASE \E h \in Hosts : RemoveHost(h)
    BY <2>2 DEF RemoveHost
  <2>3. CASE \E h \in Hosts : PathFor(h)
    <3> PICK h \in Hosts : PathFor(h)
      BY <2>3
    <3>1. PICK x \in {f.hash : f \in OfHost(h)}
                       \cup (IF OfHost(h) = {} THEN {"none"} ELSE {}) :
              index' = [index EXCEPT ![h] = x]
      BY DEF PathFor
    <3>2. x \in Advertised
      BY <3>1 DEF OfHost, File
    <3>3. index' \in [Hosts -> Advertised \cup {"unknown"}]
      BY <3>1, <3>2
    <3>4. QED
      BY <3>3 DEF PathFor
  <2>4. CASE Forget
    BY <2>4 DEF Forget, OfHost
  <2>5. CASE Start
    BY <2>5 DEF Start
  <2>6. CASE Stop
    BY <2>6 DEF Stop
  <2>7. CASE Cancel
    BY <2>7 DEF Cancel
  <2>8. CASE Join
    BY <2>8 DEF Join
  <2>9. CASE Relaunch
    <3>1. results' \in [Hosts -> Presence]
      BY <2>9 DEF Relaunch
    <3>2. polled' \in [Hosts -> Advertised]
      BY <2>9 DEF Relaunch
    <3>3. index' \in [Hosts -> Advertised \cup {"unknown"}]
      BY <2>9 DEF Relaunch
    <3>4. /\ poll_targets' \in SUBSET Hosts /\ targets' \in SUBSET Hosts
          /\ todo' \in SUBSET targets' /\ scan' \in SUBSET Hosts
          /\ forgotten' \in SUBSET Hosts /\ launches' \in Nat
      BY <2>9 DEF Relaunch
    <3>5. /\ main' = "free" /\ worker' = "none" /\ running' \in BOOLEAN
          /\ cancel' \in BOOLEAN /\ removing' = 0 /\ hit' = 0 /\ last' = 0
          /\ UNCHANGED <<saved, files, online, wall>>
      BY <2>9 DEF Relaunch
    <3>6. QED
      BY <3>1, <3>2, <3>3, <3>4, <3>5
  <2>10. CASE CopyTargets
    BY <2>10 DEF CopyTargets, Goto
  <2>11. CASE Exit
    BY <2>11 DEF Exit, Goto
  <2>12. CASE PollsDone
    BY <2>12 DEF PollsDone, Goto
  <2>13. CASE BeginSync \/ EnterSync
    BY <2>13 DEF BeginSync, EnterSync, Goto
  <2>14. CASE SkipSync
    BY <2>14 DEF SkipSync, EndPass, Goto
  <2>15. CASE \E h \in Hosts : PollHost(h)
    <3> PICK h \in Hosts : PollHost(h)
      BY <2>15
    <3>1. results' \in [Hosts -> Presence]
      BY DEF PollHost
    <3>2. polled' \in [Hosts -> Advertised]
      BY DEF PollHost
    <3>3. QED
      BY <3>1, <3>2 DEF PollHost, Goto
  <2>16. CASE \E h \in Hosts : Skip(h)
    BY <2>16 DEF Skip, Goto
  <2>17. CASE \E h \in Hosts : Found(h)
    BY <2>17 DEF Found, Goto
  <2>18. CASE \E h \in Hosts : Attempt(h)
    BY <2>18 DEF Attempt, Goto
  <2>19. CASE IndexHit
    BY <2>19 DEF IndexHit, Goto
  <2>20. CASE NothingToDo
    BY <2>20 DEF NothingToDo, EndPass, Goto
  <2>21. CASE Check
    BY <2>21 DEF Check, Goto
  <2>22. CASE Prune
    BY <2>22 DEF Prune, EndPass, Goto
  <2>23. CASE Discard
    BY <2>23 DEF Discard, EndPass, Goto
  <2>24. CASE Wake
    BY <2>24 DEF Wake, Goto
  <2>25. CASE Download
    BY <2>25 DEF Download, Goto, File
  <2>26. CASE DownloadFailed
    BY <2>26 DEF DownloadFailed, EndPass, Goto
  <2>27. CASE \E h \in Movers : HostComesOrGoes(h)
    BY <2>27 DEF HostComesOrGoes
  <2>28. CASE \E h \in Movers, x \in Advertised : ChangeWallpaper(h, x)
    BY <2>28 DEF ChangeWallpaper
  <2>29. CASE UNCHANGED vars
    BY <2>29
  <2>30. QED
    BY <2>1, <2>2, <2>3, <2>4, <2>5, <2>6, <2>7, <2>8, <2>9, <2>10, <2>11, <2>12, <2>13, <2>14, <2>15, <2>16, <2>17, <2>18, <2>19, <2>20, <2>21, <2>22, <2>23, <2>24, <2>25, <2>26, <2>27, <2>28, <2>29
       DEF Next, Worker, Stopped, Abort
<1>3. QED
  BY <1>1, <1>2

THEOREM TypeInvariant == Spec => []TypeOK
<1>1. Init => TypeOK
  <2> SUFFICES ASSUME Init PROVE TypeOK
    OBVIOUS
  <2>1. /\ results \in [Hosts -> Presence] /\ polled \in [Hosts -> Advertised]
        /\ index \in [Hosts -> Advertised \cup {"unknown"}]
    BY DEF Init, Presence, Advertised
  <2>2. online \in SUBSET Hosts /\ wall \in [Hosts -> Advertised]
    BY DEF Init
  <2>3. QED
    BY <2>1, <2>2, CacheAssumption
       DEF Init, TypeOK, MainPoint, WorkerPoint, SyncPoint
<1>2. QED
  BY <1>1, TypePreserved, PTL DEF Spec

-----------------------------------------------------------------------------
(* Every step keeps the invariant: files of the host attempted last appear  *)
(* only by Download, and only under the name that Check and Discard use.    *)
LEMMA ForgetPreserved == TypeOK /\ ForgetInv /\ [Next]_vars => ForgetInv'
<1>1. SUFFICES ASSUME TypeOK, ForgetInv, [Next]_vars
               PROVE  ForgetInv'
  OBVIOUS
<1>2. ForgetInv'
  <2> USE CacheAssumption, <1>1
      DEF TypeOK, ForgetInv, OfHost, Named, vars, mainVars, shared, passVars,
          syncVars, cacheVars, hostVars
  <2>1. CASE \E h \in Hosts : AddHost(h)
    BY <2>1 DEF AddHost
  <2>2. CASE \E h \in Hosts : RemoveHost(h)
    BY <2>2 DEF RemoveHost
  <2>3. CASE \E h \in Hosts : PathFor(h)
    <3> PICK h \in Hosts : PathFor(h)
      BY <2>3
    <3>1. PICK x : index' = [index EXCEPT ![h] = x]
      BY DEF PathFor
    <3>2. worker = "prune" /\ last \notin forgotten => last # h
      BY DEF PathFor, Advertised
    <3>3. QED
      BY <3>1, <3>2 DEF PathFor
  <2>4. CASE Forget
    BY <2>4 DEF Forget, OfHost
  <2>5. CASE Start
    BY <2>5 DEF Start
  <2>6. CASE Stop
    BY <2>6 DEF Stop
  <2>7. CASE Cancel
    BY <2>7 DEF Cancel
  <2>8. CASE Join
    BY <2>8 DEF Join
  <2>9. CASE Relaunch
    BY <2>9 DEF Relaunch
  <2>10. CASE CopyTargets
    BY <2>10 DEF CopyTargets, Goto
  <2>11. CASE Exit
    BY <2>11 DEF Exit, Goto
  <2>12. CASE PollsDone
    BY <2>12 DEF PollsDone, Goto
  <2>13. CASE BeginSync \/ EnterSync
    BY <2>13 DEF BeginSync, EnterSync, Goto
  <2>14. CASE SkipSync
    BY <2>14 DEF SkipSync, EndPass, Goto
  <2>15. CASE \E h \in Hosts : PollHost(h)
    BY <2>15 DEF PollHost, Goto
  <2>16. CASE \E h \in Hosts : Skip(h)
    BY <2>16 DEF Skip, Goto
  <2>17. CASE \E h \in Hosts : Found(h)
    BY <2>17 DEF Found, Goto
  <2>18. CASE \E h \in Hosts : Attempt(h)
    BY <2>18 DEF Attempt, Goto
  <2>19. CASE IndexHit
    BY <2>19 DEF IndexHit, Goto
  <2>20. CASE NothingToDo
    BY <2>20 DEF NothingToDo, EndPass, Goto
  <2>21. CASE Check
    BY <2>21 DEF Check, Goto
  <2>22. CASE Prune
    BY <2>22 DEF Prune, EndPass, Goto
  <2>23. CASE Discard
    BY <2>23 DEF Discard, EndPass, Goto
  <2>24. CASE Wake
    BY <2>24 DEF Wake, Goto
  <2>25. CASE Download
    BY <2>25 DEF Download, Goto, File
  <2>26. CASE DownloadFailed
    BY <2>26 DEF DownloadFailed, EndPass, Goto
  <2>27. CASE \E h \in Movers : HostComesOrGoes(h)
    BY <2>27 DEF HostComesOrGoes
  <2>28. CASE \E h \in Movers, x \in Advertised : ChangeWallpaper(h, x)
    BY <2>28 DEF ChangeWallpaper
  <2>29. CASE UNCHANGED vars
    BY <2>29
  <2>30. QED
    BY <2>1, <2>2, <2>3, <2>4, <2>5, <2>6, <2>7, <2>8, <2>9, <2>10,
       <2>11, <2>12, <2>13, <2>14, <2>15, <2>16, <2>17, <2>18, <2>19, <2>20,
       <2>21, <2>22, <2>23, <2>24, <2>25, <2>26, <2>27, <2>28, <2>29
       DEF Next, Worker, Stopped, Abort
<1>3. QED
  BY <1>1, <1>2

THEOREM Invariance == Spec => []IInv
<1>1. Init => ForgetInv
  BY DEF Init, ForgetInv
<1>2. QED
  BY <1>1, TypeInvariant, ForgetPreserved, PTL DEF Spec, IInv

(* A host forgotten while its wallpaper was on the way leaves no file       *)
(* behind, in every interleaving (wallcache.cpp, g_forget_seq).             *)
THEOREM ForgottenIsGone == Spec => []ForgottenStaysGone
<1>1. IInv => ForgottenStaysGone
  BY DEF IInv, ForgetInv, ForgottenStaysGone
<1>2. QED
  BY <1>1, Invariance, PTL

(* What the index names when pruning starts is what pruning keeps, and only *)
(* a forget takes both away.                                                *)
LEMMA PruneStep ==
    ASSUME IInv, [Next]_vars, NEW h \in Hosts, NEW x \in Hashes,
           worker = "prune", index[h] = x, Named(h, x) # {}, index'[h] = x
    PROVE  Named(h, x)' # {}
<1> USE CacheAssumption DEF IInv, TypeOK, ForgetInv, OfHost, Named
<1>1. CASE Prune
  BY <1>1 DEF Prune, EndPass, Goto
<1>2. CASE Forget
  BY <1>2 DEF Forget
<1>3. CASE Relaunch
  BY <1>3 DEF Relaunch
<1>4. CASE UNCHANGED files
  BY <1>4
<1>5. QED
  BY <1>1, <1>2, <1>3, <1>4
     DEF Next, Worker, Stopped, Abort, AddHost, RemoveHost, PathFor, Start,
         Stop, Cancel, Join, CopyTargets, Exit, PollsDone, BeginSync,
         EnterSync,
         SkipSync, PollHost, Skip, Found, Attempt, IndexHit, NothingToDo,
         Check, Discard, Wake, Download, DownloadFailed, EndPass, Goto,
         HostComesOrGoes, ChangeWallpaper, vars, cacheVars

THEOREM PruningKeepsIndexed == Spec => PruneKeepsIndexed
<1>1. IInv /\ [Next]_vars =>
        [\A h \in Hosts, x \in Hashes :
           /\ worker = "prune"
           /\ index[h] = x /\ Named(h, x) # {} /\ index'[h] = x
           => Named(h, x)' # {}]_vars
  BY PruneStep
<1>2. QED
  BY <1>1, Invariance, PTL DEF Spec, PruneKeepsIndexed

-----------------------------------------------------------------------------
(* The round robin. *)

\* A set of addresses has a first one, which is what First chooses.
LEMMA FirstIsLeast ==
    ASSUME NEW S, S \subseteq Nat, S # {}
    PROVE  First(S) \in S /\ \A k \in S : First(S) <= k
<1> DEFINE R == OpToRel(<, Nat)
<1>1. \A j, k \in Nat : j < k => <<j, k>> \in R
  BY DEF OpToRel
<1>2. IsWellFoundedOn(R, Nat)
  BY NatLessThanWellFounded
<1> HIDE DEF R
<1>3. \E h \in S : \A k \in S : ~(<<k, h>> \in R)
  BY <1>2, WFMin
<1>4. \E h \in S : \A k \in S : h <= k
  <2>1. PICK h \in S : \A k \in S : ~(<<k, h>> \in R)
    BY <1>3
  <2>2. \A k \in S : ~(k < h)
    BY <1>1, <2>1
  <2> QED BY <2>2
<1> QED BY <1>4 DEF First

\* NextInScan is one of the hosts to look at, and none of them comes before it.
LEMMA NextIsFirst ==
    ASSUME TypeOK, scan # {}
    PROVE  /\ NextInScan \in scan
           /\ \A k \in scan : ~Before(k, NextInScan)
<1> USE CacheAssumption DEF TypeOK
<1> DEFINE after == {h \in scan : h > last}
<1>1. scan \subseteq Nat /\ last \in Nat
  OBVIOUS
<1>2. CASE last \in targets \ todo /\ after # {}
  <2>1. NextInScan = First(after) /\ after \subseteq Nat
    BY <1>1, <1>2 DEF NextInScan
  <2>2. First(after) \in after /\ \A k \in after : First(after) <= k
    BY <1>2, <2>1, FirstIsLeast
  <2>3. ASSUME NEW k \in scan
        PROVE  ~Before(k, First(after))
    <3>1. First(after) > last /\ (k > last => First(after) <= k)
      BY <1>1, <2>2
    <3> QED BY <1>1, <2>1, <2>2, <3>1, <1>2 DEF Before, Late
  <2>4. First(after) \in scan
    BY <2>2
  <2> HIDE DEF after
  <2> QED BY <2>1, <2>3, <2>4
<1>3. CASE ~(last \in targets \ todo /\ after # {})
  <2>1. NextInScan = First(scan)
    BY <1>3 DEF NextInScan
  <2>2. First(scan) \in scan /\ \A k \in scan : First(scan) <= k
    BY <1>1, FirstIsLeast
  <2>3. \A k \in scan : last \in targets \ todo => k <= last
    BY <1>1, <1>3
  <2>4. ASSUME NEW k \in scan
        PROVE  ~Before(k, First(scan))
    <3>1. ~(k < First(scan))
      <4>1. PICK f \in scan : f = First(scan)
        BY <2>2
      <4>2. f <= k /\ f \in Nat /\ k \in Nat
        BY <1>1, <2>2, <4>1
      <4> QED BY <4>1, <4>2
    <3>2. Late(k) => Late(First(scan))
      BY <2>2, <2>3, <3>1 DEF Late
    <3>3. Late(First(scan)) => Late(k)
      BY <2>3 DEF Late
    <3> QED BY <3>1, <3>2, <3>3 DEF Before
  <2> QED BY <2>1, <2>2, <2>4
<1> QED BY <1>2, <1>3

\* What sync has been through has nothing to be fetched.
ScanInv ==
    worker \in {"scan", "hit"} =>
        \A k \in (targets \ todo) \ scan :
            polled[k] = "none" \/ Named(k, polled[k]) # {} \/ k \in forgotten

\* The second invariant: what a pass has seen, and who may tell it to end.
HandledInv == ScanInv /\ StopIsHeard

LEMMA HandledPreserved ==
    ASSUME TypeOK, HandledInv, [Next]_vars
    PROVE  HandledInv'
<1> USE CacheAssumption
    DEF TypeOK, HandledInv, ScanInv, StopIsHeard, OfHost, Named, vars, mainVars,
        shared, passVars, syncVars, cacheVars, hostVars
<1>1. ASSUME NEW h \in Hosts, AddHost(h) \/ RemoveHost(h) \/ PathFor(h)
      PROVE  HandledInv'
  <2>1. ScanInv'
    <3>1. UNCHANGED <<worker, passVars, syncVars, files>>
      BY <1>1 DEF AddHost, RemoveHost, PathFor
    <3> QED BY <3>1
  <2>2. StopIsHeard'
    BY <1>1 DEF AddHost, RemoveHost, PathFor
  <2> QED BY <2>1, <2>2
<1>2. CASE Forget
  BY <1>2 DEF Forget
<1>3. CASE Start \/ Stop \/ Cancel \/ Join
  <2>1. ScanInv'
    BY <1>3 DEF Start, Stop, Cancel, Join
  <2>2. StopIsHeard'
    BY <1>3 DEF Start, Stop, Cancel, Join
  <2> QED BY <2>1, <2>2
<1>4. CASE Relaunch
  BY <1>4 DEF Relaunch
<1>5. CASE CopyTargets \/ Exit \/ PollsDone
  BY <1>5 DEF CopyTargets, Exit, PollsDone, Goto
<1>6. CASE EnterSync \/ SkipSync \/ BeginSync
  BY <1>6 DEF EnterSync, SkipSync, BeginSync, EndPass, Goto
<1>7. ASSUME NEW h \in Hosts, PollHost(h)
      PROVE  HandledInv'
  BY <1>7 DEF PollHost, Goto
<1>8. ASSUME NEW h \in Hosts, Skip(h) \/ Found(h) \/ Attempt(h)
      PROVE  HandledInv'
  <2>1. ScanInv'
    <3>1. CASE Skip(h)
      BY <3>1 DEF Skip, Goto
    <3>2. CASE Found(h)
      BY <3>2 DEF Found, Goto
    <3>3. CASE Attempt(h)
      BY <3>3 DEF Attempt, Goto
    <3> QED BY <1>8, <3>1, <3>2, <3>3
  <2>2. StopIsHeard'
    BY <1>8 DEF Skip, Found, Attempt, Goto
  <2> QED BY <2>1, <2>2
<1>9. CASE IndexHit \/ NothingToDo \/ Check
  <2>1. ScanInv'
    <3>1. CASE IndexHit
      BY <3>1 DEF IndexHit, Goto
    <3>2. CASE NothingToDo \/ Check
      BY <3>2 DEF NothingToDo, Check, EndPass, Goto
    <3> QED BY <1>9, <3>1, <3>2
  <2>2. StopIsHeard'
    BY <1>9 DEF IndexHit, NothingToDo, Check, EndPass, Goto
  <2> QED BY <2>1, <2>2
<1>10. CASE Prune \/ Discard \/ Wake
  BY <1>10 DEF Prune, Discard, Wake, EndPass, Goto
<1>11. CASE Download \/ DownloadFailed
  BY <1>11 DEF Download, DownloadFailed, EndPass, Goto
<1>12. CASE \/ \E h \in Movers : HostComesOrGoes(h)
            \/ \E h \in Movers, x \in Advertised : ChangeWallpaper(h, x)
            \/ UNCHANGED vars
  <2>1. ScanInv'
    BY <1>12 DEF HostComesOrGoes, ChangeWallpaper
  <2>2. StopIsHeard'
    BY <1>12 DEF HostComesOrGoes, ChangeWallpaper
  <2> QED BY <2>1, <2>2
<1> QED
  BY <1>1, <1>2, <1>3, <1>4, <1>5, <1>6, <1>7, <1>8, <1>9, <1>10, <1>11, <1>12
     DEF Next, Worker, Stopped, Abort

(* presence.cpp:113-229, wallcache.cpp:345-400: what sync has been through   *)
(* needs no transfer, and the worker's end is the main thread's doing.       *)
THEOREM Handling == Spec => []HandledInv
<1>1. Init => HandledInv
  BY DEF Init, HandledInv, ScanInv, StopIsHeard
<1>2. TypeOK /\ HandledInv /\ [Next]_vars => HandledInv'
  BY HandledPreserved
<1> QED BY <1>1, <1>2, TypeInvariant, PTL DEF Spec

(* presence.cpp:219-229: a worker that is told to leave is joined, and the   *)
(* cancel that cuts its transfer short stays.                                *)
THEOREM StopReachesWorker == Spec => []StopIsHeard
<1>1. HandledInv => StopIsHeard
  BY DEF HandledInv
<1> QED BY <1>1, Handling, PTL

\* Only Attempt begins a transfer.
LEMMA TurnStep ==
    ASSUME TypeOK, HandledInv, Next, worker = "scan", worker' = "fetch",
           NEW k \in targets \ todo, Before(k, last')
    PROVE  polled[k] = "none" \/ Named(k, polled[k]) # {} \/ k \in forgotten
<1>1. PICK h \in Hosts : Attempt(h)
  BY DEF Next, Worker, Stopped, Abort, AddHost, RemoveHost, PathFor, Forget, Start,
         Stop, Cancel, Join, Relaunch, CopyTargets, Exit, PollsDone, BeginSync,
         EnterSync, SkipSync, PollHost, Skip, Found, IndexHit, NothingToDo,
         Check, Prune, Discard, Wake, Download, DownloadFailed, EndPass, Goto,
         HostComesOrGoes, ChangeWallpaper, vars
<1>2. last' = NextInScan /\ scan # {}
  BY <1>1 DEF Attempt
<1>3. k \notin scan
  BY <1>2, NextIsFirst
<1> QED BY <1>3 DEF HandledInv, ScanInv

(* wallcache.cpp:363-376: no host that wants a wallpaper is passed over in   *)
(* favour of one whose turn is later.                                        *)
THEOREM RoundRobin == Spec => TurnIsKept
<1> DEFINE Kept ==
        worker = "scan" /\ worker' = "fetch" =>
            \A k \in targets \ todo :
                Before(k, last') => \/ polled[k] = "none"
                                    \/ Named(k, polled[k]) # {}
                                    \/ k \in forgotten
<1>1. TypeOK /\ HandledInv /\ Next => Kept
  BY TurnStep
<1>2. TypeOK /\ HandledInv /\ [Next]_vars => [Kept]_vars
  BY <1>1
<1> QED BY <1>2, TypeInvariant, Handling, PTL DEF Spec, TurnIsKept
=============================================================================
