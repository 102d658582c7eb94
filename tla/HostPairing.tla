------------------------------ MODULE HostPairing ------------------------------
(***************************************************************************)
(* Pairing, both ends: the host's five-request handshake                   *)
(* (host/sunshine/src/nvhttp.cpp), the bridge that carries a request to    *)
(* the PIN dialog and the PIN back (src/hostglue/pin_bridge.cpp,           *)
(* src/ui/pin_dialog.cpp), and the viewers that pair, give up and try      *)
(* again (third-party/libgamestream/client.c, gs_pair).                    *)
(*                                                                         *)
(* Every attempt of a viewer draws a salt and a PIN: its number stands for *)
(* both, and for the AES key made of the two.  A key made with any other   *)
(* PIN is key 0, which no viewer has; what is encrypted with one key and   *)
(* decrypted with another is garbage.  A viewer stands for its certificate *)
(* and for its entry in the list; the signatures, the name an entry gets   *)
(* and its enabled flag (nothing clears it here) are left out.  A handler  *)
(* is one step, but for the one that authorises a client: it appends to a  *)
(* list and rewrites a file that nothing locks, on one of the four threads *)
(* of a server, and is modelled access by access.  What else runs unlocked *)
(* is in the README.                                                       *)
(***************************************************************************)
EXTENDS Naturals

CONSTANTS
    Clients,        \* viewers, by their uniqueid, certificate included
    MaxAttempts,    \* bound: attempts of one viewer
    MaxTimeouts,    \* bound: requests given up
    MaxRestarts,    \* bound: how often the host process dies and is back
    Diligent        \* whoever sits at the host types what the named viewer shows

ASSUME PairingAssumption ==
    /\ "none" \notin Clients
    /\ MaxAttempts \in Nat /\ MaxTimeouts \in Nat /\ MaxRestarts \in Nat
    /\ Diligent \in BOOLEAN

VARIABLES
    map_id_sess,    \* the sessions, by uniqueid
    client_root,    \* named_devices
    add_cert,       \* certificates on their way to the verifier ...
    cert_chain,     \* ... and those it trusts
    file, torn,     \* the devices in the state file; it cannot be parsed
    saving,         \* handlers that are in add_authorized_client
    disturbed,      \* history: whose save met another, or the host's death
    latest,         \* g_latest_client_name
    pending,        \* g_pending is not empty
    dialog,         \* g_pending_client while the dialog is open
    client,         \* the viewers
    net,            \* requests the host has not handled
    vouched,        \* history: attempts whose PIN was typed for their session
    timeouts, restarts

saves    == <<client_root, file, torn, saving, disturbed>>
trust    == <<add_cert, cert_chain, saves>>
bridge   == <<latest, pending, dialog>>
bounds   == <<timeouts, restarts>>
vars     == <<map_id_sess, trust, bridge, client, net, vouched, bounds>>

-----------------------------------------------------------------------------
Attempt  == 1..MaxAttempts
Request  == {"getservercert", "clientchallenge", "serverchallengeresp",
             "clientpairingsecret", "pairchallenge"}
Message  == [from: Clients, phase: Request, att: Attempt, good: BOOLEAN]

\* A session.  parked: the response slot holds the connection of attempt
\* salt.  hash: the attempt whose secret would match, 0 for none.
Session  == [phase: {"absent", "NONE", "GETSERVERCERT", "CLIENTCHALLENGE",
                     "SERVERCHALLENGERESP", "CLIENTPAIRINGSECRET"},
             salt: 0..MaxAttempts, key: 0..MaxAttempts, hash: 0..MaxAttempts,
             parked: BOOLEAN]
Absent   == [phase |-> "absent", salt |-> 0, key |-> 0, hash |-> 0,
             parked |-> FALSE]

\* A handler in add_authorized_client.  list: while it appends, the list as
\* it found it; later, what it will write.  alone: no other was in it so far.
Saving   == [from: Clients, att: Attempt, list: SUBSET Clients, alone: BOOLEAN,
             pc: {"append", "read", "list", "open", "write", "rewrite"}]
Savers   == {h.from : h \in saving}

Waiting  == Request
Viewer   == [pc: {"idle", "paired", "failed"} \cup Waiting,
             att: 0..MaxAttempts, ans: {"none", "no", "ok", "garbled"}]

Init ==
    /\ map_id_sess = [c \in Clients |-> Absent]
    /\ client_root = {} /\ add_cert = {} /\ cert_chain = {} /\ file = {}
    /\ torn = FALSE /\ saving = {} /\ disturbed = {}
    /\ latest = "none" /\ pending = FALSE /\ dialog = "none"
    /\ client = [c \in Clients |-> [pc |-> "idle", att |-> 0, ans |-> "none"]]
    /\ net = {} /\ vouched = {} /\ timeouts = 0 /\ restarts = 0

-----------------------------------------------------------------------------
(* The host's handlers.                                                    *)

\* The answer reaches the attempt that asked, if it still waits for it.
Answer(c, phase, att, ans) ==
    IF client[c].pc = phase /\ client[c].att = att /\ client[c].ans = "none"
      THEN [client EXCEPT ![c].ans = ans]
      ELSE client

\* Fault: a failed call leaves its session behind.
remove_sessionNot(c) == map_id_sess

\* fail_pair and remove_session.
remove_session(c) == [map_id_sess EXCEPT ![c] = Absent]

\* /pair?phrase=getservercert.  emplace leaves a session that is there; its
\* salt and its response slot are overwritten all the same.  The request
\* parks, and the dialog is asked for.
ParkRequest(m) ==
    LET s == map_id_sess[m.from] IN
    /\ m.phase = "getservercert"
    /\ map_id_sess' = [map_id_sess EXCEPT ![m.from] =
           [s EXCEPT !.phase = IF s.phase = "absent" THEN "NONE" ELSE s.phase,
                     !.salt = m.att, !.parked = TRUE]]
    /\ latest' = m.from /\ pending' = TRUE
    /\ UNCHANGED <<trust, dialog, client>>

\* A handshake call whose session is missing, or not in the phase before it.
RefuseCall(m, expected) ==
    /\ map_id_sess[m.from].phase # expected
    /\ map_id_sess' = remove_session(m.from)
    /\ client' = Answer(m.from, m.phase, m.att, "no")
    /\ UNCHANGED <<trust, bridge>>

\* The viewer's challenge is encrypted with its own key, the answer with the
\* session's: with two keys the viewer reads garbage, and cannot tell.
clientchallenge(m) ==
    LET s == map_id_sess[m.from] IN
    /\ m.phase = "clientchallenge"
    /\ \/ RefuseCall(m, "GETSERVERCERT")
       \/ /\ s.phase = "GETSERVERCERT"
          /\ map_id_sess' = [map_id_sess EXCEPT ![m.from].phase = "CLIENTCHALLENGE"]
          /\ client' = Answer(m.from, m.phase, m.att,
                              IF s.key = m.att THEN "ok" ELSE "garbled")
          /\ UNCHANGED <<trust, bridge>>

serverchallengeresp(m) ==
    LET s == map_id_sess[m.from] IN
    /\ m.phase = "serverchallengeresp"
    /\ \/ RefuseCall(m, "CLIENTCHALLENGE")
       \/ /\ s.phase = "CLIENTCHALLENGE"
          /\ map_id_sess' = [map_id_sess EXCEPT ![m.from] =
                 [s EXCEPT !.phase = "SERVERCHALLENGERESP",
                           !.hash = IF s.key = m.att /\ m.good THEN m.att ELSE 0]]
          /\ client' = Answer(m.from, m.phase, m.att, "ok")
          /\ UNCHANGED <<trust, bridge>>

\* The secret matches.  The certificate is raised to the verifier; the rest
\* are the steps of add_authorized_client below.
AcceptClient(m) ==
    /\ map_id_sess' = [map_id_sess EXCEPT ![m.from].phase = "CLIENTPAIRINGSECRET"]
    /\ add_cert' = add_cert \cup {m.from}
    /\ saving' = {[h EXCEPT !.alone = FALSE] : h \in saving} \cup
                 {[from |-> m.from, att |-> m.att, list |-> client_root,
                   alone |-> saving = {}, pc |-> "append"]}
    /\ disturbed' = IF saving = {} THEN disturbed
                    ELSE disturbed \cup Savers \cup {m.from}
    /\ UNCHANGED <<cert_chain, client_root, file, torn, bridge, client>>

\* Fault: the hash the client sent is not compared.
clientpairingsecretUnchecked(m) ==
    /\ m.phase = "clientpairingsecret"
    /\ \/ RefuseCall(m, "SERVERCHALLENGERESP")
       \/ map_id_sess[m.from].phase = "SERVERCHALLENGERESP" /\ AcceptClient(m)

\* The session goes whether or not the secret matches.
clientpairingsecret(m) ==
    LET s == map_id_sess[m.from] IN
    /\ m.phase = "clientpairingsecret"
    /\ \/ RefuseCall(m, "SERVERCHALLENGERESP")
       \/ /\ s.phase = "SERVERCHALLENGERESP" /\ s.hash # m.att
          /\ map_id_sess' = remove_session(m.from)
          /\ client' = Answer(m.from, m.phase, m.att, "no")
          /\ UNCHANGED <<trust, bridge>>
       \/ /\ s.phase = "SERVERCHALLENGERESP" /\ s.hash = m.att
          /\ AcceptClient(m)

\* Fault: the first certificate of the queue replaces the chain.
verifyReplaced ==
    /\ cert_chain' = IF add_cert = {} THEN cert_chain ELSE add_cert
    /\ add_cert' = {}

\* https_server.verify, on every HTTPS connection, before the request is read.
verify ==
    /\ cert_chain' = cert_chain \cup add_cert
    /\ add_cert' = {}

Trusted(c) == c \in cert_chain \cup add_cert

\* /pair?phrase=pairchallenge, over HTTPS.
pairchallenge(m) ==
    /\ m.phase = "pairchallenge"
    /\ verify
    /\ client' = Answer(m.from, m.phase, m.att,
                        IF Trusted(m.from) THEN "ok" ELSE "no")
    /\ UNCHANGED <<map_id_sess, saves, bridge>>

Handle ==
    /\ \E m \in net :
         /\ net' = net \ {m}
         /\ \/ ParkRequest(m) \/ clientchallenge(m) \/ serverchallengeresp(m)
            \/ clientpairingsecret(m) \/ pairchallenge(m)
    /\ UNCHANGED <<vouched, bounds>>

-----------------------------------------------------------------------------
(* The rest of clientpairingsecret: the list and the file.                  *)

Advance(h, next) == saving' = (saving \ {h}) \cup {next}

\* The vector has no lock: who appends at the same time may undo the other's.
add_authorized_client(h) ==
    /\ h.pc = "append"
    /\ client_root' \in {client_root \cup {h.from}, h.list \cup {h.from}}
    /\ Advance(h, [h EXCEPT !.pc = "read", !.list = {}])
    /\ UNCHANGED <<map_id_sess, client, file, torn, disturbed>>

\* remove_session and the answer.  The session may have been erased by a
\* second call, and made anew: what is erased then is anyone's guess.
EndCall(h) ==
    LET c == h.from IN
    /\ \/ map_id_sess' = remove_session(c)
       \/ /\ map_id_sess[c].phase # "CLIENTPAIRINGSECRET"
          /\ UNCHANGED map_id_sess
    /\ client' = Answer(c, "clientpairingsecret", h.att, "ok")

\* save_state gives up on a file it cannot read: on one that is torn, and on
\* one that another handler has just truncated.
save_stateRead(h) ==
    /\ h.pc = "read"
    /\ IF torn THEN saving' = saving \ {h} /\ EndCall(h)
               ELSE /\ Advance(h, [h EXCEPT !.pc = "list"])
                    /\ UNCHANGED <<map_id_sess, client>>
    /\ UNCHANGED <<client_root, file, torn, disturbed>>

\* Fault: the list is read before the new client is on it.
save_stateListEarly(h) ==
    /\ h.pc = "list"
    /\ Advance(h, [h EXCEPT !.pc = "open", !.list = client_root \ {h.from}])
    /\ UNCHANGED <<map_id_sess, client, client_root, file, torn, disturbed>>

save_stateList(h) ==
    /\ h.pc = "list"
    /\ Advance(h, [h EXCEPT !.pc = "open", !.list = client_root])
    /\ UNCHANGED <<map_id_sess, client, client_root, file, torn, disturbed>>

\* write_json opens the file, which truncates it ...
save_stateOpen(h) ==
    /\ h.pc = "open"
    /\ torn' = TRUE
    /\ Advance(h, [h EXCEPT !.pc = "write"])
    /\ UNCHANGED <<map_id_sess, client, client_root, file, disturbed>>

\* ... and writes it.  What another wrote since may stick out behind it.
save_stateWrite(h) ==
    /\ h.pc \in {"write", "rewrite"}
    /\ file' = h.list
    /\ torn' \in IF h.pc = "rewrite" THEN BOOLEAN ELSE {FALSE}
    /\ saving' = {[g EXCEPT !.pc = IF @ = "write" THEN "rewrite" ELSE @] :
                     g \in saving \ {h}}
    /\ disturbed' = IF h.alone THEN disturbed \ h.list ELSE disturbed
    /\ EndCall(h)
    /\ UNCHANGED client_root

Save ==
    /\ \E h \in saving :
         \/ add_authorized_client(h) \/ save_stateRead(h) \/ save_stateList(h)
         \/ save_stateOpen(h) \/ save_stateWrite(h)
    /\ UNCHANGED <<add_cert, cert_chain, bridge, net, vouched, bounds>>

-----------------------------------------------------------------------------
(* The dialog.                                                             *)

\* The main loop drains g_pending: the last name is the one that is shown.
ShowRequest ==
    /\ pending
    /\ pending' = FALSE /\ dialog' = latest
    /\ UNCHANGED <<map_id_sess, trust, latest, client, net, vouched, bounds>>

\* What is typed: the PIN a viewer shows, or was still showing a moment ago.
\* Attempt 0 is a PIN nobody shows.  Who is diligent types what the named
\* viewer shows, and not into a handshake that is already going on.
Typed ==
    IF Diligent THEN {<<c, client[c].att>> : c \in
        {c \in Clients : /\ c = dialog
                         /\ client[c].pc \in {"getservercert", "failed"}
                         /\ client[c].ans = "none"}}
    ELSE {<<c, client[c].att>> : c \in Clients} \cup {<<dialog, 0>>}

\* nvhttp::pin on the first session of an unordered map, with no session it
\* fails and the dialog stays.  After an out-of-order call the session is
\* gone, and pin() goes on to use it: the viewer reads the failure or finds
\* its connection closed, the dialog is told either thing.  (That the process
\* may not survive is a Restart.)
EnterPin ==
    /\ dialog # "none"
    /\ \E pin \in Typed, d \in Clients :
         LET s     == map_id_sess[d]
             right == pin = <<d, s.salt>>
         IN
         \/ /\ s.phase = "NONE"
            /\ map_id_sess' = [map_id_sess EXCEPT ![d] =
                   [s EXCEPT !.phase = "GETSERVERCERT",
                             !.key = IF right THEN s.salt ELSE 0,
                             !.parked = FALSE]]
            /\ vouched' = IF right THEN vouched \cup {pin} ELSE vouched
            /\ client' = Answer(d, "getservercert", s.salt, "ok")
            /\ dialog' = "none"
         \/ /\ s.phase \notin {"absent", "NONE"}
            /\ map_id_sess' = remove_session(d)
            /\ client' \in {client, Answer(d, "getservercert", s.salt, "no")}
            /\ dialog' \in {dialog, "none"}
            /\ UNCHANGED vouched
    /\ UNCHANGED <<trust, latest, pending, net, bounds>>

\* Deny closes the dialog and leaves the request parked.
Deny ==
    /\ dialog # "none" /\ ~Diligent
    /\ dialog' = "none"
    /\ UNCHANGED <<map_id_sess, trust, latest, pending, client, net, vouched,
                   bounds>>

-----------------------------------------------------------------------------
(* The viewers.                                                            *)

Ask(c, phase, att, good) ==
    /\ client' = [client EXCEPT ![c] = [pc |-> phase, att |-> att, ans |-> "none"]]
    /\ net' = net \cup {[from |-> c, phase |-> phase, att |-> att, good |-> good]}

\* The session's worker asks for the server's status over HTTPS first, and
\* pairs only if that does not say it is paired already.
StartPair(c) ==
    /\ client[c].pc \in {"idle", "failed"} /\ client[c].att < MaxAttempts
    /\ verify
    /\ IF Trusted(c)
         THEN /\ client' = [client EXCEPT ![c].pc = "paired"]
              /\ UNCHANGED net
         ELSE Ask(c, "getservercert", client[c].att + 1, TRUE)
    /\ UNCHANGED <<map_id_sess, saves, bridge, vouched, bounds>>

Follows(phase) ==
    CASE phase = "getservercert"       -> "clientchallenge"
      [] phase = "clientchallenge"     -> "serverchallengeresp"
      [] phase = "serverchallengeresp" -> "clientpairingsecret"
      [] OTHER                         -> "pairchallenge"

\* gs_pair goes on to the next request.
Proceed(c) ==
    /\ client[c].ans \in {"ok", "garbled"}
    /\ IF client[c].pc = "pairchallenge"
         THEN /\ client' = [client EXCEPT ![c].pc = "paired", ![c].ans = "none"]
              /\ UNCHANGED net
         ELSE Ask(c, Follows(client[c].pc), client[c].att, client[c].ans = "ok")
    /\ UNCHANGED <<map_id_sess, trust, bridge, vouched, bounds>>

\* Every failure ends in gs_unpair, which this host answers with not_found.
Fail(c) == client' = [client EXCEPT ![c].pc = "failed", ![c].ans = "none"]

\* paired is not 1, or the connection is gone with nobody to answer on it.
Failed(c) ==
    /\ \/ client[c].ans = "no"
       \/ /\ client[c].pc \in Waiting /\ client[c].ans = "none"
          /\ \A m \in net : m.from = c => m.att # client[c].att
          /\ ~ /\ map_id_sess[c].parked
               /\ map_id_sess[c].salt = client[c].att
          /\ \A h \in saving : h.from = c => h.att # client[c].att
    /\ Fail(c)
    /\ UNCHANGED <<map_id_sess, trust, bridge, net, vouched, bounds>>

\* The viewer gives the request up; the host handles it all the same, or
\* never sees it.
Timeout(c) ==
    /\ client[c].pc \in Waiting /\ timeouts < MaxTimeouts
    /\ timeouts' = timeouts + 1
    /\ Fail(c)
    /\ net' \in {net, {m \in net : m.from # c}}
    /\ UNCHANGED <<map_id_sess, trust, bridge, vouched, restarts>>

-----------------------------------------------------------------------------
(* The host process dies and is started again: load_state.                 *)

\* A file it cannot read leaves the list empty.
Restart ==
    /\ restarts < MaxRestarts /\ restarts' = restarts + 1
    /\ map_id_sess' = [c \in Clients |-> Absent]
    /\ client_root' = IF torn THEN {} ELSE file
    /\ cert_chain' = client_root' /\ add_cert' = {}
    /\ saving' = {} /\ disturbed' = disturbed \cup Savers
    /\ latest' = "none" /\ pending' = FALSE /\ dialog' = "none"
    /\ net' = {}
    /\ UNCHANGED <<file, torn, client, vouched, timeouts>>

Next ==
    \/ Handle \/ Save \/ ShowRequest \/ EnterPin \/ Deny
    \/ \E c \in Clients : StartPair(c) \/ Proceed(c) \/ Failed(c) \/ Timeout(c)
    \/ Restart

Spec == Init /\ [][Next]_vars

\* The servers answer, gs_pair goes on, the main loop turns; and the people
\* at both ends keep at it: what the retry is promised under.
FairSpec ==
    /\ Spec
    /\ WF_vars(Handle) /\ WF_vars(Save) /\ WF_vars(ShowRequest) /\ WF_vars(EnterPin)
    /\ \A c \in Clients :
         WF_vars(StartPair(c)) /\ WF_vars(Proceed(c)) /\ WF_vars(Failed(c))

-----------------------------------------------------------------------------
TypeOK ==
    /\ map_id_sess \in [Clients -> Session]
    /\ client_root \in SUBSET Clients
    /\ add_cert \in SUBSET Clients
    /\ cert_chain \in SUBSET Clients
    /\ file \in SUBSET Clients
    /\ torn \in BOOLEAN
    /\ saving \in SUBSET Saving
    /\ disturbed \in SUBSET Clients
    /\ latest \in Clients \cup {"none"}
    /\ pending \in BOOLEAN
    /\ dialog \in Clients \cup {"none"}
    /\ client \in [Clients -> Viewer]
    /\ net \in SUBSET Message
    /\ vouched \in SUBSET (Clients \X (0..MaxAttempts))
    /\ timeouts \in 0..MaxTimeouts
    /\ restarts \in 0..MaxRestarts

\* A key a viewer has was made from the PIN that viewer showed, and a hash
\* that a secret can match was read with such a key.
KeysAreVouched ==
    \A c \in Clients :
        /\ map_id_sess[c].key # 0 => <<c, map_id_sess[c].key>> \in vouched
        /\ map_id_sess[c].hash # 0 => <<c, map_id_sess[c].hash>> \in vouched

\* An answer is to the request the viewer waits on, and only an answer to a
\* challenge can be garbled.  Who waits has drawn a salt.
AnswersAreAwaited ==
    \A c \in Clients :
        /\ client[c].ans # "none" => client[c].pc \in Waiting
        /\ client[c].ans = "garbled" => client[c].pc = "clientchallenge"
        /\ client[c].pc \in Waiting => client[c].att \in Attempt

\* Nobody will write the file again: it cannot be read, and no handler has
\* read it before.
Wrecked == torn /\ \A h \in saving : h.pc \in {"append", "read"}

\* A viewer that was told it is paired, here or through the server's status.
Told(c) == \/ client[c].pc \in {"pairchallenge", "paired"}
           \/ client[c].pc = "clientpairingsecret" /\ client[c].ans = "ok"

\* Who is listed, or about to be, is trusted.  A handler that met no other is
\* alone, has its client on the list, and writes that list.
SaversAreTrusted ==
    /\ client_root \subseteq cert_chain \cup add_cert
    /\ \A h \in saving :
         /\ h.list \cup {h.from} \subseteq cert_chain \cup add_cert
         /\ ~h.alone => h.from \in disturbed
         /\ h.alone => /\ saving = {h}
                       /\ h.pc # "append" => h.from \in client_root
                       /\ h.pc \notin {"read", "list"} => h.list = client_root

\* Who is trusted, is not being saved and was not disturbed in it is on the
\* list, on every list that will be written, and in the file, unless that is
\* past help.
TrustIsSaved ==
    \A c \in Clients : Trusted(c) /\ c \notin disturbed \cup Savers =>
        /\ c \in client_root
        /\ Wrecked \/ c \in file
        /\ \A h \in saving :
             h.pc \notin {"read", "list"} => c \in h.list

\* A client is authorised only if the PIN of one of its own attempts was
\* typed at the host, whatever is asked, answered, lost or repeated, by
\* however many viewers at a time (nvhttp.cpp:463, clientpairingsecret).
AuthorisedIsVouched ==
    \A c \in Clients : Trusted(c) \/ c \in client_root =>
        \E a \in Attempt : <<c, a>> \in vouched

\* The same of what a restart may bring back.
SavedIsVouched == \A c \in file : \E a \in Attempt : <<c, a>> \in vouched

\* A viewer that was told it is paired is trusted from then on.  A restart of
\* the host can take that away only with a state file that was cut off or
\* overwritten in parts, or if the viewer's save met that of another or the
\* host's death, and no pairing has gone through undisturbed since
\* (nvhttp.cpp:285, add_authorized_client; :183, save_state; :220, load_state).
PairedIsTrusted ==
    \A c \in Clients : Told(c) =>
        Trusted(c) \/ (restarts > 0 /\ (Wrecked \/ c \in disturbed))

\* Nobody who is trusted is dropped: not while a new client is on its way to
\* the verifier or to the file, and by a restart only under the same two
\* conditions (crypto.cpp verify, nvhttp.cpp:183, :220, :285).  What would take
\* one away, unpair_client and erase_all_clients (:1331-1353), nothing calls.
TrustIsKept ==
    [][\A c \in Clients : Trusted(c) =>
           \/ Trusted(c)'
           \/ (restarts' # restarts /\ (torn \/ c \in disturbed \cup Savers))]_vars

\* What a retry of the only viewer rests on: a request that is parked at the
\* host is in the dialog or on its way to it, unless it was denied.  (Of two
\* viewers the second may wait unseen: the dialog names one.)
ParkedIsShown ==
    \A c \in Clients :
        Diligent /\ Clients = {c} /\ map_id_sess[c].parked
            => pending \/ dialog # "none"

TrustInv ==
    /\ SaversAreTrusted
    /\ TrustIsSaved
    /\ AuthorisedIsVouched
    /\ SavedIsVouched
    /\ PairedIsTrusted

IInv == TypeOK /\ KeysAreVouched /\ AnswersAreAwaited /\ TrustInv

\* PROTOCOL.md:38: "Pairing is persistent".  What it leaves out is in the
\* exceptions of PairedIsTrusted.
PairingPersists == \A c \in Clients : Told(c) => Trusted(c)

\* What a request that waits for its PIN needs: a PIN can still answer it.
\* pin_dialog.cpp:155 leaves a denied request parked, for "the client will
\* time out and can retry. There is nothing to clean up here."
ParkedIsAnswerable ==
    \A c \in Clients : map_id_sess[c].parked => map_id_sess[c].phase = "NONE"

\* pin_dialog.cpp:167, "ask the client to retry": with the right PIN typed
\* for every request, a viewer that tries again gets there.
RetriesPair == <>(\A c \in Clients : client[c].pc = "paired")
=============================================================================
