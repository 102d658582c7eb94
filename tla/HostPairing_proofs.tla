-------------------------- MODULE HostPairing_proofs --------------------------
(***************************************************************************)
(* What a pairing promises, for any number of viewers, attempts, timeouts  *)
(* and restarts: the inductive invariant IInv of HostPairing, that the PIN *)
(* authorises, and that what a viewer was told lasts.                      *)
(***************************************************************************)
EXTENDS HostPairing, TLAPS

(* An answer reaches one viewer, and tells it that it is paired only if it  *)
(* accepts its secret.                                                      *)
LEMMA AnswerStep ==
    ASSUME client \in [Clients -> Viewer], AnswersAreAwaited,
           NEW c \in Clients, NEW phase \in Request, NEW att,
           NEW ans \in {"no", "ok", "garbled"},
           ans = "garbled" => phase = "clientchallenge",
           client' = Answer(c, phase, att, ans)
    PROVE  /\ client' \in [Clients -> Viewer]
           /\ AnswersAreAwaited'
           /\ \A k \in Clients : Told(k)' =>
                \/ Told(k)
                \/ k = c /\ phase = "clientpairingsecret" /\ ans # "no"
<1>1. CASE client[c].pc = phase /\ client[c].att = att /\ client[c].ans = "none"
  <2>1. client' = [client EXCEPT ![c].ans = ans]
        BY <1>1 DEF Answer
  <2>2. client' \in [Clients -> Viewer]
        BY <2>1 DEF Viewer
  <2>3. AnswersAreAwaited'
        BY <1>1, <2>1, <2>2 DEF AnswersAreAwaited, Waiting, Viewer
  <2>4. ASSUME NEW k \in Clients, Told(k)', ~Told(k)
        PROVE  k = c /\ phase = "clientpairingsecret" /\ ans # "no"
        BY <1>1, <2>1, <2>4 DEF Told, Viewer
  <2> QED BY <2>2, <2>3, <2>4
<1>2. CASE ~(client[c].pc = phase /\ client[c].att = att /\ client[c].ans = "none")
  <2>1. client' = client
        BY <1>2 DEF Answer
  <2> QED BY <2>1 DEF AnswersAreAwaited, Told
<1> QED BY <1>1, <1>2

(* A session whose key and hash are vouched for may replace another.        *)
LEMMA SessionStep ==
    ASSUME map_id_sess \in [Clients -> Session], KeysAreVouched,
           NEW c \in Clients, NEW s \in Session, vouched \subseteq vouched',
           s.key # 0 => <<c, s.key>> \in vouched',
           s.hash # 0 => <<c, s.hash>> \in vouched',
           map_id_sess' = [map_id_sess EXCEPT ![c] = s]
    PROVE  map_id_sess' \in [Clients -> Session] /\ KeysAreVouched'
<1>1. map_id_sess' \in [Clients -> Session]
      OBVIOUS
<1>2. ASSUME NEW k \in Clients
      PROVE  /\ map_id_sess'[k].key # 0 => <<k, map_id_sess'[k].key>> \in vouched'
             /\ map_id_sess'[k].hash # 0 => <<k, map_id_sess'[k].hash>> \in vouched'
      BY DEF KeysAreVouched
<1> QED BY <1>1, <1>2 DEF KeysAreVouched

(* The same for a session that is erased.                                   *)
LEMMA EraseStep ==
    ASSUME map_id_sess \in [Clients -> Session], KeysAreVouched,
           NEW c \in Clients, vouched \subseteq vouched',
           map_id_sess' = remove_session(c)
    PROVE  map_id_sess' \in [Clients -> Session] /\ KeysAreVouched'
<1>1. Absent \in Session /\ Absent.key = 0 /\ Absent.hash = 0
      BY PairingAssumption DEF Absent, Session
<1>2. map_id_sess' = [map_id_sess EXCEPT ![c] = Absent]
      BY DEF remove_session
<1> QED BY <1>1, <1>2, SessionStep

(* Nobody's trust changes, nothing is saved, and only who is trusted is told *)
(* anything: the conjuncts about it still hold.                             *)
LEMMA TrustStep ==
    ASSUME TrustInv, UNCHANGED saves,
           cert_chain' \cup add_cert' = cert_chain \cup add_cert,
           vouched \subseteq vouched', UNCHANGED restarts,
           \A k \in Clients : Told(k)' => Told(k) \/ Trusted(k)
    PROVE  TrustInv'
<1>1. UNCHANGED <<client_root, file, torn, saving, disturbed>>
      BY DEF saves
<1>2. \A k : Trusted(k)' <=> Trusted(k)
      BY DEF Trusted
<1>3. SaversAreTrusted'
      BY <1>1 DEF TrustInv, SaversAreTrusted
<1>4. UNCHANGED Wrecked /\ UNCHANGED Savers
      BY <1>1 DEF Wrecked, Savers
<1>5. TrustIsSaved'
      BY <1>1, <1>2, <1>4 DEF TrustInv, TrustIsSaved
<1>6. AuthorisedIsVouched' /\ SavedIsVouched'
      BY <1>1, <1>2 DEF TrustInv, AuthorisedIsVouched, SavedIsVouched
<1>7. PairedIsTrusted'
      BY <1>1, <1>2, <1>4 DEF TrustInv, PairedIsTrusted
<1> QED BY <1>3, <1>5, <1>6, <1>7 DEF TrustInv

-----------------------------------------------------------------------------
LEMMA InitInv == Init => IInv
<1> SUFFICES ASSUME Init PROVE IInv
    OBVIOUS
<1> USE PairingAssumption DEF Init
<1>1. Absent \in Session
      BY DEF Absent, Session
<1>2. map_id_sess \in [Clients -> Session]
      BY <1>1
<1>3. client \in [Clients -> Viewer]
  <2>1. [pc |-> "idle", att |-> 0, ans |-> "none"] \in Viewer
        BY DEF Viewer
  <2> QED BY <2>1
<1>4. TypeOK
  <2>1. /\ client_root \in SUBSET Clients /\ file \in SUBSET Clients
        /\ saving \in SUBSET Saving /\ disturbed \in SUBSET Clients
        /\ add_cert \in SUBSET Clients /\ cert_chain \in SUBSET Clients
        /\ net \in SUBSET Message
        /\ vouched \in SUBSET (Clients \X (0..MaxAttempts))
        OBVIOUS
  <2>2. timeouts \in 0..MaxTimeouts /\ restarts \in 0..MaxRestarts
        OBVIOUS
  <2>3. /\ torn \in BOOLEAN /\ pending \in BOOLEAN
        /\ latest \in Clients \cup {"none"} /\ dialog \in Clients \cup {"none"}
        OBVIOUS
  <2> HIDE DEF Init
  <2> QED BY <1>2, <1>3, <2>1, <2>2, <2>3 DEF TypeOK
<1>5. KeysAreVouched
      BY DEF KeysAreVouched, Absent
<1>6. AnswersAreAwaited
      BY DEF AnswersAreAwaited, Waiting, Request
<1>7. SaversAreTrusted /\ TrustIsSaved /\ AuthorisedIsVouched /\ SavedIsVouched
      BY DEF SaversAreTrusted, TrustIsSaved, AuthorisedIsVouched, SavedIsVouched,
             Trusted
<1>8. PairedIsTrusted
      BY DEF PairedIsTrusted, Told, Waiting
<1> QED BY <1>4, <1>5, <1>6, <1>7, <1>8 DEF IInv, TrustInv

(* A refused call erases its session and tells nobody anything.             *)
LEMMA RefuseInv ==
    ASSUME IInv, NEW m \in net, NEW expected, RefuseCall(m, expected),
           net' = net \ {m}, UNCHANGED <<vouched, bounds>>
    PROVE  IInv'
<1> USE DEF IInv
<1>1. /\ m.from \in Clients /\ m.phase \in Request
      BY DEF TypeOK, Message
<1>2. map_id_sess' \in [Clients -> Session] /\ KeysAreVouched'
      BY <1>1, EraseStep DEF RefuseCall, TypeOK
<1>3. /\ client' \in [Clients -> Viewer] /\ AnswersAreAwaited'
      /\ \A k \in Clients : Told(k)' => Told(k)
  <2>1. client' = Answer(m.from, m.phase, m.att, "no")
        BY DEF RefuseCall
  <2>2. client \in [Clients -> Viewer] /\ AnswersAreAwaited
        BY DEF TypeOK
  <2> HIDE DEF IInv
  <2> QED BY <1>1, <2>1, <2>2, AnswerStep
<1>4. UNCHANGED trust /\ UNCHANGED bridge
      BY DEF RefuseCall
<1>5. TrustInv'
      BY <1>3, <1>4, TrustStep DEF trust, bounds
<1>6. TypeOK'
      BY <1>2, <1>3, <1>4 DEF TypeOK, trust, saves, bridge, bounds
<1> QED BY <1>2, <1>3, <1>5, <1>6

(* A handler that goes on with its session, or with none, and leaves the    *)
(* trust alone.                                                             *)
LEMMA GoOnInv ==
    ASSUME IInv, NEW c \in Clients, NEW phase \in Request, NEW att,
           NEW ans \in {"no", "ok", "garbled"},
           ans = "garbled" => phase = "clientchallenge",
           phase = "clientpairingsecret" => ans = "no",
           client' = Answer(c, phase, att, ans),
           map_id_sess' \in [Clients -> Session], KeysAreVouched',
           UNCHANGED trust, vouched \subseteq vouched',
           vouched' \in SUBSET (Clients \X (0..MaxAttempts)),
           latest' \in Clients \cup {"none"}, pending' \in BOOLEAN,
           dialog' \in Clients \cup {"none"}, net' \in SUBSET Message,
           UNCHANGED bounds
    PROVE  IInv'
<1>1. /\ client' \in [Clients -> Viewer] /\ AnswersAreAwaited'
      /\ \A k \in Clients : Told(k)' => Told(k)
  <2>1. client \in [Clients -> Viewer] /\ AnswersAreAwaited
        BY DEF IInv, TypeOK
  <2> QED BY <2>1, AnswerStep
<1>2. TrustInv'
      BY <1>1, TrustStep DEF IInv, trust, bounds
<1>3. TypeOK'
      BY <1>1 DEF IInv, TypeOK, trust, saves, bounds
<1> QED BY <1>1, <1>2, <1>3 DEF IInv

(* The secret matches: the client is trusted, and a handler sets out to      *)
(* save it.                                                                 *)
LEMMA AcceptInv ==
    ASSUME IInv, NEW m \in net, AcceptClient(m), <<m.from, m.att>> \in vouched,
           net' = net \ {m}, UNCHANGED <<vouched, bounds>>
    PROVE  IInv'
<1> DEFINE c == m.from
           n == [from |-> m.from, att |-> m.att, list |-> client_root,
                 alone |-> saving = {}, pc |-> "append"]
           s == map_id_sess[c]
           t == [s EXCEPT !.phase = "CLIENTPAIRINGSECRET"]
<1>1. /\ map_id_sess' = [map_id_sess EXCEPT ![c] = t]
      /\ add_cert' = add_cert \cup {c}
      /\ saving' = {[h EXCEPT !.alone = FALSE] : h \in saving} \cup {n}
      /\ disturbed' = IF saving = {} THEN disturbed
                      ELSE disturbed \cup Savers \cup {c}
      /\ UNCHANGED <<cert_chain, client_root, file, torn, bridge, client>>
      BY DEF AcceptClient
<1>2. c \in Clients /\ m.att \in Attempt /\ net' \in SUBSET Message
      BY DEF IInv, TypeOK, Message
<1>3. /\ s \in Session /\ KeysAreVouched /\ map_id_sess \in [Clients -> Session]
      /\ s.key # 0 => <<c, s.key>> \in vouched
      /\ s.hash # 0 => <<c, s.hash>> \in vouched
      BY <1>2 DEF IInv, TypeOK, KeysAreVouched
<1>4. map_id_sess' \in [Clients -> Session] /\ KeysAreVouched'
  <2>1. t \in Session /\ t.key = s.key /\ t.hash = s.hash
        BY <1>3 DEF Session
  <2> HIDE DEF c, s, t, n
  <2> QED BY <1>1, <1>2, <1>3, <2>1, SessionStep
<1>5. /\ saving \in SUBSET Saving /\ client_root \in SUBSET Clients
      /\ disturbed \in SUBSET Clients
      BY DEF IInv, TypeOK
<1>6. /\ n \in Saving /\ n.from = c /\ n.list = client_root /\ n.pc = "append"
      /\ n.alone <=> saving = {}
  <2>1. (saving = {}) \in BOOLEAN
        OBVIOUS
  <2> QED BY <1>2, <1>5, <2>1 DEF Saving
<1> HIDE DEF n
<1>7. \A h \in saving :
        /\ [h EXCEPT !.alone = FALSE] \in Saving
        /\ [h EXCEPT !.alone = FALSE].from = h.from
        /\ [h EXCEPT !.alone = FALSE].list = h.list
        /\ [h EXCEPT !.alone = FALSE].pc = h.pc
        /\ [h EXCEPT !.alone = FALSE].alone = FALSE
      BY <1>5 DEF Saving
<1>8. \A g \in saving' : \/ g = n
                         \/ \E h \in saving : /\ g = [h EXCEPT !.alone = FALSE]
                                              /\ g.from = h.from /\ g.list = h.list
                                              /\ g.pc = h.pc /\ ~g.alone
      BY <1>1, <1>7
<1>9. Savers' = Savers \cup {c}
  <2>1. ASSUME NEW k \in Savers' PROVE k \in Savers \cup {c}
        BY <1>6, <1>8, <2>1 DEF Savers
  <2>2. ASSUME NEW h \in saving PROVE h.from \in Savers'
        BY <1>1, <1>7, <2>2 DEF Savers
  <2>3. c \in Savers'
        BY <1>1, <1>6 DEF Savers
  <2> QED BY <2>1, <2>2, <2>3 DEF Savers
<1>10. \A k : Trusted(k)' <=> Trusted(k) \/ k = c
       BY <1>1 DEF Trusted
<1>11. Wrecked' <=> Wrecked
  <2>1. ASSUME Wrecked PROVE Wrecked'
        BY <1>1, <1>6, <1>8, <2>1 DEF Wrecked
  <2>2. ASSUME Wrecked' PROVE Wrecked
        BY <1>1, <1>7, <2>2 DEF Wrecked
  <2> QED BY <2>1, <2>2
<1>12. SaversAreTrusted'
  <2>1. client_root' \subseteq cert_chain' \cup add_cert'
        BY <1>1 DEF IInv, TrustInv, SaversAreTrusted
  <2>2. ASSUME NEW g \in saving'
        PROVE  /\ g.list \cup {g.from} \subseteq cert_chain' \cup add_cert'
               /\ ~g.alone => g.from \in disturbed'
               /\ g.alone => /\ saving' = {g}
                             /\ g.pc # "append" => g.from \in client_root'
                             /\ g.pc \notin {"read", "list"} => g.list = client_root'
    <3>1. CASE g = n
          BY <1>1, <1>6, <2>1, <3>1
    <3>2. CASE g # n
      <4>1. PICK h \in saving : /\ g.from = h.from /\ g.list = h.list /\ ~g.alone
            BY <1>8, <3>2
      <4>2. h.list \cup {h.from} \subseteq cert_chain \cup add_cert
            BY <4>1 DEF IInv, TrustInv, SaversAreTrusted
      <4>3. h.from \in disturbed'
            BY <1>1, <4>1 DEF Savers
      <4> QED BY <1>1, <4>1, <4>2, <4>3
    <3> QED BY <3>1, <3>2
  <2> QED BY <2>1, <2>2 DEF SaversAreTrusted
<1>13. TrustIsSaved'
  <2> SUFFICES ASSUME NEW k \in Clients, Trusted(k)', k \notin (disturbed \cup Savers)'
               PROVE  /\ k \in client_root'
                      /\ (Wrecked \/ k \in file)'
                      /\ \A g \in saving' :
                           g.pc \notin {"read", "list"} => k \in g.list
    BY DEF TrustIsSaved
  <2>1. Trusted(k) /\ k \notin disturbed \cup Savers
        BY <1>1, <1>9, <1>10
  <2>2. /\ k \in client_root /\ (Wrecked \/ k \in file)
        /\ \A h \in saving : h.pc \notin {"read", "list"} => k \in h.list
        BY <2>1 DEF IInv, TrustInv, TrustIsSaved
  <2>3. \A g \in saving' : g.pc \notin {"read", "list"} => k \in g.list
        BY <1>6, <1>8, <2>2
  <2> QED BY <1>1, <1>11, <2>2, <2>3
<1>14. AuthorisedIsVouched' /\ SavedIsVouched'
       BY <1>1, <1>2, <1>10 DEF IInv, TrustInv, AuthorisedIsVouched, SavedIsVouched
<1>15. PairedIsTrusted'
  <2>1. disturbed \subseteq disturbed' /\ UNCHANGED <<client, restarts>>
        BY <1>1 DEF bounds
  <2> QED BY <1>10, <1>11, <2>1 DEF IInv, TrustInv, PairedIsTrusted, Told
<1>16. TypeOK'
  <2>1. saving' \in SUBSET Saving
        BY <1>1, <1>6, <1>7
  <2>2. disturbed' \in SUBSET Clients
        BY <1>1, <1>2, <1>5 DEF Savers, Saving
  <2>3. add_cert' \in SUBSET Clients
        BY <1>1, <1>2 DEF IInv, TypeOK
  <2> QED BY <1>1, <1>2, <1>4, <2>1, <2>2, <2>3 DEF IInv, TypeOK, bridge, bounds
<1>17. AnswersAreAwaited'
       BY <1>1 DEF IInv, AnswersAreAwaited
<1> QED BY <1>4, <1>12, <1>13, <1>14, <1>15, <1>16, <1>17 DEF IInv, TrustInv

LEMMA HandleInv == ASSUME IInv, Handle PROVE IInv'
<1>1. PICK m \in net :
        /\ net' = net \ {m}
        /\ \/ ParkRequest(m) \/ clientchallenge(m) \/ serverchallengeresp(m)
           \/ clientpairingsecret(m) \/ pairchallenge(m)
      BY DEF Handle
<1>2. UNCHANGED <<vouched, bounds>>
      BY DEF Handle
<1>3. /\ m.from \in Clients /\ m.phase \in Request /\ m.att \in Attempt
      /\ net' \in SUBSET Message
      BY <1>1 DEF IInv, TypeOK, Message
<1> DEFINE s == map_id_sess[m.from]
<1>4. /\ s \in Session /\ map_id_sess \in [Clients -> Session]
      /\ KeysAreVouched
      /\ s.key # 0 => <<m.from, s.key>> \in vouched
      /\ s.hash # 0 => <<m.from, s.hash>> \in vouched
      BY <1>3 DEF IInv, TypeOK, KeysAreVouched
<1>5. m.att \in 0..MaxAttempts
      BY <1>3, PairingAssumption DEF Attempt
<1>6. CASE ParkRequest(m)
  <2> DEFINE t == [s EXCEPT !.phase = IF s.phase = "absent" THEN "NONE" ELSE s.phase,
                            !.salt = m.att, !.parked = TRUE]
  <2>1. t \in Session /\ t.key = s.key /\ t.hash = s.hash
        BY <1>4, <1>5 DEF Session
  <2>2. map_id_sess' = [map_id_sess EXCEPT ![m.from] = t]
        BY <1>6 DEF ParkRequest
  <2>3. map_id_sess' \in [Clients -> Session] /\ KeysAreVouched'
    <3> HIDE DEF s, t
    <3> QED BY <1>2, <1>3, <1>4, <2>1, <2>2, SessionStep
  <2>4. UNCHANGED <<trust, dialog, client>> /\ latest' = m.from /\ pending' = TRUE
        BY <1>6 DEF ParkRequest
  <2>5. TrustInv'
        BY <1>2, <2>4, TrustStep DEF IInv, Told, trust, bounds
  <2>6. TypeOK'
        BY <1>2, <1>3, <2>3, <2>4 DEF IInv, TypeOK, trust, saves, bounds
  <2>7. AnswersAreAwaited'
        BY <2>4 DEF IInv, AnswersAreAwaited
  <2> QED BY <2>3, <2>5, <2>6, <2>7 DEF IInv
<1>7. CASE clientchallenge(m)
  <2>1. CASE RefuseCall(m, "GETSERVERCERT")
        BY <1>1, <1>2, <2>1, RefuseInv
  <2>2. CASE ~RefuseCall(m, "GETSERVERCERT")
    <3> DEFINE t == [s EXCEPT !.phase = "CLIENTCHALLENGE"]
    <3>1. /\ m.phase = "clientchallenge"
          /\ map_id_sess' = [map_id_sess EXCEPT ![m.from] = t]
          /\ client' = Answer(m.from, m.phase, m.att,
                              IF s.key = m.att THEN "ok" ELSE "garbled")
          /\ UNCHANGED <<trust, bridge>>
          BY <1>7, <2>2 DEF clientchallenge
    <3>2. t \in Session /\ t.key = s.key /\ t.hash = s.hash
          BY <1>4 DEF Session
    <3>3. map_id_sess' \in [Clients -> Session] /\ KeysAreVouched'
      <4> HIDE DEF s, t
      <4> QED BY <1>2, <1>3, <1>4, <3>1, <3>2, SessionStep
    <3>4. /\ latest' \in Clients \cup {"none"} /\ pending' \in BOOLEAN
          /\ dialog' \in Clients \cup {"none"}
          /\ vouched' \in SUBSET (Clients \X (0..MaxAttempts))
          BY <1>2, <3>1 DEF IInv, TypeOK, bridge
    <3>5. /\ (IF s.key = m.att THEN "ok" ELSE "garbled") \in {"no", "ok", "garbled"}
          /\ m.phase # "clientpairingsecret"
          BY <3>1
    <3> HIDE DEF s, t
    <3> QED BY <1>2, <1>3, <3>1, <3>3, <3>4, <3>5, GoOnInv
  <2> QED BY <2>1, <2>2
<1>8. CASE serverchallengeresp(m)
  <2>1. CASE RefuseCall(m, "CLIENTCHALLENGE")
        BY <1>1, <1>2, <2>1, RefuseInv
  <2>2. CASE ~RefuseCall(m, "CLIENTCHALLENGE")
    <3> DEFINE h == IF s.key = m.att /\ m.good THEN m.att ELSE 0
               t == [s EXCEPT !.phase = "SERVERCHALLENGERESP", !.hash = h]
    <3>1. /\ m.phase = "serverchallengeresp"
          /\ map_id_sess' = [map_id_sess EXCEPT ![m.from] = t]
          /\ client' = Answer(m.from, m.phase, m.att, "ok")
          /\ UNCHANGED <<trust, bridge>>
          BY <1>8, <2>2 DEF serverchallengeresp
    <3>2. /\ t \in Session /\ t.key = s.key
          /\ t.hash # 0 => t.hash = s.key
      <4>1. h \in 0..MaxAttempts /\ (h # 0 => h = s.key)
            BY <1>5, PairingAssumption
      <4> HIDE DEF h
      <4> QED BY <1>4, <4>1 DEF Session
    <3>3. map_id_sess' \in [Clients -> Session] /\ KeysAreVouched'
      <4> HIDE DEF s, t
      <4> QED BY <1>2, <1>3, <1>4, <3>1, <3>2, SessionStep
    <3>4. /\ latest' \in Clients \cup {"none"} /\ pending' \in BOOLEAN
          /\ dialog' \in Clients \cup {"none"}
          /\ vouched' \in SUBSET (Clients \X (0..MaxAttempts))
          BY <1>2, <3>1 DEF IInv, TypeOK, bridge
    <3> HIDE DEF s, t
    <3> QED BY <1>2, <1>3, <3>1, <3>3, <3>4, GoOnInv
  <2> QED BY <2>1, <2>2
<1>9. CASE clientpairingsecret(m)
  <2>1. CASE RefuseCall(m, "SERVERCHALLENGERESP")
        BY <1>1, <1>2, <2>1, RefuseInv
  <2>2. CASE ~RefuseCall(m, "SERVERCHALLENGERESP") /\ s.hash # m.att
    <3>1. /\ map_id_sess' = remove_session(m.from)
          /\ client' = Answer(m.from, m.phase, m.att, "no")
          /\ UNCHANGED <<trust, bridge>>
          BY <1>9, <2>2 DEF clientpairingsecret
    <3>2. map_id_sess' \in [Clients -> Session] /\ KeysAreVouched'
          BY <1>2, <1>3, <1>4, <3>1, EraseStep
    <3>3. /\ latest' \in Clients \cup {"none"} /\ pending' \in BOOLEAN
          /\ dialog' \in Clients \cup {"none"}
          /\ vouched' \in SUBSET (Clients \X (0..MaxAttempts))
          BY <1>2, <3>1 DEF IInv, TypeOK, bridge
    <3> QED BY <1>2, <1>3, <3>1, <3>2, <3>3, GoOnInv
  <2>3. CASE ~RefuseCall(m, "SERVERCHALLENGERESP") /\ s.hash = m.att
    <3>1. AcceptClient(m) /\ <<m.from, m.att>> \in vouched
          BY <1>3, <1>4, <1>9, <2>3, PairingAssumption
          DEF clientpairingsecret, Attempt
    <3> QED BY <1>1, <1>2, <3>1, AcceptInv
  <2> QED BY <2>1, <2>2, <2>3
<1>10. CASE pairchallenge(m)
  <2>1. /\ m.phase = "pairchallenge"
        /\ cert_chain' = cert_chain \cup add_cert /\ add_cert' = {}
        /\ client' = Answer(m.from, m.phase, m.att,
                            IF Trusted(m.from) THEN "ok" ELSE "no")
        /\ UNCHANGED <<map_id_sess, saves, bridge>>
        BY <1>10 DEF pairchallenge, verify
  <2>2. /\ client' \in [Clients -> Viewer] /\ AnswersAreAwaited'
        /\ \A k \in Clients : Told(k)' => Told(k)
    <3>1. client \in [Clients -> Viewer] /\ AnswersAreAwaited
          BY DEF IInv, TypeOK
    <3>2. (IF Trusted(m.from) THEN "ok" ELSE "no") \in {"no", "ok", "garbled"} \ {"garbled"}
          OBVIOUS
    <3> QED BY <1>3, <2>1, <3>1, <3>2, AnswerStep
  <2>3. TrustInv'
        BY <1>2, <2>1, <2>2, TrustStep DEF IInv, bounds
  <2>4. TypeOK'
        BY <1>2, <1>3, <2>1, <2>2 DEF IInv, TypeOK, saves, bridge, bounds
  <2>5. KeysAreVouched'
        BY <1>2, <2>1 DEF IInv, KeysAreVouched
  <2> QED BY <2>2, <2>3, <2>4, <2>5 DEF IInv
<1> QED BY <1>1, <1>6, <1>7, <1>8, <1>9, <1>10

(* A handler that ends tells its viewer, who is trusted by now.             *)
LEMMA EndCallStep ==
    ASSUME IInv, NEW h \in saving, EndCall(h), UNCHANGED vouched
    PROVE  /\ map_id_sess' \in [Clients -> Session] /\ KeysAreVouched'
           /\ client' \in [Clients -> Viewer] /\ AnswersAreAwaited'
           /\ \A k \in Clients : Told(k)' => Told(k) \/ Trusted(k)
<1>1. /\ h.from \in Clients /\ map_id_sess \in [Clients -> Session]
      /\ KeysAreVouched /\ client \in [Clients -> Viewer] /\ AnswersAreAwaited
      BY DEF IInv, TypeOK, Saving
<1>2. map_id_sess' \in [Clients -> Session] /\ KeysAreVouched'
  <2>1. CASE map_id_sess' = remove_session(h.from)
        BY <1>1, <2>1, EraseStep
  <2>2. CASE map_id_sess' = map_id_sess
        BY <1>1, <2>2 DEF KeysAreVouched
  <2> QED BY <2>1, <2>2 DEF EndCall
<1>3. /\ client' = Answer(h.from, "clientpairingsecret", h.att, "ok")
      /\ "clientpairingsecret" \in Request
      BY DEF EndCall, Request
<1>4. /\ client' \in [Clients -> Viewer] /\ AnswersAreAwaited'
      /\ \A k \in Clients : Told(k)' => Told(k) \/ k = h.from
      BY <1>1, <1>3, AnswerStep
<1>5. Trusted(h.from)
      BY DEF IInv, TrustInv, SaversAreTrusted, Trusted
<1> QED BY <1>2, <1>4, <1>5

(* A handler that goes on saves the same client.                            *)
LEMMA AdvanceStep ==
    ASSUME saving \in SUBSET Saving, NEW h \in saving, NEW next \in Saving,
           next.from = h.from, Advance(h, next)
    PROVE  saving' \in SUBSET Saving /\ Savers' = Savers
<1>1. saving' = (saving \ {h}) \cup {next}
      BY DEF Advance
<1>2. \A k : k \in Savers' <=> k \in Savers
      BY <1>1 DEF Savers
<1> QED BY <1>1, <1>2

(* ... and if it met no other, there is still no other.                     *)
LEMMA AdvanceTrust ==
    ASSUME IInv, NEW h \in saving, NEW next \in Saving, next.from = h.from,
           next.alone = h.alone, Advance(h, next),
           client_root' \subseteq cert_chain \cup add_cert,
           next.list \subseteq cert_chain \cup add_cert,
           h.alone => /\ next.pc # "append" => h.from \in client_root'
                      /\ next.pc \notin {"read", "list"} => next.list = client_root',
           UNCHANGED <<add_cert, cert_chain, disturbed>>
    PROVE  SaversAreTrusted'
<1>1. saving' = (saving \ {h}) \cup {next}
      BY DEF Advance
<1>2. ASSUME NEW g \in saving'
      PROVE  /\ g.list \cup {g.from} \subseteq cert_chain' \cup add_cert'
             /\ ~g.alone => g.from \in disturbed'
             /\ g.alone => /\ saving' = {g}
                           /\ g.pc # "append" => g.from \in client_root'
                           /\ g.pc \notin {"read", "list"} => g.list = client_root'
  <2>1. CASE g = next
    <3>1. h.from \in cert_chain \cup add_cert /\ (~h.alone => h.from \in disturbed)
          BY DEF IInv, TrustInv, SaversAreTrusted
    <3>2. h.alone => saving = {h}
          BY DEF IInv, TrustInv, SaversAreTrusted
    <3>3. h.alone => saving' = {next}
          BY <1>1, <3>2
    <3> QED BY <2>1, <3>1, <3>3
  <2>2. CASE g # next
    <3>1. g \in saving /\ g # h
          BY <1>1, <2>2
    <3>2. ~g.alone
          BY <3>1 DEF IInv, TrustInv, SaversAreTrusted
    <3>3. g.list \cup {g.from} \subseteq cert_chain \cup add_cert
          BY <3>1 DEF IInv, TrustInv, SaversAreTrusted
    <3>4. g.from \in disturbed
          BY <3>1, <3>2 DEF IInv, TrustInv, SaversAreTrusted
    <3> QED BY <3>2, <3>3, <3>4
  <2> QED BY <2>1, <2>2
<1> QED BY <1>2 DEF SaversAreTrusted

(* What TrustInv' is made of, when the verifier and what was vouched do not  *)
(* change and only who is trusted is told.                                  *)
LEMMA SaveTrust ==
    ASSUME IInv, UNCHANGED <<add_cert, cert_chain, vouched, restarts>>,
           \A k \in Clients : Told(k)' => Told(k) \/ Trusted(k),
           Wrecked => Wrecked',
           \A k \in Clients : k \in disturbed /\ ~Trusted(k) => k \in disturbed',
           file' \subseteq cert_chain \cup add_cert \cup file,
           SaversAreTrusted', TrustIsSaved'
    PROVE  TrustInv'
<1>1. \A k : Trusted(k)' <=> Trusted(k)
      BY DEF Trusted
<1>2. /\ client_root' \subseteq cert_chain \cup add_cert
      /\ client_root' \in SUBSET Clients
      BY DEF SaversAreTrusted, IInv, TypeOK
<1>3. AuthorisedIsVouched'
      BY <1>1, <1>2 DEF IInv, TrustInv, AuthorisedIsVouched, Trusted
<1>4. SavedIsVouched'
  <2> SUFFICES ASSUME NEW k \in file' PROVE \E a \in Attempt : <<k, a>> \in vouched
      BY DEF SavedIsVouched
  <2>1. CASE k \in file
        BY <2>1 DEF IInv, TrustInv, SavedIsVouched
  <2>2. CASE k \notin file
        BY <2>2 DEF IInv, TrustInv, AuthorisedIsVouched, Trusted, TypeOK
  <2> QED BY <2>1, <2>2
<1>5. PairedIsTrusted'
      BY <1>1 DEF IInv, TrustInv, PairedIsTrusted
<1> QED BY <1>3, <1>4, <1>5 DEF TrustInv

(* The steps of add_authorized_client and save_state, one lemma each.       *)
LEMMA AppendInv ==
    ASSUME IInv, NEW h \in saving, add_authorized_client(h),
           UNCHANGED <<add_cert, cert_chain, bridge, net, vouched, bounds>>
    PROVE  IInv'
<1> DEFINE n == [h EXCEPT !.pc = "read", !.list = {}]
<1>1. /\ h.pc = "append" /\ Advance(h, n)
      /\ client_root' \in {client_root \cup {h.from}, h.list \cup {h.from}}
      /\ UNCHANGED <<map_id_sess, client, file, torn, disturbed>>
      BY DEF add_authorized_client
<1>2. /\ saving \in SUBSET Saving /\ h \in Saving
      /\ h.list \cup {h.from} \subseteq cert_chain \cup add_cert
      /\ client_root \subseteq cert_chain \cup add_cert
      BY DEF IInv, TypeOK, TrustInv, SaversAreTrusted
<1>3. /\ n \in Saving /\ n.from = h.from /\ n.alone = h.alone /\ n.pc = "read"
      /\ n.list = {}
      BY <1>2 DEF Saving
<1> HIDE DEF n
<1>4. saving' \in SUBSET Saving /\ Savers' = Savers
      BY <1>1, <1>2, <1>3, AdvanceStep
<1>5. saving' = (saving \ {h}) \cup {n}
      BY <1>1 DEF Advance
<1>6. SaversAreTrusted'
  <2>1. h.from \in client_root' /\ client_root' \subseteq cert_chain \cup add_cert
        BY <1>1, <1>2
  <2> QED BY <1>1, <1>3, <2>1, AdvanceTrust
<1>7. Wrecked' <=> Wrecked
      BY <1>1, <1>3, <1>5 DEF Wrecked
<1>8. TrustIsSaved'
  <2> SUFFICES ASSUME NEW k \in Clients, Trusted(k)', k \notin (disturbed \cup Savers)'
               PROVE  /\ k \in client_root'
                      /\ (Wrecked \/ k \in file)'
                      /\ \A g \in saving' :
                           g.pc \notin {"read", "list"} => k \in g.list
    BY DEF TrustIsSaved
  <2>1. Trusted(k) /\ k \notin disturbed \cup Savers
        BY <1>1, <1>4 DEF Trusted
  <2>2. /\ k \in client_root /\ (Wrecked \/ k \in file)
        /\ \A g \in saving : g.pc \notin {"read", "list"} => k \in g.list
        BY <2>1 DEF IInv, TrustInv, TrustIsSaved
  <2> QED BY <1>1, <1>3, <1>5, <1>7, <2>2
<1>9. TrustInv'
      BY <1>1, <1>6, <1>7, <1>8, SaveTrust DEF Told, bounds
<1>10. KeysAreVouched' /\ AnswersAreAwaited'
       BY <1>1 DEF IInv, KeysAreVouched, AnswersAreAwaited
<1>11. TypeOK'
  <2>1. client_root' \in SUBSET Clients
        BY <1>1, <1>2 DEF IInv, TypeOK
  <2> QED BY <1>1, <1>4, <2>1 DEF IInv, TypeOK, bridge, bounds
<1> QED BY <1>9, <1>10, <1>11 DEF IInv

(* The list and the file stay, and the handler goes on with this pc and list. *)
LEMMA GoOnSavingInv ==
    ASSUME IInv, NEW h \in saving, NEW n \in Saving, Advance(h, n),
           n.from = h.from, n.alone = h.alone, n.pc # "append",
           h.pc # "append",
           n.pc \notin {"read", "list"} =>
               \/ n.list = client_root
               \/ n.list = h.list /\ h.pc \notin {"read", "list"},
           n.list = h.list \/ n.list = client_root,
           ~Wrecked, torn' \in BOOLEAN,
           UNCHANGED <<map_id_sess, client, client_root, file, disturbed>>,
           UNCHANGED <<add_cert, cert_chain, bridge, net, vouched, bounds>>
    PROVE  IInv'
<1>1. saving' = (saving \ {h}) \cup {n}
      BY DEF Advance
<1>2. /\ saving \in SUBSET Saving /\ h \in Saving
      /\ h.list \cup {h.from} \subseteq cert_chain \cup add_cert
      /\ client_root \subseteq cert_chain \cup add_cert
      /\ h.alone => /\ h.from \in client_root
                    /\ h.pc \notin {"read", "list"} => h.list = client_root
      BY DEF IInv, TypeOK, TrustInv, SaversAreTrusted
<1>3. saving' \in SUBSET Saving /\ Savers' = Savers
      BY <1>2, AdvanceStep
<1>4. SaversAreTrusted'
      BY <1>2, AdvanceTrust
<1>5. TrustIsSaved'
  <2> SUFFICES ASSUME NEW k \in Clients, Trusted(k)', k \notin (disturbed \cup Savers)'
               PROVE  /\ k \in client_root'
                      /\ (Wrecked \/ k \in file)'
                      /\ \A g \in saving' :
                           g.pc \notin {"read", "list"} => k \in g.list
    BY DEF TrustIsSaved
  <2>1. Trusted(k) /\ k \notin disturbed \cup Savers
        BY <1>3 DEF Trusted
  <2>2. /\ k \in client_root /\ (Wrecked \/ k \in file)
        /\ \A g \in saving : g.pc \notin {"read", "list"} => k \in g.list
        BY <2>1 DEF IInv, TrustInv, TrustIsSaved
  <2>3. n.pc \notin {"read", "list"} => k \in n.list
        BY <2>2
  <2> QED BY <1>1, <2>2, <2>3
<1>6. TrustInv'
      BY <1>4, <1>5, SaveTrust DEF Told, bounds
<1>7. KeysAreVouched' /\ AnswersAreAwaited'
      BY DEF IInv, KeysAreVouched, AnswersAreAwaited
<1>8. TypeOK'
      BY <1>3 DEF IInv, TypeOK, bridge, bounds
<1> QED BY <1>6, <1>7, <1>8 DEF IInv

LEMMA ReadInv ==
    ASSUME IInv, NEW h \in saving, save_stateRead(h),
           UNCHANGED <<add_cert, cert_chain, bridge, net, vouched, bounds>>
    PROVE  IInv'
<1>1. /\ h.pc = "read"
      /\ UNCHANGED <<client_root, file, torn, disturbed>>
      BY DEF save_stateRead
<1>2. saving \in SUBSET Saving /\ h \in Saving
      BY DEF IInv, TypeOK
<1>3. CASE torn
  <2>1. saving' = saving \ {h} /\ EndCall(h)
        BY <1>3 DEF save_stateRead
  <2>2. /\ map_id_sess' \in [Clients -> Session] /\ KeysAreVouched'
        /\ client' \in [Clients -> Viewer] /\ AnswersAreAwaited'
        /\ \A k \in Clients : Told(k)' => Told(k) \/ Trusted(k)
        BY <2>1, EndCallStep
  <2>3. Wrecked => Wrecked'
        BY <1>1, <2>1 DEF Wrecked
  <2>4. SaversAreTrusted'
    <3>1. \A g \in saving' : g \in saving /\ ~g.alone
          BY <2>1 DEF IInv, TrustInv, SaversAreTrusted
    <3> QED BY <1>1, <3>1 DEF IInv, TrustInv, SaversAreTrusted
  <2>5. TrustIsSaved'
    <3> SUFFICES ASSUME NEW k \in Clients, Trusted(k)', k \notin (disturbed \cup Savers)'
                 PROVE  /\ k \in client_root'
                        /\ (Wrecked \/ k \in file)'
                        /\ \A g \in saving' :
                             g.pc \notin {"read", "list"} => k \in g.list
      BY DEF TrustIsSaved
    <3>1. Trusted(k) /\ k \notin disturbed
          BY <1>1 DEF Trusted
    <3>2. CASE k \in Savers
      <4>1. k = h.from
        <5>1. PICK g \in saving : g.from = k
              BY <3>2 DEF Savers
        <5>2. g \notin saving'
              BY <5>1 DEF Savers
        <5> QED BY <2>1, <5>1, <5>2
      <4>2. h.alone
            BY <3>1, <4>1 DEF IInv, TrustInv, SaversAreTrusted
      <4>3. saving = {h} /\ h.from \in client_root
            BY <1>1, <4>2 DEF IInv, TrustInv, SaversAreTrusted
      <4>4. saving' = {}
            BY <2>1, <4>3
      <4> QED BY <1>1, <1>3, <4>1, <4>3, <4>4 DEF Wrecked
    <3>3. CASE k \notin Savers
      <4>1. /\ k \in client_root /\ (Wrecked \/ k \in file)
            /\ \A g \in saving : g.pc \notin {"read", "list"} => k \in g.list
            BY <3>1, <3>3 DEF IInv, TrustInv, TrustIsSaved
      <4> QED BY <1>1, <2>1, <2>3, <4>1
    <3> QED BY <3>2, <3>3
  <2>6. TrustInv'
        BY <1>1, <2>2, <2>3, <2>4, <2>5, SaveTrust DEF bounds
  <2>7. TypeOK'
        BY <1>1, <1>2, <2>1, <2>2 DEF IInv, TypeOK, bridge, bounds
  <2> QED BY <2>2, <2>6, <2>7 DEF IInv
<1>4. CASE ~torn
  <2> DEFINE n == [h EXCEPT !.pc = "list"]
  <2>1. Advance(h, n) /\ UNCHANGED <<map_id_sess, client>>
        BY <1>4 DEF save_stateRead
  <2>2. /\ n \in Saving /\ n.from = h.from /\ n.alone = h.alone
        /\ n.pc = "list" /\ n.list = h.list
        BY <1>2 DEF Saving
  <2>3. ~Wrecked /\ torn' \in BOOLEAN
        BY <1>1, <1>4 DEF Wrecked, IInv, TypeOK
  <2> HIDE DEF n
  <2> QED BY <1>1, <2>1, <2>2, <2>3, GoOnSavingInv
<1> QED BY <1>3, <1>4

LEMMA ListInv ==
    ASSUME IInv, NEW h \in saving, save_stateList(h) \/ save_stateOpen(h),
           UNCHANGED <<add_cert, cert_chain, bridge, net, vouched, bounds>>
    PROVE  IInv'
<1>1. h \in Saving /\ client_root \in SUBSET Clients /\ torn \in BOOLEAN
      BY DEF IInv, TypeOK
<1>2. ~Wrecked
      BY DEF save_stateList, save_stateOpen, Wrecked
<1>3. UNCHANGED <<map_id_sess, client, client_root, file, disturbed>>
      BY DEF save_stateList, save_stateOpen
<1>4. CASE save_stateList(h)
  <2> DEFINE n == [h EXCEPT !.pc = "open", !.list = client_root]
  <2>1. h.pc = "list" /\ Advance(h, n) /\ torn' \in BOOLEAN
        BY <1>1, <1>4 DEF save_stateList
  <2>2. /\ n \in Saving /\ n.from = h.from /\ n.alone = h.alone
        /\ n.pc = "open" /\ n.list = client_root
        BY <1>1 DEF Saving
  <2> HIDE DEF n
  <2> QED BY <1>2, <1>3, <2>1, <2>2, GoOnSavingInv
<1>5. CASE save_stateOpen(h)
  <2> DEFINE n == [h EXCEPT !.pc = "write"]
  <2>1. h.pc = "open" /\ Advance(h, n) /\ torn' \in BOOLEAN
        BY <1>5 DEF save_stateOpen
  <2>2. /\ n \in Saving /\ n.from = h.from /\ n.alone = h.alone
        /\ n.pc = "write" /\ n.list = h.list
        BY <1>1 DEF Saving
  <2> HIDE DEF n
  <2> QED BY <1>2, <1>3, <2>1, <2>2, GoOnSavingInv
<1> QED BY <1>4, <1>5

LEMMA WriteInv ==
    ASSUME IInv, NEW h \in saving, save_stateWrite(h),
           UNCHANGED <<add_cert, cert_chain, bridge, net, vouched, bounds>>
    PROVE  IInv'
<1> DEFINE mark(g) == [g EXCEPT !.pc = IF @ = "write" THEN "rewrite" ELSE @]
<1>1. /\ h.pc \in {"write", "rewrite"} /\ file' = h.list
      /\ torn' \in BOOLEAN
      /\ saving' = {mark(g) : g \in saving \ {h}}
      /\ disturbed' = IF h.alone THEN disturbed \ h.list ELSE disturbed
      /\ EndCall(h) /\ UNCHANGED client_root
      BY DEF save_stateWrite
<1>2. /\ saving \in SUBSET Saving /\ h \in Saving
      /\ h.list \cup {h.from} \subseteq cert_chain \cup add_cert
      BY DEF IInv, TypeOK, TrustInv, SaversAreTrusted
<1>3. \A g \in saving : /\ mark(g) \in Saving /\ mark(g).from = g.from
                        /\ mark(g).list = g.list /\ mark(g).alone = g.alone
                        /\ mark(g).pc \in {"read", "list"} <=> g.pc \in {"read", "list"}
  <2> SUFFICES ASSUME NEW g \in saving
               PROVE  /\ mark(g) \in Saving /\ mark(g).from = g.from
                      /\ mark(g).list = g.list /\ mark(g).alone = g.alone
                      /\ mark(g).pc \in {"read", "list"} <=> g.pc \in {"read", "list"}
      OBVIOUS
  <2>1. g \in Saving
        BY <1>2
  <2> QED BY <2>1 DEF Saving
<1> HIDE DEF mark
<1>4. ~Wrecked
      BY <1>1 DEF Wrecked
<1>5. /\ map_id_sess' \in [Clients -> Session] /\ KeysAreVouched'
      /\ client' \in [Clients -> Viewer] /\ AnswersAreAwaited'
      /\ \A k \in Clients : Told(k)' => Told(k) \/ Trusted(k)
      BY <1>1, EndCallStep
<1>6. \A g \in saving \ {h} : ~g.alone /\ ~h.alone
      BY DEF IInv, TrustInv, SaversAreTrusted
<1>7. SaversAreTrusted'
  <2>1. ASSUME NEW e \in saving'
        PROVE  /\ e.list \cup {e.from} \subseteq cert_chain' \cup add_cert'
               /\ ~e.alone /\ e.from \in disturbed'
    <3>1. PICK g \in saving \ {h} : e = mark(g)
          BY <1>1
    <3>2. /\ g.list \cup {g.from} \subseteq cert_chain \cup add_cert
          /\ g.from \in disturbed /\ ~h.alone
          BY <1>6 DEF IInv, TrustInv, SaversAreTrusted
    <3> QED BY <1>1, <1>3, <1>6, <3>1, <3>2
  <2>2. client_root' \subseteq cert_chain' \cup add_cert'
        BY <1>1 DEF IInv, TrustInv, SaversAreTrusted
  <2> QED BY <2>1, <2>2 DEF SaversAreTrusted
<1>8. TrustIsSaved'
  <2> SUFFICES ASSUME NEW k \in Clients, Trusted(k)', k \notin (disturbed \cup Savers)'
               PROVE  /\ k \in client_root' /\ k \in file'
                      /\ \A g \in saving' :
                           g.pc \notin {"read", "list"} => k \in g.list
    BY DEF TrustIsSaved
  <2>1. Trusted(k)
        BY DEF Trusted
  <2>2. CASE h.alone
    <3>1. saving = {h} /\ h.from \in client_root /\ h.list = client_root
          BY <1>1, <2>2 DEF IInv, TrustInv, SaversAreTrusted
    <3>2. saving' = {} /\ Savers = {h.from}
          BY <1>1, <3>1 DEF Savers
    <3>3. k \in client_root
      <4>1. CASE k \in disturbed \cup Savers
            BY <1>1, <2>2, <3>1, <3>2, <4>1
      <4>2. CASE k \notin disturbed \cup Savers
            BY <2>1, <4>2 DEF IInv, TrustInv, TrustIsSaved
      <4> QED BY <4>1, <4>2
    <3> QED BY <1>1, <3>1, <3>2, <3>3
  <2>3. CASE ~h.alone
    <3>1. k \notin disturbed /\ k # h.from
          BY <1>1, <2>3 DEF IInv, TrustInv, SaversAreTrusted
    <3>2. k \notin Savers
      <4> SUFFICES ASSUME NEW g \in saving, g.from = k PROVE FALSE
          BY DEF Savers
      <4>1. mark(g) \in saving' /\ mark(g).from = k
            BY <1>1, <1>3, <3>1
      <4> QED BY <4>1 DEF Savers
    <3>3. /\ k \in client_root
          /\ \A g \in saving : g.pc \notin {"read", "list"} => k \in g.list
          BY <2>1, <3>1, <3>2 DEF IInv, TrustInv, TrustIsSaved
    <3>4. ASSUME NEW e \in saving', e.pc \notin {"read", "list"} PROVE k \in e.list
      <4>1. PICK g \in saving \ {h} : e = mark(g)
            BY <1>1
      <4> QED BY <1>3, <3>3, <3>4, <4>1
    <3> QED BY <1>1, <3>3, <3>4
  <2> QED BY <2>2, <2>3
<1>9. \A k \in Clients : k \in disturbed /\ ~Trusted(k) => k \in disturbed'
      BY <1>1, <1>2 DEF Trusted
<1>10. TrustInv'
       BY <1>1, <1>2, <1>4, <1>5, <1>7, <1>8, <1>9, SaveTrust DEF bounds
<1>11. TypeOK'
  <2>1. saving' \in SUBSET Saving
        BY <1>1, <1>3
  <2>2. file' \in SUBSET Clients /\ disturbed' \in SUBSET Clients
        BY <1>1, <1>2 DEF Saving, IInv, TypeOK
  <2> QED BY <1>1, <1>5, <2>1, <2>2 DEF IInv, TypeOK, bridge, bounds
<1> QED BY <1>5, <1>10, <1>11 DEF IInv

LEMMA SaveInv == ASSUME IInv, Save PROVE IInv'
<1>1. PICK h \in saving :
        \/ add_authorized_client(h) \/ save_stateRead(h) \/ save_stateList(h)
        \/ save_stateOpen(h) \/ save_stateWrite(h)
      BY DEF Save
<1>2. UNCHANGED <<add_cert, cert_chain, bridge, net, vouched, bounds>>
      BY DEF Save
<1>3. CASE add_authorized_client(h)
      BY <1>2, <1>3, AppendInv
<1>4. CASE save_stateRead(h)
      BY <1>2, <1>4, ReadInv
<1>5. CASE save_stateList(h) \/ save_stateOpen(h)
      BY <1>2, <1>5, ListInv
<1>6. CASE save_stateWrite(h)
      BY <1>2, <1>6, WriteInv
<1> QED BY <1>1, <1>3, <1>4, <1>5, <1>6

LEMMA EnterPinInv == ASSUME IInv, EnterPin PROVE IInv'
<1>1. PICK pin \in Typed, d \in Clients :
        LET s     == map_id_sess[d]
            right == pin = <<d, s.salt>>
        IN
        \/ /\ s.phase = "NONE"
           /\ map_id_sess' = [map_id_sess EXCEPT ![d] =
                  [s EXCEPT !.phase = "GETSERVERCERT",
                            !.key = IF right THEN s.salt ELSE 0,
                            !.parked = FALSE]]
           /\ vouched' = IF right THEN vouched \cup {pin} ELSE vouched
           /\ client' = Answer(d, "getservercert", s.salt, "ok")
           /\ dialog' = "none"
        \/ /\ s.phase \notin {"absent", "NONE"}
           /\ map_id_sess' = remove_session(d)
           /\ client' \in {client, Answer(d, "getservercert", s.salt, "no")}
           /\ dialog' \in {dialog, "none"}
           /\ UNCHANGED vouched
      BY DEF EnterPin
<1>2. UNCHANGED <<trust, latest, pending, net, bounds>>
      BY DEF EnterPin
<1> DEFINE s == map_id_sess[d]
<1>3. /\ s \in Session /\ map_id_sess \in [Clients -> Session] /\ KeysAreVouched
      /\ s.hash # 0 => <<d, s.hash>> \in vouched
      /\ s.salt \in 0..MaxAttempts
      BY <1>1 DEF IInv, TypeOK, KeysAreVouched, Session
<1>4. CASE s.phase = "NONE"
  <2> DEFINE right == pin = <<d, s.salt>>
             key   == IF right THEN s.salt ELSE 0
             t     == [s EXCEPT !.phase = "GETSERVERCERT", !.key = key,
                                !.parked = FALSE]
  <2>1. /\ map_id_sess' = [map_id_sess EXCEPT ![d] = t]
        /\ vouched' = IF right THEN vouched \cup {pin} ELSE vouched
        /\ client' = Answer(d, "getservercert", s.salt, "ok")
        /\ dialog' = "none"
        BY <1>1, <1>4
  <2>2. key \in 0..MaxAttempts /\ (key # 0 => <<d, key>> \in vouched')
        BY <1>3, <2>1, PairingAssumption
  <2>3. /\ vouched \subseteq vouched'
        /\ vouched' \in SUBSET (Clients \X (0..MaxAttempts))
        BY <1>1, <1>3, <2>1 DEF IInv, TypeOK
  <2>4. latest \in Clients \cup {"none"}
        BY DEF IInv, TypeOK
  <2>5. t \in Session /\ t.key = key /\ t.hash = s.hash
    <3> HIDE DEF key
    <3> QED BY <1>3, <2>2, <2>4 DEF Session
  <2>6. map_id_sess' \in [Clients -> Session] /\ KeysAreVouched'
    <3> HIDE DEF s, t, key
    <3> QED BY <1>1, <1>3, <2>1, <2>2, <2>3, <2>5, SessionStep
  <2>7. /\ latest' \in Clients \cup {"none"} /\ pending' \in BOOLEAN
        /\ dialog' \in Clients \cup {"none"} /\ net' \in SUBSET Message
        BY <1>2, <2>1 DEF IInv, TypeOK
  <2>8. UNCHANGED trust /\ UNCHANGED bounds /\ "getservercert" \in Request
        BY <1>2 DEF Request
  <2> HIDE DEF s, t, key
  <2> QED BY <1>1, <2>1, <2>3, <2>6, <2>7, <2>8, GoOnInv
<1>5. CASE s.phase # "NONE"
  <2>1. /\ map_id_sess' = remove_session(d)
        /\ client' \in {client, Answer(d, "getservercert", s.salt, "no")}
        /\ dialog' \in {dialog, "none"}
        /\ UNCHANGED vouched
        BY <1>1, <1>5
  <2>2. map_id_sess' \in [Clients -> Session] /\ KeysAreVouched'
        BY <1>1, <1>3, <2>1, EraseStep
  <2>3. /\ client' \in [Clients -> Viewer] /\ AnswersAreAwaited'
        /\ \A k \in Clients : Told(k)' => Told(k)
    <3>1. client \in [Clients -> Viewer] /\ AnswersAreAwaited
          BY DEF IInv, TypeOK
    <3>2. CASE client' = client
          BY <3>1, <3>2 DEF AnswersAreAwaited, Told
    <3>3. CASE client' = Answer(d, "getservercert", s.salt, "no")
      <4>1. "getservercert" \in Request
            BY DEF Request
      <4> HIDE DEF s
      <4> QED BY <1>1, <3>1, <3>3, <4>1, AnswerStep
    <3> QED BY <2>1, <3>2, <3>3
  <2>4. TrustInv'
        BY <1>2, <2>1, <2>3, TrustStep DEF IInv, trust, bounds
  <2>5. TypeOK'
        BY <1>2, <2>1, <2>2, <2>3 DEF IInv, TypeOK, trust, saves, bounds
  <2> QED BY <2>2, <2>3, <2>4, <2>5 DEF IInv
<1> QED BY <1>4, <1>5

(* The host dies and is back with what its file says.                       *)
LEMMA RestartInv == ASSUME IInv, Restart PROVE IInv'
<1>1. /\ restarts < MaxRestarts /\ restarts' = restarts + 1
      /\ map_id_sess' = [c \in Clients |-> Absent]
      /\ client_root' = IF torn THEN {} ELSE file
      /\ cert_chain' = client_root' /\ add_cert' = {}
      /\ saving' = {} /\ disturbed' = disturbed \cup Savers
      /\ latest' = "none" /\ pending' = FALSE /\ dialog' = "none"
      /\ net' = {}
      /\ UNCHANGED <<file, torn, client, vouched, timeouts>>
      BY DEF Restart
<1>2. Absent \in Session /\ Absent.key = 0 /\ Absent.hash = 0
      BY PairingAssumption DEF Absent, Session
<1>3. KeysAreVouched'
      BY <1>1, <1>2 DEF KeysAreVouched
<1>4. AnswersAreAwaited'
      BY <1>1 DEF IInv, AnswersAreAwaited
<1>5. \A c : Trusted(c)' <=> ~torn /\ c \in file
      BY <1>1 DEF Trusted
<1>6. SaversAreTrusted'
      BY <1>1 DEF SaversAreTrusted
<1>7. TrustIsSaved'
      BY <1>1, <1>5 DEF TrustIsSaved
<1>8. AuthorisedIsVouched' /\ SavedIsVouched'
      BY <1>1, <1>5 DEF IInv, TrustInv, AuthorisedIsVouched, SavedIsVouched
<1>9. PairedIsTrusted'
  <2> SUFFICES ASSUME NEW k \in Clients, Told(k)', ~torn, k \notin disturbed'
               PROVE  Trusted(k)'
    <3>1. torn => Wrecked'
          BY <1>1 DEF Wrecked
    <3>2. restarts' > 0
          BY <1>1, PairingAssumption DEF IInv, TypeOK
    <3> QED BY <1>1, <3>1, <3>2 DEF PairedIsTrusted
  <2>1. Told(k) /\ k \notin disturbed \cup Savers /\ ~Wrecked
        BY <1>1 DEF Told, Wrecked
  <2>2. Trusted(k)
        BY <2>1 DEF IInv, TrustInv, PairedIsTrusted
  <2>3. k \in file
        BY <2>1, <2>2 DEF IInv, TrustInv, TrustIsSaved
  <2> QED BY <1>5, <2>3
<1>10. TypeOK'
  <2>1. restarts' \in 0..MaxRestarts
        BY <1>1, PairingAssumption DEF IInv, TypeOK
  <2>2. /\ client_root' \in SUBSET Clients /\ cert_chain' \in SUBSET Clients
        /\ disturbed' \in SUBSET Clients
        BY <1>1 DEF IInv, TypeOK, Savers, Saving
  <2>3. map_id_sess' \in [Clients -> Session]
        BY <1>1, <1>2
  <2> QED BY <1>1, <2>1, <2>2, <2>3 DEF IInv, TypeOK
<1> QED BY <1>3, <1>4, <1>6, <1>7, <1>8, <1>9, <1>10 DEF IInv, TrustInv

(* The dialog's steps touch neither sessions nor viewers.                   *)
LEMMA DialogInv == ASSUME IInv, ShowRequest \/ Deny PROVE IInv'
<1>1. /\ UNCHANGED <<map_id_sess, trust, client, net, vouched, bounds, latest>>
      /\ pending' \in BOOLEAN /\ dialog' \in Clients \cup {"none"}
      BY DEF ShowRequest, Deny, IInv, TypeOK
<1>2. TrustInv'
      BY <1>1, TrustStep DEF IInv, Told, trust, bounds
<1>3. KeysAreVouched' /\ AnswersAreAwaited'
      BY <1>1 DEF IInv, KeysAreVouched, AnswersAreAwaited
<1>4. TypeOK'
      BY <1>1 DEF IInv, TypeOK, trust, saves, bounds
<1> QED BY <1>2, <1>3, <1>4 DEF IInv

(* A viewer that asks waits, with no answer yet.                            *)
LEMMA AskStep ==
    ASSUME client \in [Clients -> Viewer], net \in SUBSET Message,
           AnswersAreAwaited, NEW c \in Clients, NEW phase \in Request,
           NEW att \in Attempt, NEW good \in BOOLEAN,
           Ask(c, phase, att, good)
    PROVE  /\ client' \in [Clients -> Viewer] /\ net' \in SUBSET Message
           /\ AnswersAreAwaited'
           /\ \A k \in Clients : Told(k)' =>
                Told(k) \/ (k = c /\ phase = "pairchallenge")
<1> DEFINE v == [pc |-> phase, att |-> att, ans |-> "none"]
           m == [from |-> c, phase |-> phase, att |-> att, good |-> good]
<1>1. client' = [client EXCEPT ![c] = v] /\ net' = net \cup {m}
      BY DEF Ask
<1>2. v \in Viewer /\ v.ans = "none" /\ v.pc = phase /\ v.att \in Attempt
      BY PairingAssumption DEF Viewer, Waiting, Attempt
<1>3. m \in Message
      BY DEF Message
<1> HIDE DEF v, m
<1>4. client' \in [Clients -> Viewer] /\ net' \in SUBSET Message
      BY <1>1, <1>2, <1>3
<1>5. AnswersAreAwaited'
      BY <1>1, <1>2 DEF AnswersAreAwaited
<1>6. ASSUME NEW k \in Clients, Told(k)', ~Told(k)
      PROVE  k = c /\ phase = "pairchallenge"
  <2>1. k = c
        BY <1>1, <1>6 DEF Told
  <2>2. client'[k] = v
        BY <1>1, <2>1
  <2>3. phase = "pairchallenge"
        BY <1>2, <1>6, <2>2 DEF Told, Request
  <2> QED BY <2>1, <2>3
<1>7. \A k \in Clients : Told(k)' =>
        Told(k) \/ (k = c /\ phase = "pairchallenge")
      BY <1>6
<1> QED BY <1>4, <1>5, <1>7

LEMMA StartPairInv ==
    ASSUME IInv, NEW c \in Clients, StartPair(c) PROVE IInv'
<1>1. /\ client[c].pc \in {"idle", "failed"} /\ client[c].att < MaxAttempts
      /\ cert_chain' = cert_chain \cup add_cert /\ add_cert' = {}
      /\ UNCHANGED <<map_id_sess, saves, bridge, vouched, bounds>>
      BY DEF StartPair, verify
<1>2. /\ client \in [Clients -> Viewer] /\ net \in SUBSET Message
      /\ AnswersAreAwaited
      BY DEF IInv, TypeOK
<1>3. /\ client' \in [Clients -> Viewer] /\ net' \in SUBSET Message
      /\ AnswersAreAwaited'
      /\ \A k \in Clients : Told(k)' => Told(k) \/ Trusted(k)
  <2>1. CASE Trusted(c)
    <3>1. client' = [client EXCEPT ![c].pc = "paired"] /\ net' = net
          BY <2>1 DEF StartPair
    <3>2. client[c].ans = "none"
          BY <1>1, <1>2 DEF AnswersAreAwaited, Waiting, Request, Viewer
    <3>3. client' \in [Clients -> Viewer]
          BY <1>2, <3>1 DEF Viewer
    <3>4. AnswersAreAwaited'
          BY <1>2, <3>1, <3>2, <3>3 DEF AnswersAreAwaited, Viewer, Waiting, Request
    <3>5. \A k \in Clients : Told(k)' => Told(k) \/ Trusted(k)
          BY <1>2, <2>1, <3>1 DEF Told, Viewer
    <3> QED BY <1>2, <3>1, <3>3, <3>4, <3>5
  <2>2. CASE ~Trusted(c)
    <3>1. Ask(c, "getservercert", client[c].att + 1, TRUE)
          BY <2>2 DEF StartPair
    <3>2. client[c].att + 1 \in Attempt
          BY <1>1, <1>2, PairingAssumption DEF Viewer, Attempt
    <3>3. "getservercert" \in Request
          BY DEF Request
    <3> QED BY <1>2, <3>1, <3>2, <3>3, AskStep
  <2> QED BY <2>1, <2>2
<1>4. TrustInv'
      BY <1>1, <1>3, TrustStep DEF IInv, bounds
<1>5. KeysAreVouched'
      BY <1>1 DEF IInv, KeysAreVouched
<1>6. TypeOK'
      BY <1>1, <1>3 DEF IInv, TypeOK, saves, bridge, bounds
<1> QED BY <1>3, <1>4, <1>5, <1>6 DEF IInv

(* What the steps of gs_pair that leave the host alone have in common.      *)
LEMMA ViewerInv ==
    ASSUME IInv, UNCHANGED <<map_id_sess, trust, bridge, vouched>>,
           client' \in [Clients -> Viewer], net' \in SUBSET Message,
           AnswersAreAwaited', \A k \in Clients : Told(k)' => Told(k),
           timeouts' \in 0..MaxTimeouts, UNCHANGED restarts
    PROVE  IInv'
<1>1. TrustInv'
      BY TrustStep DEF IInv, trust
<1>2. KeysAreVouched'
      BY DEF IInv, KeysAreVouched
<1>3. TypeOK'
      BY DEF IInv, TypeOK, trust, saves, bridge
<1> QED BY <1>1, <1>2, <1>3 DEF IInv

LEMMA ProceedInv == ASSUME IInv, NEW c \in Clients, Proceed(c) PROVE IInv'
<1>1. /\ client[c].ans \in {"ok", "garbled"}
      /\ UNCHANGED <<map_id_sess, trust, bridge, vouched, bounds>>
      BY DEF Proceed
<1>2. /\ client \in [Clients -> Viewer] /\ net \in SUBSET Message
      /\ AnswersAreAwaited
      BY DEF IInv, TypeOK
<1>3. client[c].pc \in Request
      BY <1>1, <1>2 DEF AnswersAreAwaited, Waiting
<1>4. timeouts' \in 0..MaxTimeouts /\ UNCHANGED restarts
      BY <1>1 DEF IInv, TypeOK, bounds
<1>5. CASE client[c].pc = "pairchallenge"
  <2>1. /\ client' = [client EXCEPT ![c].pc = "paired", ![c].ans = "none"]
        /\ net' = net
        BY <1>5 DEF Proceed
  <2>2. client' \in [Clients -> Viewer]
        BY <1>2, <2>1 DEF Viewer
  <2>3. AnswersAreAwaited'
        BY <1>2, <2>1, <2>2 DEF AnswersAreAwaited, Viewer, Waiting, Request
  <2>4. \A k \in Clients : Told(k)' => Told(k)
        BY <1>2, <1>5, <2>1 DEF Told, Viewer
  <2> QED BY <1>1, <1>2, <1>4, <2>1, <2>2, <2>3, <2>4, ViewerInv
<1>6. CASE client[c].pc # "pairchallenge"
  <2>1. Ask(c, Follows(client[c].pc), client[c].att, client[c].ans = "ok")
        BY <1>6 DEF Proceed
  <2>2. /\ Follows(client[c].pc) \in Request
        /\ Follows(client[c].pc) = "pairchallenge" => Told(c)
    <3>1. client[c].ans = "garbled" => client[c].pc = "clientchallenge"
          BY <1>2 DEF AnswersAreAwaited
    <3>2. CASE client[c].pc = "clientpairingsecret"
          BY <1>1, <3>1, <3>2 DEF Follows, Told, Request
    <3>3. CASE client[c].pc # "clientpairingsecret"
          BY <1>3, <1>6, <3>3 DEF Follows, Request
    <3> QED BY <3>2, <3>3
  <2>3. client[c].att \in Attempt
        BY <1>2, <1>3 DEF AnswersAreAwaited, Waiting
  <2>4. (client[c].ans = "ok") \in BOOLEAN
        OBVIOUS
  <2>5. /\ client' \in [Clients -> Viewer] /\ net' \in SUBSET Message
        /\ AnswersAreAwaited' /\ \A k \in Clients : Told(k)' => Told(k)
        BY <1>2, <2>1, <2>2, <2>3, <2>4, AskStep
  <2> QED BY <1>1, <1>4, <2>5, ViewerInv
<1> QED BY <1>5, <1>6

LEMMA FailInv ==
    ASSUME IInv, NEW c \in Clients, Failed(c) \/ Timeout(c) PROVE IInv'
<1>1. /\ client' = [client EXCEPT ![c].pc = "failed", ![c].ans = "none"]
      /\ UNCHANGED <<map_id_sess, trust, bridge, vouched>>
      /\ UNCHANGED restarts
      BY DEF Failed, Timeout, Fail, bounds
<1>2. timeouts' \in 0..MaxTimeouts
      BY PairingAssumption DEF Failed, Timeout, IInv, TypeOK, bounds
<1>3. net' \in SUBSET Message
      BY DEF Failed, Timeout, IInv, TypeOK
<1>4. client \in [Clients -> Viewer] /\ AnswersAreAwaited
      BY DEF IInv, TypeOK
<1>5. client' \in [Clients -> Viewer]
      BY <1>1, <1>4 DEF Viewer
<1>6. AnswersAreAwaited'
      BY <1>1, <1>4, <1>5 DEF AnswersAreAwaited, Viewer, Waiting, Request
<1>7. \A k \in Clients : Told(k)' => Told(k)
      BY <1>1, <1>4 DEF Told, Viewer
<1> QED BY <1>1, <1>2, <1>3, <1>5, <1>6, <1>7, ViewerInv

LEMMA StepInv == IInv /\ [Next]_vars => IInv'
<1> SUFFICES ASSUME IInv, [Next]_vars PROVE IInv'
    OBVIOUS
<1>1. CASE Handle
      BY <1>1, HandleInv
<1>2. CASE ShowRequest \/ Deny
      BY <1>2, DialogInv
<1>3. CASE EnterPin
      BY <1>3, EnterPinInv
<1>4. ASSUME NEW c \in Clients,
             StartPair(c) \/ Proceed(c) \/ Failed(c) \/ Timeout(c)
      PROVE  IInv'
      BY <1>4, StartPairInv, ProceedInv, FailInv
<1>5. CASE Restart
      BY <1>5, RestartInv
<1>6. CASE Save
      BY <1>6, SaveInv
<1>7. CASE UNCHANGED vars
  <2>1. /\ UNCHANGED <<map_id_sess, client, net, vouched, timeouts, restarts>>
        /\ UNCHANGED <<add_cert, cert_chain, saves>>
        /\ UNCHANGED <<client_root, file, torn, saving, disturbed>>
        /\ UNCHANGED <<latest, pending, dialog>>
        BY <1>7 DEF vars, trust, saves, bridge, bounds
  <2>2. TypeOK'
        BY <2>1 DEF IInv, TypeOK
  <2>3. TrustInv'
        BY <2>1, TrustStep DEF IInv, Told
  <2> QED BY <2>1, <2>2, <2>3 DEF IInv, KeysAreVouched, AnswersAreAwaited
<1> QED BY <1>1, <1>2, <1>3, <1>4, <1>5, <1>6, <1>7 DEF Next

-----------------------------------------------------------------------------
(* The inductive invariant of the handshake holds in every reachable state. *)
THEOREM Invariance == Spec => []IInv
<1> QED BY InitInv, StepInv, PTL DEF Spec

(* Nobody is authorised at the host unless the PIN of one of its own        *)
(* attempts was typed there (nvhttp.cpp, clientpairingsecret).              *)
THEOREM Authorised == Spec => []AuthorisedIsVouched
<1>1. IInv => AuthorisedIsVouched
      BY DEF IInv, TrustInv
<1> QED BY <1>1, Invariance, PTL

(* A viewer that was told it is paired is trusted; after a restart of the   *)
(* host, if the state file is whole, and if the viewer's save met neither   *)
(* another's nor the host's death, or somebody has paired undisturbed since *)
(* (nvhttp.cpp, clientpairingsecret, save_state, load_state).               *)
THEOREM Trust == Spec => []PairedIsTrusted
<1>1. IInv => PairedIsTrusted
      BY DEF IInv, TrustInv
<1> QED BY <1>1, Invariance, PTL

-----------------------------------------------------------------------------
\* Certificates only move from the queue to the chain, new ones join it, and
\* a restart takes them all from the file.
LEMMA TrustKeptStep ==
    ASSUME IInv, [Next]_vars, NEW c \in Clients, Trusted(c)
    PROVE  \/ Trusted(c)'
           \/ (restarts' # restarts /\ (torn \/ c \in disturbed \cup Savers))
<1> USE DEF Trusted
<1>1. ASSUME NEW m \in net, ParkRequest(m)
      PROVE  Trusted(c)'
  BY <1>1 DEF ParkRequest, trust
<1>2. ASSUME NEW m \in net, clientchallenge(m) \/ serverchallengeresp(m)
      PROVE  Trusted(c)'
  BY <1>2 DEF clientchallenge, serverchallengeresp, RefuseCall, trust
<1>3. ASSUME NEW m \in net, clientpairingsecret(m)
      PROVE  Trusted(c)'
  BY <1>3 DEF clientpairingsecret, AcceptClient, RefuseCall, trust
<1>4. ASSUME NEW m \in net, pairchallenge(m)
      PROVE  Trusted(c)'
  BY <1>4 DEF pairchallenge, verify
<1>5. CASE Save
  BY <1>5 DEF Save
<1>6. CASE ShowRequest \/ EnterPin \/ Deny
  BY <1>6 DEF ShowRequest, EnterPin, Deny, trust
<1>7. ASSUME NEW d \in Clients,
             StartPair(d) \/ Proceed(d) \/ Failed(d) \/ Timeout(d)
      PROVE  Trusted(c)'
  BY <1>7 DEF StartPair, verify, Proceed, Failed, Timeout, trust
<1>8. CASE Restart
  <2>1. restarts' # restarts
    BY <1>8 DEF Restart, IInv, TypeOK
  <2>2. ~torn /\ c \notin disturbed \cup Savers => c \in file
    BY DEF IInv, TrustInv, TrustIsSaved, Wrecked
  <2>3. ~torn => cert_chain' = file
    BY <1>8 DEF Restart
  <2> QED BY <2>1, <2>2, <2>3
<1>9. CASE UNCHANGED vars
  BY <1>9 DEF vars, trust
<1> QED BY <1>1, <1>2, <1>3, <1>4, <1>5, <1>6, <1>7, <1>8, <1>9 DEF Next, Handle

(* crypto.cpp verify, nvhttp.cpp:183, :220, :285: nobody is dropped from the *)
(* clients that are trusted but by a restart, and then only from a torn file *)
(* or if its save was disturbed.                                            *)
THEOREM NobodyIsDropped == Spec => TrustIsKept
<1>1. IInv /\ [Next]_vars =>
          [\A c \in Clients : Trusted(c) =>
              \/ Trusted(c)'
              \/ (restarts' # restarts
                   /\ (torn \/ c \in disturbed \cup Savers))]_vars
  BY TrustKeptStep
<1> QED BY <1>1, Invariance, PTL DEF Spec, TrustIsKept

\* The dialog is asked for in the name of a viewer.
AskedByName == pending => latest # "none"

LEMMA NameStep ==
    ASSUME IInv, AskedByName, [Next]_vars
    PROVE  AskedByName'
<1> USE DEF AskedByName
<1>1. CASE UNCHANGED <<latest, pending>>
  BY <1>1
<1>2. ASSUME NEW m \in net, ParkRequest(m)
      PROVE  AskedByName'
  BY <1>2, PairingAssumption DEF ParkRequest, IInv, TypeOK, Message
<1>3. CASE ShowRequest \/ Restart
  BY <1>3 DEF ShowRequest, Restart
<1> QED
  BY <1>1, <1>2, <1>3
     DEF Next, Handle, Save, clientchallenge, serverchallengeresp,
         clientpairingsecret, AcceptClient, pairchallenge, RefuseCall, EnterPin, Deny, StartPair, Proceed, Failed,
         Timeout, bridge, vars

\* A request parks and asks for the dialog in one step, and the dialog closes
\* on the one session there is.
LEMMA ParkedStep ==
    ASSUME IInv, ParkedIsShown, AskedByName, [Next]_vars
    PROVE  ParkedIsShown'
<1> SUFFICES ASSUME NEW c \in Clients, Diligent, Clients = {c}, map_id_sess'[c].parked
             PROVE  pending' \/ dialog' # "none"
  BY DEF ParkedIsShown
<1> USE PairingAssumption DEF IInv, TypeOK, ParkedIsShown
<1>1. CASE UNCHANGED <<map_id_sess, bridge>>
  BY <1>1 DEF bridge
<1>2. ASSUME NEW m \in net, ParkRequest(m)
      PROVE  pending'
  BY <1>2 DEF ParkRequest
<1>3. ASSUME NEW m \in net,
             clientchallenge(m) \/ serverchallengeresp(m) \/ clientpairingsecret(m)
      PROVE  pending' \/ dialog' # "none"
  <2>1. m.from = c
    BY DEF Message
  <2>2. UNCHANGED bridge
    BY <1>3 DEF clientchallenge, serverchallengeresp, clientpairingsecret,
                AcceptClient, RefuseCall
  <2>3. \/ map_id_sess' = remove_session(c)
        \/ map_id_sess[c].parked
    <3> DEFINE s == map_id_sess[c]
    <3>1. s \in Session /\ c \in DOMAIN map_id_sess
      OBVIOUS
    <3>2. CASE clientchallenge(m) \/ serverchallengeresp(m)
      <4>1. \/ map_id_sess' = remove_session(c)
            \/ map_id_sess' = [map_id_sess EXCEPT ![c] = [s EXCEPT !.phase = "CLIENTCHALLENGE"]]
            \/ \E a : map_id_sess' = [map_id_sess EXCEPT ![c] =
                         [s EXCEPT !.phase = "SERVERCHALLENGERESP", !.hash = a]]
        BY <2>1, <3>2 DEF clientchallenge, serverchallengeresp, RefuseCall
      <4>2. \/ map_id_sess' = remove_session(c)
            \/ map_id_sess'[c] = [s EXCEPT !.phase = "CLIENTCHALLENGE"]
            \/ \E a : map_id_sess'[c] = [s EXCEPT !.phase = "SERVERCHALLENGERESP",
                                                  !.hash = a]
        <5> HIDE DEF s
        <5> QED BY <3>1, <4>1
      <4>3. map_id_sess' = remove_session(c) \/ map_id_sess'[c].parked = s.parked
        <5> HIDE DEF s
        <5> QED BY <3>1, <4>2 DEF Session
      <4> QED BY <4>3
    <3>3. CASE clientpairingsecret(m)
      <4>1. \/ map_id_sess' = remove_session(c)
            \/ map_id_sess' = [map_id_sess EXCEPT ![c] =
                                 [s EXCEPT !.phase = "CLIENTPAIRINGSECRET"]]
        BY <2>1, <3>3 DEF clientpairingsecret, AcceptClient, RefuseCall
      <4>2. \/ map_id_sess' = remove_session(c)
            \/ map_id_sess'[c] = [s EXCEPT !.phase = "CLIENTPAIRINGSECRET"]
        <5> HIDE DEF s
        <5> QED BY <3>1, <4>1
      <4>3. map_id_sess' = remove_session(c) \/ map_id_sess'[c].parked = s.parked
        <5> HIDE DEF s
        <5> QED BY <3>1, <4>2 DEF Session
      <4> QED BY <4>3
    <3> QED BY <1>3, <3>2, <3>3
  <2>4. map_id_sess' # remove_session(c)
    BY DEF remove_session, Absent
  <2> QED BY <2>2, <2>3, <2>4 DEF bridge
<1>4. ASSUME NEW m \in net, pairchallenge(m)
      PROVE  UNCHANGED <<map_id_sess, bridge>>
  BY <1>4 DEF pairchallenge
<1>5. CASE ShowRequest
  <2>1. pending /\ dialog' = latest
    BY <1>5 DEF ShowRequest
  <2> QED BY <2>1 DEF AskedByName
<1>6. CASE EnterPin
  <2>1. PICK d \in Clients :
           \/ map_id_sess' = remove_session(d)
           \/ \E k : map_id_sess' = [map_id_sess EXCEPT ![d] =
                        [map_id_sess[d] EXCEPT !.phase = "GETSERVERCERT",
                            !.key = k, !.parked = FALSE]]
    BY <1>6 DEF EnterPin
  <2>2. d = c
    OBVIOUS
  <2>3. CASE map_id_sess' = remove_session(d)
    BY <2>2, <2>3 DEF remove_session, Absent
  <2>4. ASSUME NEW k,
               map_id_sess' = [map_id_sess EXCEPT ![d] =
                   [map_id_sess[d] EXCEPT !.phase = "GETSERVERCERT",
                       !.key = k, !.parked = FALSE]]
        PROVE  FALSE
    <3> DEFINE s == map_id_sess[d]
               t == [s EXCEPT !.phase = "GETSERVERCERT", !.key = k,
                              !.parked = FALSE]
    <3>1. s \in Session /\ map_id_sess' = [map_id_sess EXCEPT ![d] = t]
      BY <2>4
    <3>2. map_id_sess'[c] = t
      <4> HIDE DEF t
      <4> QED BY <2>2, <3>1
    <3>3. t.parked = FALSE
      <4> HIDE DEF s
      <4> QED BY <3>1 DEF Session
    <3> QED BY <3>2, <3>3
  <2> QED BY <2>1, <2>3, <2>4
<1>7. CASE Deny
  BY <1>7 DEF Deny
<1>8. ASSUME NEW d \in Clients,
             StartPair(d) \/ Proceed(d) \/ Failed(d) \/ Timeout(d)
      PROVE  UNCHANGED <<map_id_sess, bridge>>
  BY <1>8 DEF StartPair, Proceed, Failed, Timeout
<1>9. CASE Restart
  BY <1>9 DEF Restart, Absent
<1>10. CASE Save
  <2>1. UNCHANGED bridge /\ \E d \in Clients : map_id_sess' = remove_session(d)
                                            \/ map_id_sess' = map_id_sess
    <3>1. PICK h \in saving :
            \/ add_authorized_client(h) \/ save_stateRead(h) \/ save_stateList(h)
            \/ save_stateOpen(h) \/ save_stateWrite(h)
      BY <1>10 DEF Save
    <3>2. h.from \in Clients
      BY DEF Saving
    <3> QED BY <1>10, <3>1, <3>2
        DEF Save, add_authorized_client, save_stateRead, save_stateList,
            save_stateOpen, save_stateWrite, EndCall
  <2>2. map_id_sess' # remove_session(c)
    BY DEF remove_session, Absent
  <2> QED BY <1>1, <2>1, <2>2
<1>11. CASE UNCHANGED vars
  BY <1>1, <1>11 DEF vars
<1> QED BY <1>1, <1>2, <1>3, <1>4, <1>5, <1>6, <1>7, <1>8, <1>9, <1>10, <1>11
        DEF Next, Handle

(* pin_bridge.cpp, pin_dialog.cpp: where one viewer pairs and nobody denies  *)
(* it, a request that is parked is seen, or will be at the next frame.       *)
THEOREM RequestIsSeen == Spec => []ParkedIsShown
<1>1. Init => ParkedIsShown /\ AskedByName
  <2> SUFFICES ASSUME Init PROVE ParkedIsShown /\ AskedByName
    OBVIOUS
  <2>1. \A c \in Clients : map_id_sess[c].parked = FALSE
    BY DEF Init, Absent
  <2> QED BY <2>1 DEF Init, ParkedIsShown, AskedByName
<1>2. IInv /\ ParkedIsShown /\ AskedByName /\ [Next]_vars
        => ParkedIsShown' /\ AskedByName'
  BY ParkedStep, NameStep
<1> QED BY <1>1, <1>2, Invariance, PTL DEF Spec
=============================================================================
