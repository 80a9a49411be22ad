---------------------------- MODULE SignalProofs ---------------------------
(***************************************************************************)
(* Proofs about the signaling server, for any number of peers, connections *)
(* and register frames.                                                    *)
(***************************************************************************)
EXTENDS Signal, TLAPS

\* A connection is unregistered until it has opened.
FreshConn == \A c \in Conn : ws[c] = "new" => registered[c] = Nobody

\* A connection that has not registered is not in the map and was told of
\* nobody that went offline.
Unregistered ==
  \A c \in Conn : registered[c] = Nobody =>
    \A p \in Peer : peers[p] # c /\ told[c][p] # "offline"

\* What the nonces remember: a frame that was accepted is either too old to
\* pass the skew check or its nonce is still known.
Remembered ==
  \A f \in Frame :
    accepted[f] > 0 =>
      now > f.timestamp + MaxSkew \/ recentNonces[f.nonce] = f.timestamp

Inv == TypeOK /\ FreshConn /\ Unregistered /\ Routable /\ NoFalseOffline

NonceInv == TypeOK /\ Remembered /\ AcceptedOnce

---------------------------------------------------------------------------
\* The initial state satisfies the invariants.
LEMMA InitInv == Init => Inv /\ NonceInv
BY SignalAssumption
DEF Init, Inv, NonceInv, TypeOK, FreshConn, Unregistered, Routable, NoFalseOffline, Remembered, AcceptedOnce,
    Untold, Never, Open, Nonce

\* Dropping expired nonces leaves a map of nonces.
LEMMA CleanupType ==
  ASSUME TypeOK
  PROVE  CleanupExpiredNonces \in [Nonce -> Nat \cup {Never}]
BY DEF TypeOK, CleanupExpiredNonces

\* Telling someone a status keeps the type of the observations.
LEMMA TellType ==
  ASSUME TypeOK, NEW S, NEW p \in Peer, NEW status \in {"nothing", "online", "offline"}
  PROVE  Tell(told, S, p, status) \in [Conn -> [Peer -> {"nothing", "online", "offline"}]]
BY DEF TypeOK, Tell

\* Every step keeps the type invariant.
LEMMA NextType == TypeOK /\ [Next]_vars => TypeOK'
<1> SUFFICES ASSUME TypeOK, [Next]_vars
             PROVE  TypeOK'
  OBVIOUS
<1> USE SignalAssumption
<1>1. ASSUME NEW c \in Conn, NEW f \in Frame, Register(c, f)
      PROVE  TypeOK'
  <2> DEFINE p == f.peer
  <2>1. p \in Peer /\ f.timestamp \in Nat /\ f.nonce \in Nonce
    BY DEF Nonce
  <2>2. Replaced(c, p) \in [Conn -> {"new", "open", "replaced", "closing", "closed"}]
    BY <2>1 DEF Replaced, TypeOK
  <2>3. told' \in [Conn -> [Peer -> {"nothing", "online", "offline"}]]
    BY <1>1, <2>1, TellType DEF Register
  <2>4. recentNonces' \in [Nonce -> Nat \cup {Never}]
    BY <1>1, <2>1, CleanupType DEF Register
  <2>5. /\ ws' = Replaced(c, p)
        /\ peers' = [peers EXCEPT ![p] = c]
        /\ registered' = [registered EXCEPT ![c] = p]
        /\ lastSeen' = [lastSeen EXCEPT ![p] = Never]
        /\ accepted' = [accepted EXCEPT ![f] = @ + 1]
        /\ now' = now
    BY <1>1 DEF Register
  <2> QED BY <2>1, <2>2, <2>3, <2>4, <2>5 DEF TypeOK
<1>2. ASSUME NEW c \in Conn, NEW f \in Frame, RefuseRegister(c, f)
      PROVE  TypeOK'
  BY <1>2, CleanupType DEF RefuseRegister, TypeOK
<1>3. ASSUME NEW c \in Conn, PeersRequest(c)
      PROVE  TypeOK'
  <2>1. peers' \in [Peer -> Conn \cup {Nobody}] /\ lastSeen' \in [Peer -> Nat \cup {Never}]
    BY <1>3 DEF PeersRequest, SeenUntil, TypeOK
  <2>2. told' \in [Conn -> [Peer -> {"nothing", "online", "offline"}]]
    BY <1>3 DEF PeersRequest, TypeOK
  <2> QED BY <1>3, <2>1, <2>2 DEF PeersRequest, TypeOK
<1>4. ASSUME NEW c \in Conn, Connect(c) \/ Hangup(c)
      PROVE  TypeOK'
  BY <1>4 DEF Connect, Hangup, TypeOK
<1>5. ASSUME NEW c \in Conn, Close(c)
      PROVE  TypeOK'
  <2>1. CASE Loses(c)
    <3>1. registered[c] \in Peer
      BY <2>1 DEF Loses, TypeOK
    <3>2. told' \in [Conn -> [Peer -> {"nothing", "online", "offline"}]]
      BY <1>5, <2>1, <3>1, TellType DEF Close
    <3> QED BY <1>5, <2>1, <3>1, <3>2 DEF Close, TypeOK
  <2>2. CASE ~Loses(c)
    BY <1>5, <2>2 DEF Close, TypeOK
  <2> QED BY <2>1, <2>2
<1>6. CASE Tick
  BY <1>6 DEF Tick, TypeOK
<1>7. CASE UNCHANGED vars
  BY <1>7 DEF vars, TypeOK
<1> QED BY <1>1, <1>2, <1>3, <1>4, <1>5, <1>6, <1>7 DEF Next

---------------------------------------------------------------------------
(* Takeover. *)

\* A register makes its connection the one of its peer and closes the others
\* of that peer, which keeps every other open session where it is.
LEMMA RegisterRoutes ==
  ASSUME Inv, NEW c \in Conn, NEW f \in Frame, Register(c, f), TypeOK'
  PROVE  FreshConn' /\ Unregistered' /\ Routable' /\ NoFalseOffline'
<1> DEFINE p == f.peer
<1> USE SignalAssumption
<1>1. p \in Peer /\ p # Nobody /\ c # Nobody
  OBVIOUS
<1>2. /\ ws' = Replaced(c, p)
      /\ peers' = [peers EXCEPT ![p] = c]
      /\ registered' = [registered EXCEPT ![c] = p]
      /\ told' = Tell(told, HearsOnline(c, peers', {d \in Conn : Replaced(c, p)[d] = "open"}), p, "online")
  BY DEF Register
<1>3. ws[c] # "new"
  BY DEF Register, Hears
<1>4. \A d \in Conn : ws'[d] = "open" => ws[d] = "open" /\ (peers[p] = d => d = c)
  BY <1>1, <1>2 DEF Replaced, Inv, TypeOK
<1>5. \A d \in Conn : ws'[d] = "new" => ws[d] = "new"
  BY <1>1, <1>2 DEF Replaced, Inv, TypeOK
<1>6. FreshConn'
  BY <1>2, <1>3, <1>5 DEF FreshConn, Inv, TypeOK
<1>7. ASSUME NEW d \in Conn, ws'[d] = "open", registered'[d] # Nobody
      PROVE  peers'[registered'[d]] = d /\ (d # c => registered[d] # p)
  <2>1. CASE d = c
    BY <1>1, <1>2, <2>1 DEF Inv, TypeOK
  <2>2. CASE d # c
    <3>1. registered'[d] = registered[d] /\ registered[d] \in Peer
      BY <1>2, <1>7, <2>2 DEF Inv, TypeOK
    <3>2. peers[registered[d]] = d
      BY <1>4, <1>7, <3>1 DEF Inv, Routable, Open
    <3>3. registered[d] # p
      BY <1>4, <1>7, <2>2, <3>2
    <3> QED BY <1>1, <1>2, <3>1, <3>2, <3>3 DEF Inv, TypeOK
  <2> QED BY <2>1, <2>2
<1>8. Routable'
  BY <1>7 DEF Routable, Open
<1>9. ASSUME NEW a \in Conn, NEW d \in Conn, ws'[a] = "open", ws'[d] = "open", a # d,
             registered'[a] # Nobody, registered'[d] # Nobody
      PROVE  told'[d][registered'[a]] # "offline"
  <2>1. CASE a = c
    <3>1. registered'[a] = p
      BY <1>2, <2>1 DEF Inv, TypeOK
    <3>2. registered'[d] \in Peer /\ peers'[registered'[d]] = d
      BY <1>7, <1>9 DEF TypeOK
    <3>3. d \in HearsOnline(c, peers', {x \in Conn : Replaced(c, p)[x] = "open"})
      BY <1>2, <1>9, <2>1, <3>2 DEF HearsOnline
    <3>4. told'[d] = [told[d] EXCEPT ![p] = "online"]
      BY <1>2, <3>3 DEF Tell
    <3> QED BY <1>1, <3>1, <3>4 DEF Inv, TypeOK
  <2>2. CASE a # c
    <3>1. registered'[a] = registered[a] /\ registered[a] \in Peer /\ registered[a] # p
      BY <1>2, <1>7, <1>9, <2>2 DEF Inv, TypeOK
    <3>2. told'[d][registered[a]] = told[d][registered[a]]
      BY <1>2, <3>1 DEF Tell, Inv, TypeOK
    <3>3. Open(a) /\ Open(d)
      BY <1>4, <1>9 DEF Open
    <3>4. CASE d = c
      <4>1. CASE registered[d] = Nobody
        BY <3>1, <3>2, <4>1 DEF Inv, Unregistered
      <4>2. CASE registered[d] # Nobody
        BY <3>1, <3>2, <3>3, <4>2, <1>9 DEF Inv, NoFalseOffline
      <4> QED BY <4>1, <4>2
    <3>5. CASE d # c
      <4>1. registered[d] # Nobody
        BY <1>2, <1>9, <3>5 DEF Inv, TypeOK
      <4> QED BY <3>1, <3>2, <3>3, <4>1, <1>9 DEF Inv, NoFalseOffline
    <3> QED BY <3>4, <3>5
  <2> QED BY <2>1, <2>2
<1>10. NoFalseOffline'
  BY <1>9 DEF NoFalseOffline, Open
<1>11. Unregistered'
  <2> SUFFICES ASSUME NEW d \in Conn, registered'[d] = Nobody, NEW q \in Peer
               PROVE  peers'[q] # d /\ told'[d][q] # "offline"
    BY DEF Unregistered
  <2>1. d # c /\ registered[d] = Nobody
    BY <1>1, <1>2 DEF Inv, TypeOK
  <2>2. peers'[q] # d
    BY <1>1, <1>2, <2>1 DEF Inv, TypeOK, Unregistered
  <2>3. told'[d][q] # "offline"
    BY <1>1, <1>2, <2>1 DEF Inv, TypeOK, Unregistered, Tell
  <2> QED BY <2>2, <2>3
<1> QED BY <1>6, <1>8, <1>10, <1>11

\* The clean-up takes out only sessions that are not open, and the snapshot
\* says offline only of peers that have no entry left.
LEMMA PeersRequestRoutes ==
  ASSUME Inv, NEW c \in Conn, PeersRequest(c), TypeOK'
  PROVE  FreshConn' /\ Unregistered' /\ Routable' /\ NoFalseOffline'
<1> USE SignalAssumption
<1>1. /\ ws' = ws /\ registered' = registered /\ registered[c] # Nobody
      /\ peers' = [p \in Peer |-> IF p \in Stale THEN Nobody ELSE peers[p]]
      /\ \A d \in Conn : d # c => told'[d] = told[d]
  BY DEF PeersRequest, Inv, TypeOK
<1>2. \A p \in Peer : peers'[p] # Nobody => told'[c][p] # "offline" \/ told'[c][p] = told[c][p]
  BY DEF PeersRequest, Inv, TypeOK
<1>3. FreshConn'
  BY <1>1 DEF Inv, FreshConn
<1>4. Unregistered'
  BY <1>1 DEF Inv, Unregistered
<1>5. Routable'
  BY <1>1 DEF Inv, TypeOK, Routable, Stale, Open
<1>6. NoFalseOffline'
  <2> SUFFICES ASSUME NEW a \in Conn, NEW d \in Conn, Open(a), Open(d), a # d,
                      registered[a] # Nobody, registered[d] # Nobody
               PROVE  told'[d][registered[a]] # "offline"
    BY <1>1 DEF NoFalseOffline, Open
  <2>1. registered[a] \in Peer
    BY DEF Inv, TypeOK
  <2>3. peers[registered[a]] = a
    BY DEF Inv, Routable
  <2>4. peers'[registered[a]] = a /\ a # Nobody
    BY <1>1, <2>1, <2>3 DEF Stale
  <2>2. told[d][registered[a]] # "offline"
    BY DEF Inv, NoFalseOffline
  <2> QED BY <1>1, <1>2, <2>1, <2>4, <2>2
<1> QED BY <1>3, <1>4, <1>5, <1>6

\* The close of a session takes its peer out only when the peer has no other.
LEMMA CloseRoutes ==
  ASSUME Inv, NEW c \in Conn, Close(c), TypeOK'
  PROVE  FreshConn' /\ Unregistered' /\ Routable' /\ NoFalseOffline'
<1> DEFINE p == registered[c]
<1> USE SignalAssumption
<1>1. /\ ws[c] = "closing" /\ ws' = [ws EXCEPT ![c] = "closed"] /\ registered' = registered
  BY DEF Close
<1>2. \A d \in Conn : /\ ws'[d] = "open" => ws[d] = "open" /\ d # c
                      /\ ws'[d] = "new" => ws[d] = "new"
  BY <1>1 DEF Inv, TypeOK
<1>3. FreshConn'
  BY <1>1, <1>2 DEF Inv, FreshConn
<1>4. CASE ~Loses(c)
  <2>1. peers' = peers /\ told' = told
    BY <1>4 DEF Close
  <2> QED BY <1>1, <1>2, <1>3, <2>1 DEF Inv, Unregistered, Routable, NoFalseOffline, Open
<1>5. CASE Loses(c)
  <2>1. /\ p \in Peer /\ peers[p] = c
        /\ peers' = [peers EXCEPT ![p] = Nobody]
        /\ told' = Tell(told, Listeners(peers') \ {c}, p, "offline")
    BY <1>5 DEF Close, Loses, Inv, TypeOK
  <2>2. \A d \in Conn : ws[d] = "open" /\ registered[d] # Nobody => registered[d] # p
    BY <1>1, <2>1 DEF Inv, Routable, Open
  <2>3. Routable'
    BY <1>1, <1>2, <2>1, <2>2 DEF Inv, TypeOK, Routable, Open
  <2>4. NoFalseOffline'
    BY <1>1, <1>2, <2>1, <2>2 DEF Inv, TypeOK, NoFalseOffline, Open, Tell
  <2>5. Unregistered'
    <3> SUFFICES ASSUME NEW d \in Conn, registered[d] = Nobody, NEW q \in Peer
                 PROVE  peers'[q] # d /\ told'[d][q] # "offline"
      BY <1>1 DEF Unregistered
    <3>1. peers'[q] # d /\ \A r \in Peer : peers[r] # d
      BY <2>1 DEF Inv, TypeOK, Unregistered
    <3>2. d \notin Listeners(peers')
      BY <2>1, <3>1 DEF Listeners, Inv, TypeOK
    <3>3. told'[d] = told[d]
      BY <2>1, <3>2 DEF Tell
    <3> QED BY <3>1, <3>3 DEF Inv, Unregistered
  <2> QED BY <1>3, <2>3, <2>4, <2>5
<1> QED BY <1>4, <1>5

\* Every step keeps the inductive invariant of the sessions.
LEMMA NextInv == Inv /\ [Next]_vars => Inv'
<1> SUFFICES ASSUME Inv, [Next]_vars
             PROVE  Inv'
  OBVIOUS
<1>1. TypeOK'
  BY NextType DEF Inv
<1>2. ASSUME NEW c \in Conn, NEW f \in Frame, Register(c, f)
      PROVE  Inv'
  BY <1>1, <1>2, RegisterRoutes DEF Inv
<1>3. ASSUME NEW c \in Conn, NEW f \in Frame, RefuseRegister(c, f)
      PROVE  Inv'
  BY <1>1, <1>3
  DEF RefuseRegister, Inv, FreshConn, Unregistered, Routable, NoFalseOffline, Open
<1>4. ASSUME NEW c \in Conn, PeersRequest(c)
      PROVE  Inv'
  BY <1>1, <1>4, PeersRequestRoutes DEF Inv
<1>5. ASSUME NEW c \in Conn, Connect(c)
      PROVE  Inv'
  <2>1. registered[c] = Nobody
    BY <1>5 DEF Connect, Inv, FreshConn
  <2> QED BY <1>1, <1>5, <2>1
      DEF Connect, Inv, TypeOK, FreshConn, Unregistered, Routable, NoFalseOffline, Open
<1>6. ASSUME NEW c \in Conn, Hangup(c)
      PROVE  Inv'
  BY <1>1, <1>6
  DEF Hangup, Inv, TypeOK, FreshConn, Unregistered, Routable, NoFalseOffline, Open
<1>7. ASSUME NEW c \in Conn, Close(c)
      PROVE  Inv'
  BY <1>1, <1>7, CloseRoutes DEF Inv
<1>8. CASE Tick
  BY <1>1, <1>8 DEF Tick, Inv, FreshConn, Unregistered, Routable, NoFalseOffline, Open
<1>9. CASE UNCHANGED vars
  BY <1>1, <1>9 DEF vars, Inv, FreshConn, Unregistered, Routable, NoFalseOffline, Open
<1> QED BY <1>2, <1>3, <1>4, <1>5, <1>6, <1>7, <1>8, <1>9 DEF Next

---------------------------------------------------------------------------
(* Nonces. *)

\* Dropping expired nonces forgets none whose frame can still be accepted.
LEMMA CleanupRemembers ==
  ASSUME NonceInv, NEW f \in Frame, accepted[f] > 0, now' = now
  PROVE  now > f.timestamp + MaxSkew \/ CleanupExpiredNonces[f.nonce] = f.timestamp
<1> USE SignalAssumption
<1>1. f.nonce \in Nonce /\ f.timestamp \in Nat /\ now \in Nat
  BY DEF Nonce, NonceInv, TypeOK
<1>2. CASE recentNonces[f.nonce] = f.timestamp
  BY <1>1, <1>2 DEF CleanupExpiredNonces
<1> QED BY <1>1, <1>2 DEF NonceInv, Remembered

\* Every step keeps the inductive invariant of the nonces.
LEMMA NextNonce == NonceInv /\ [Next]_vars => NonceInv'
<1> SUFFICES ASSUME NonceInv, [Next]_vars
             PROVE  NonceInv'
  OBVIOUS
<1> USE SignalAssumption
<1>1. TypeOK'
  BY NextType DEF NonceInv
<1>2. ASSUME NEW c \in Conn, NEW f \in Frame, Register(c, f)
      PROVE  NonceInv'
  <2>1. /\ now' = now /\ InSkew(f) /\ CleanupExpiredNonces[f.nonce] = Never
        /\ recentNonces' = [CleanupExpiredNonces EXCEPT ![f.nonce] = f.timestamp]
        /\ accepted' = [accepted EXCEPT ![f] = @ + 1]
    BY <1>2 DEF Register
  <2>2. f.nonce \in Nonce /\ f.timestamp \in Nat /\ now \in Nat
    BY DEF Nonce, NonceInv, TypeOK
  <2>3. accepted[f] = 0
    <3> SUFFICES ASSUME accepted[f] > 0
                 PROVE  FALSE
      BY DEF NonceInv, TypeOK
    <3>1. now > f.timestamp + MaxSkew \/ CleanupExpiredNonces[f.nonce] = f.timestamp
      BY <2>1, CleanupRemembers
    <3> QED BY <2>1, <2>2, <3>1 DEF InSkew, Never
  <2>4. AcceptedOnce'
    BY <2>1, <2>3 DEF NonceInv, TypeOK, AcceptedOnce
  <2>5. ASSUME NEW g \in Frame, accepted'[g] > 0
        PROVE  now' > g.timestamp + MaxSkew \/ recentNonces'[g.nonce] = g.timestamp
    <3>1. g.nonce \in Nonce /\ g.timestamp \in Nat
      BY DEF Nonce
    <3>2. CleanupExpiredNonces \in [Nonce -> Nat \cup {Never}]
      BY CleanupType DEF NonceInv
    <3>3. CASE g = f
      BY <2>1, <2>2, <3>2, <3>3
    <3>4. CASE g # f
      <4>1. accepted[g] > 0
        BY <2>1, <2>5, <3>4 DEF NonceInv, TypeOK
      <4>2. now > g.timestamp + MaxSkew \/ CleanupExpiredNonces[g.nonce] = g.timestamp
        BY <2>1, <4>1, CleanupRemembers
      <4> QED BY <2>1, <3>1, <3>2, <4>2 DEF Never
    <3> QED BY <3>3, <3>4
  <2> QED BY <1>1, <2>4, <2>5 DEF NonceInv, Remembered
<1>3. ASSUME NEW c \in Conn, NEW f \in Frame, RefuseRegister(c, f)
      PROVE  NonceInv'
  <2>1. recentNonces' = CleanupExpiredNonces /\ accepted' = accepted /\ now' = now
    BY <1>3 DEF RefuseRegister
  <2> QED BY <1>1, <2>1, CleanupRemembers DEF NonceInv, Remembered, AcceptedOnce
<1>4. ASSUME NEW c \in Conn, PeersRequest(c) \/ Connect(c) \/ Hangup(c) \/ Close(c)
      PROVE  NonceInv'
  <2>1. recentNonces' = recentNonces /\ accepted' = accepted /\ now' = now
    BY <1>4 DEF PeersRequest, Connect, Hangup, Close
  <2> QED BY <1>1, <2>1 DEF NonceInv, Remembered, AcceptedOnce
<1>5. CASE Tick
  BY <1>1, <1>5 DEF Tick, NonceInv, TypeOK, Remembered, AcceptedOnce
<1>6. CASE UNCHANGED vars
  BY <1>1, <1>6 DEF vars, NonceInv, Remembered, AcceptedOnce
<1> QED BY <1>2, <1>3, <1>4, <1>5, <1>6 DEF Next

---------------------------------------------------------------------------
\* An open, registered connection is always the one its peer is reached by.
THEOREM SessionsAreRoutable == Spec => []Routable
<1>1. Inv => Routable
  BY DEF Inv
<1> QED BY InitInv, NextInv, <1>1, PTL DEF Spec

\* No open session is left believing that a peer with an open session is gone.
THEOREM NobodyFalselyOffline == Spec => []NoFalseOffline
<1>1. Inv => NoFalseOffline
  BY DEF Inv
<1> QED BY InitInv, NextInv, <1>1, PTL DEF Spec

\* A register frame is accepted at most once, whatever the skew window and the
\* life of a nonce, as long as the second is not shorter.
THEOREM RegisterAcceptedOnce == Spec => []AcceptedOnce
<1>1. NonceInv => AcceptedOnce
  BY DEF NonceInv
<1> QED BY InitInv, NextNonce, <1>1, PTL DEF Spec

---------------------------------------------------------------------------
(* Presence. *)

\* Every step that takes an entry out of the map notes the time.
LEMMA NextPresence == TypeOK /\ OnlineXorLastSeen /\ [Next]_vars => OnlineXorLastSeen'
<1> SUFFICES ASSUME TypeOK, OnlineXorLastSeen, [Next]_vars
             PROVE  OnlineXorLastSeen'
  OBVIOUS
<1> USE SignalAssumption
<1>1. ASSUME NEW c \in Conn, NEW f \in Frame, Register(c, f)
      PROVE  OnlineXorLastSeen'
  <2>1. /\ f.peer \in Peer /\ c # Nobody
        /\ peers' = [peers EXCEPT ![f.peer] = c]
        /\ lastSeen' = [lastSeen EXCEPT ![f.peer] = Never]
        /\ accepted' = [accepted EXCEPT ![f] = @ + 1]
    BY <1>1 DEF Register
  <2>2. \A p \in Peer : p = f.peer => peers'[p] # Nobody /\ lastSeen'[p] = Never
    BY <2>1 DEF TypeOK
  <2>3. \A p \in Peer : p # f.peer => /\ peers'[p] = peers[p] /\ lastSeen'[p] = lastSeen[p]
                                      /\ \A g \in Frame : g.peer = p => accepted'[g] = accepted[g]
    BY <2>1 DEF TypeOK
  <2> QED BY <2>2, <2>3 DEF OnlineXorLastSeen
<1>2. ASSUME NEW c \in Conn, PeersRequest(c)
      PROVE  OnlineXorLastSeen'
  <2>1. /\ peers' = [p \in Peer |-> IF p \in Stale THEN Nobody ELSE peers[p]]
        /\ lastSeen' = [p \in Peer |-> IF p \in Stale THEN now ELSE lastSeen[p]]
        /\ accepted' = accepted
    BY <1>2 DEF PeersRequest, SeenUntil
  <2>2. now \in Nat /\ Never \notin Nat
    BY DEF TypeOK, Never
  <2> QED BY <2>1, <2>2 DEF OnlineXorLastSeen
<1>3. ASSUME NEW c \in Conn, Close(c)
      PROVE  OnlineXorLastSeen'
  <2>1. CASE Loses(c)
    <3>1. /\ registered[c] \in Peer
          /\ peers' = [peers EXCEPT ![registered[c]] = Nobody]
          /\ lastSeen' = [lastSeen EXCEPT ![registered[c]] = now]
          /\ accepted' = accepted
      BY <1>3, <2>1 DEF Close, Loses, TypeOK
    <3>2. now \in Nat /\ Never \notin Nat
      BY DEF TypeOK, Never
    <3> QED BY <3>1, <3>2 DEF OnlineXorLastSeen, TypeOK
  <2>2. CASE ~Loses(c)
    BY <1>3, <2>2 DEF Close, OnlineXorLastSeen
  <2> QED BY <2>1, <2>2
<1>4. ASSUME \/ \E c \in Conn, f \in Frame : RefuseRegister(c, f)
             \/ \E c \in Conn : Connect(c) \/ Hangup(c)
             \/ Tick
             \/ UNCHANGED vars
      PROVE  OnlineXorLastSeen'
  BY <1>4 DEF RefuseRegister, Connect, Hangup, Tick, vars, OnlineXorLastSeen
<1> QED BY <1>1, <1>2, <1>3, <1>4 DEF Next

\* Connections, maps and times keep their types in every behaviour.
THEOREM SignalTypes == Spec => []TypeOK
<1>1. Init => TypeOK
  BY InitInv DEF Inv
<1> QED BY <1>1, NextType, PTL DEF Spec

\* A peer that has registered is online or has a last-seen time, through any
\* takeovers, clean-ups and late close events.
THEOREM PresenceIsExclusive == Spec => []OnlineXorLastSeen
<1>1. Init => TypeOK /\ OnlineXorLastSeen
  <2>1. Init => OnlineXorLastSeen
    BY DEF Init, OnlineXorLastSeen
  <2> QED BY <2>1, InitInv DEF Inv
<1> QED BY <1>1, NextType, NextPresence, PTL DEF Spec
============================================================================
