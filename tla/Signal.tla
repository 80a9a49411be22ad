------------------------------- MODULE Signal ------------------------------
(***************************************************************************)
(* The signaling server: which connection stands for which peer, takeover  *)
(* of a session by a later register, the nonces of register frames, and    *)
(* what connected peers are told about the presence of others.             *)
(*                                                                         *)
(* The process is single-threaded; what interleaves are the frames and the *)
(* close events of the connections.  The ws library is external: after the *)
(* server has called close() it still hands over the frames that arrive    *)
(* before the client's close frame, and the close event comes later than   *)
(* the change of readyState.                                               *)
(***************************************************************************)
EXTENDS Integers, FiniteSets

CONSTANTS
  Peer,      \* peer ids
  Conn,      \* WebSocket connections
  Frame,     \* signed register frames, [peer, timestamp, nonce]
  Nobody,    \* no peer, or no connection
  MaxSkew,   \* REGISTER_MAX_SKEW_MS
  NonceTTL,  \* NONCE_TTL_MS
  MaxTime    \* bound: the clock stops here

Nonce == {f.nonce : f \in Frame}
Never == -1

ASSUME SignalAssumption ==
  /\ Nobody \notin Peer \cup Conn
  /\ \A f \in Frame : f.peer \in Peer /\ f.timestamp \in Nat
  /\ MaxSkew \in Nat /\ MaxTime \in Nat
  \* The values in the code are 30 and 120 seconds.
  /\ NonceTTL \in Nat /\ NonceTTL >= MaxSkew

VARIABLES
  ws,            \* readyState of each connection, with who closed it
  registered,    \* registeredPeerId of each connection
  peers,         \* peerId -> ws
  lastSeen,      \* lastSeenByPeer
  recentNonces,  \* nonce -> timestamp of its frame
  now,           \* Date.now()
  told,          \* observation: what each connection was last told of a peer
  accepted       \* observation: how often each frame has been accepted

vars == <<ws, registered, peers, lastSeen, recentNonces, now, told, accepted>>

---------------------------------------------------------------------------
Untold == [p \in Peer |-> "nothing"]

Open(c) == ws[c] = "open"

\* After close() by the server the client's frames are still handled.
Hears(c) == ws[c] \in {"open", "replaced"}

\* Those a broadcast reaches: every open connection in the map.
Listeners(map) == {c \in Conn : Open(c) /\ \E p \in Peer : map[p] = c}

Tell(views, recipients, p, status) ==
  [c \in Conn |-> IF c \in recipients THEN [views[c] EXCEPT ![p] = status] ELSE views[c]]

---------------------------------------------------------------------------
(* register *)

\* Mutant: the nonce is remembered only for the length of the skew window.
CleanupTooEarly ==
  [n \in Nonce |-> IF recentNonces[n] # Never /\ now - recentNonces[n] >= MaxSkew
                   THEN Never ELSE recentNonces[n]]

CleanupExpiredNonces ==
  [n \in Nonce |-> IF recentNonces[n] # Never /\ now - recentNonces[n] > NonceTTL
                   THEN Never ELSE recentNonces[n]]

InSkew(f) == now - f.timestamp <= MaxSkew /\ f.timestamp - now <= MaxSkew

\* verifyRegisterAuth refuses a validly signed frame: its expired nonces are
\* already dropped, nothing else has changed.
RefuseRegister(c, f) ==
  /\ Hears(c)
  /\ ~InSkew(f) \/ CleanupExpiredNonces[f.nonce] # Never
  /\ recentNonces' = CleanupExpiredNonces
  /\ UNCHANGED <<ws, registered, peers, lastSeen, now, told, accepted>>

\* Mutant: the old session is cut off without the closing handshake, a state
\* the readyState of a connection cannot have.
ReplacedTerminated(c, p) ==
  IF peers[p] # Nobody /\ peers[p] # c THEN [ws EXCEPT ![peers[p]] = "terminated"] ELSE ws

\* A session of the same peer on another connection is told so and closed.
Replaced(c, p) ==
  IF peers[p] # Nobody /\ peers[p] # c
  THEN [ws EXCEPT ![peers[p]] = IF @ = "open" THEN "replaced" ELSE @]
  ELSE ws

\* Mutant: nobody is told of a peer that comes online.
NobodyHears(c, map, open) == {}

\* Who is told that the peer of c is online.
HearsOnline(c, map, open) == {d \in open \ {c} : \E p \in Peer : map[p] = d}

Register(c, f) ==
  LET p == f.peer
      map == [peers EXCEPT ![p] = c]
      open == {d \in Conn : Replaced(c, p)[d] = "open"}
  IN  /\ Hears(c)
      /\ InSkew(f) /\ CleanupExpiredNonces[f.nonce] = Never
      /\ recentNonces' = [CleanupExpiredNonces EXCEPT ![f.nonce] = f.timestamp]
      /\ ws' = Replaced(c, p)
      /\ peers' = map
      /\ registered' = [registered EXCEPT ![c] = p]
      /\ lastSeen' = [lastSeen EXCEPT ![p] = Never]
      /\ told' = Tell(told, HearsOnline(c, map, open), p, "online")
      /\ accepted' = [accepted EXCEPT ![f] = @ + 1]
      /\ UNCHANGED now

---------------------------------------------------------------------------
(* peers_request *)

\* cleanupOfflinePeers drops the entries whose connection is not open and
\* tells nobody.
Stale == {p \in Peer : peers[p] # Nobody /\ ~Open(peers[p])}

\* Mutant: the clean-up does not note when the peer was last seen.
SeenUntilNot == lastSeen

SeenUntil == [p \in Peer |-> IF p \in Stale THEN now ELSE lastSeen[p]]

PeersRequest(c) ==
  /\ Hears(c)
  /\ registered[c] # Nobody
  /\ peers' = [p \in Peer |-> IF p \in Stale THEN Nobody ELSE peers[p]]
  /\ lastSeen' = SeenUntil
  /\ told' = IF Open(c)
             THEN [told EXCEPT ![c] = [p \in Peer |->
                     IF peers'[p] # Nobody THEN "online"
                     ELSE IF lastSeen'[p] # Never THEN "offline" ELSE @[p]]]
             ELSE told
  /\ UNCHANGED <<ws, registered, recentNonces, now, accepted>>

---------------------------------------------------------------------------
(* Connections. *)

Connect(c) ==
  /\ ws[c] = "new"
  /\ ws' = [ws EXCEPT ![c] = "open"]
  /\ UNCHANGED <<registered, peers, lastSeen, recentNonces, now, told, accepted>>

\* The client's close frame or the end of its TCP stream: readyState leaves
\* OPEN and no further frame is handled.
Hangup(c) ==
  /\ Hears(c)
  /\ ws' = [ws EXCEPT ![c] = "closing"]
  /\ UNCHANGED <<registered, peers, lastSeen, recentNonces, now, told, accepted>>

\* Mutant: the close handler does not ask whose connection the map holds.
LosesAny(c) == registered[c] # Nobody /\ peers[registered[c]] # Nobody

\* Does closing c take its peer offline?
Loses(c) == registered[c] # Nobody /\ peers[registered[c]] = c

\* The close event.
Close(c) ==
  LET p == registered[c]
      map == [peers EXCEPT ![p] = Nobody]
  IN  /\ ws[c] = "closing"
      /\ ws' = [ws EXCEPT ![c] = "closed"]
      /\ IF Loses(c)
         THEN /\ peers' = map
              /\ lastSeen' = [lastSeen EXCEPT ![p] = now]
              /\ told' = Tell(told, Listeners(map) \ {c}, p, "offline")
         ELSE UNCHANGED <<peers, lastSeen, told>>
      /\ UNCHANGED <<registered, recentNonces, now, accepted>>

Tick ==
  /\ now < MaxTime
  /\ now' = now + 1
  /\ UNCHANGED <<ws, registered, peers, lastSeen, recentNonces, told, accepted>>

Init ==
  /\ ws = [c \in Conn |-> "new"]
  /\ registered = [c \in Conn |-> Nobody]
  /\ peers = [p \in Peer |-> Nobody]
  /\ lastSeen = [p \in Peer |-> Never]
  /\ recentNonces = [n \in Nonce |-> Never]
  /\ now = 0
  /\ told = [c \in Conn |-> Untold]
  /\ accepted = [f \in Frame |-> 0]

Next ==
  \/ \E c \in Conn, f \in Frame : Register(c, f) \/ RefuseRegister(c, f)
  \/ \E c \in Conn : PeersRequest(c) \/ Connect(c) \/ Hangup(c) \/ Close(c)
  \/ Tick

Spec == Init /\ [][Next]_vars

---------------------------------------------------------------------------
(* Properties. *)

\* Every connection is in one of the states the ws library gives it, and the
\* maps hold connections, times and statuses that exist.
TypeOK ==
  /\ ws \in [Conn -> {"new", "open", "replaced", "closing", "closed"}]
  /\ registered \in [Conn -> Peer \cup {Nobody}]
  /\ peers \in [Peer -> Conn \cup {Nobody}]
  /\ lastSeen \in [Peer -> Nat \cup {Never}]
  /\ recentNonces \in [Nonce -> Nat \cup {Never}]
  /\ now \in Nat
  /\ told \in [Conn -> [Peer -> {"nothing", "online", "offline"}]]
  /\ accepted \in [Frame -> Nat]

\* A connection that is open and registered is the one signals to its peer
\* are sent to, whatever takeovers and late close events of other sessions
\* come in between; so a peer never has two open sessions.
Routable ==
  \A c \in Conn : Open(c) /\ registered[c] # Nobody => peers[registered[c]] = c

\* A peer with an open session is never the last thing another open session
\* was told to be offline: the late close of a session that was taken over
\* does not announce the peer as gone.
NoFalseOffline ==
  \A c, d \in Conn :
    Open(c) /\ Open(d) /\ c # d /\ registered[c] # Nobody /\ registered[d] # Nobody
      => told[d][registered[c]] # "offline"

\* A peer that has registered is either online or has a last-seen time, so
\* that a snapshot shows it exactly once.
OnlineXorLastSeen ==
  \A p \in Peer :
    (\E f \in Frame : f.peer = p /\ accepted[f] > 0)
      => (peers[p] # Nobody <=> lastSeen[p] = Never)

\* A register frame is accepted at most once while the process lives, however
\* often and on whichever connections it arrives: a nonce is kept for as long
\* as its frame can pass the skew check.
AcceptedOnce == \A f \in Frame : accepted[f] <= 1
============================================================================
