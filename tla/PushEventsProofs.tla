-------------------------- MODULE PushEventsProofs -------------------------
(***************************************************************************)
(* Proofs about the gate of the push service and about its fan-out, for    *)
(* any number of peers, keys, frames, copies of a frame, restarts, events, *)
(* recipients, devices, targets and requests.                              *)
(***************************************************************************)
EXTENDS PushEvents, TLAPS

----------------------------------------------------------------------------
(* The gate. *)

Types ==
  /\ now \in Nat
  /\ used \in [RequestId -> Nat]
  /\ bindings \in [Peer -> Key \cup {NoKey}]
  /\ banned \subseteq Peer
  /\ call \in [Call -> {Unborn} \cup Arrived]
  /\ life \in Nat

Begun(c) == call[c] # Unborn

\* No request has arrived in a life to come.
NoneToCome == \A c \in Call : Begun(c) => call[c].life <= life

\* Once the clock has reached this second, the timestamp of f is too old.
TooOld(f, s) == s > Second(f.at) + Skew

\* The timestamp of an admitted frame is too old, or its id is remembered
\* until it is.
Remembered ==
  \A c \in Call :
    Admitted(c) /\ call[c].life = life =>
      \/ TooOld(call[c].frame, Second(now))
      \/ TooOld(call[c].frame, Second(used[call[c].frame.id]))

\* A binding that was there at the arrival is there.
Bound ==
  \A c \in Call :
    Begun(c) /\ call[c].bound # NoKey => bindings[call[c].frame.from] = call[c].bound

\* What has passed the bindings has the key that was bound at its arrival.
Enforced ==
  \A c \in Call :
    call[c].at \in {"touch", "ban", "accepted"} /\ call[c].frame.route \in {"guarded", "appeal"} =>
      call[c].bound \in {NoKey, call[c].frame.key}

\* Who was banned at the arrival and not unbanned since is banned.
StillBarred == \A c \in Call : Begun(c) => call[c].barred \subseteq banned

\* A request is not accepted from a peer that has been banned since before it
\* arrived, whatever happened between its statements.
BannedAreRefused ==
  \A c \in Call :
    call[c].at = "accepted" /\ call[c].frame.route \in {"guarded", "register"} =>
      call[c].frame.from \notin call[c].barred

\* Where a request can be follows from its route.
OnRoute ==
  \A c \in Call : Begun(c) =>
    /\ call[c].at \in {"bind", "store"} => call[c].frame.route = "register"
    /\ call[c].at \in {"enforce", "touch"} => call[c].frame.route \in {"guarded", "appeal"}

GateInv ==
  /\ Types /\ NoneToCome /\ Remembered /\ AdmittedOnce
  /\ Bound /\ Enforced /\ StillBarred /\ BannedAreRefused /\ OnRoute

---------------------------------------------------------------------------
\* Seconds are numbers, in the order of half seconds.
LEMMA SecondFacts ==
  /\ \A t \in Nat : Second(t) \in Nat
  /\ \A s \in Nat, t \in Nat : s <= t => Second(s) <= Second(t)
  /\ \A t \in Nat, n \in Nat : Second(t + 2 * n) = Second(t) + n
BY DEF Second

\* The fields of a frame that the arithmetic needs.
LEMMA FrameType ==
  ASSUME NEW f \in Frame
  PROVE  /\ f.id \in RequestId /\ f.from \in Peer /\ f.key \in Key /\ f.at \in Nat
         /\ f.route \in Route /\ Second(f.at) \in Nat
BY GateAssumption, SecondFacts

\* A timestamp that is too old stays too old.
LEMMA OldStays ==
  ASSUME NEW f \in Frame, NEW s \in Nat, NEW t \in Nat, s <= t, TooOld(f, Second(s))
  PROVE  TooOld(f, Second(t))
<1>1. Second(s) \in Nat /\ Second(t) \in Nat /\ Second(s) <= Second(t)
  BY SecondFacts
<1>2. Second(f.at) \in Nat /\ Skew \in Nat
  BY FrameType, GateAssumption
<1> QED  BY <1>1, <1>2 DEF TooOld

\* A call that has arrived, or not.
LEMMA CallType ==
  ASSUME Types, NEW c \in Call
  PROVE  /\ call[c] = Unborn \/ call[c] \in Arrived
         /\ Begun(c) => call[c].frame \in Frame
         /\ call[c].at # "unborn" <=> Begun(c)
BY DEF Types, Arrived, Unborn, Begun

\* Nothing has arrived.
LEMMA GateInitInv == GateInit => GateInv
<1> SUFFICES ASSUME GateInit PROVE GateInv
  OBVIOUS
<1>1. \A c \in Call : call[c] = Unborn
  BY DEF GateInit
<1>2. Types
  BY DEF GateInit, Types
<1>3. NoneToCome /\ Remembered /\ AdmittedOnce /\ Bound /\ Enforced /\ StillBarred /\ BannedAreRefused
        /\ OnRoute
  BY <1>1 DEF NoneToCome, Remembered, AdmittedOnce, Bound, Enforced, StillBarred, BannedAreRefused,
              OnRoute, Begun, Admitted, Unborn
<1> QED  BY <1>2, <1>3 DEF GateInv

---------------------------------------------------------------------------
\* A request arrives.
LEMMA ArriveKeeps ==
  ASSUME GateInv, NEW c \in Call, NEW f \in Frame, Arrive(c, f)
  PROVE  GateInv'
<1> DEFINE new(at) == [at |-> at, frame |-> f, life |-> life,
                       bound |-> bindings[f.from], barred |-> banned]
<1>1. Types /\ call[c] = Unborn
  BY DEF GateInv, Arrive
<1>2. now' = now /\ bindings' = bindings /\ banned' = banned /\ life' = life
  BY DEF Arrive
<1>3. Entry(f) \in {"accepted", "ban", "bind", "refused", "enforce"}
  BY DEF Entry
<1>4. PICK at \in {"accepted", "ban", "bind", "refused", "enforce", "rejected"} :
        /\ call' = [call EXCEPT ![c] = new(at)]
        /\ at \in {"rejected", Entry(f)}
        /\ at # "rejected" =>
             /\ ~Skewed(f) /\ Free(f)
             /\ used' = [CleanupSignedRequestIds EXCEPT ![f.id] = now + 2 * IdTTL]
        /\ \/ used' = used
           \/ used' = CleanupSignedRequestIds
           \/ ~Skewed(f) /\ Free(f)
                /\ used' = [CleanupSignedRequestIds EXCEPT ![f.id] = now + 2 * IdTTL]
  BY <1>3 DEF Arrive, Begins
<1>5. call'[c] = new(at) /\ \A d \in Call : d # c => call'[d] = call[d]
  BY <1>1, <1>4 DEF Types
<1>6. new(at) \in Arrived
  BY <1>1, FrameType DEF Types, Arrived
<1>7. CleanupSignedRequestIds \in [RequestId -> Nat]
  BY <1>1 DEF Types, CleanupSignedRequestIds
<1>8. Types'
  <2>1. used' \in [RequestId -> Nat]
    BY <1>1, <1>4, <1>7, GateAssumption DEF Types
  <2> QED  BY <1>1, <1>2, <1>4, <1>6, <2>1 DEF Types
<1>9. NoneToCome' /\ Bound' /\ StillBarred'
  BY <1>1, <1>2, <1>5 DEF GateInv, Types, NoneToCome, Bound, StillBarred, Begun
<1>10. Enforced' /\ BannedAreRefused' /\ OnRoute'
  BY <1>1, <1>2, <1>4, <1>5, FrameType
  DEF GateInv, Enforced, BannedAreRefused, OnRoute, Entry, Begun, Route, Unborn
<1>11. ~Skewed(f) => ~TooOld(f, Second(now))
  <2>1. now \in Nat /\ Second(now) \in Nat /\ Second(f.at) \in Nat /\ Skew \in Nat
    BY <1>1, SecondFacts, FrameType, GateAssumption DEF Types
  <2> QED  BY <2>1 DEF Skewed, TooOld
<1>12. \A i \in RequestId : \/ CleanupSignedRequestIds[i] = used[i]
                            \/ used[i] <= now /\ CleanupSignedRequestIds[i] = 0
  BY <1>1 DEF Types, CleanupSignedRequestIds
<1>13. ASSUME NEW d \in Call, Admitted(d), call[d].life = life
       PROVE  \/ TooOld(call[d].frame, Second(now))
              \/ TooOld(call[d].frame, Second(used'[call[d].frame.id]))
  <2> DEFINE g == call[d].frame
  <2>1. Begun(d) /\ g \in Frame
    BY <1>1, <1>13, CallType DEF Admitted
  <2>2. TooOld(g, Second(now)) \/ TooOld(g, Second(used[g.id]))
    BY <1>13 DEF GateInv, Remembered
  <2>3. used[g.id] <= now => TooOld(g, Second(now))
    <3>1. g.id \in RequestId /\ used[g.id] \in Nat /\ now \in Nat
      BY <1>1, <2>1, FrameType DEF Types
    <3> QED  BY <2>1, <2>2, <3>1, OldStays
  <2>4. CASE used'[g.id] = used[g.id]
    BY <2>2, <2>4
  <2>5. CASE used'[g.id] # used[g.id]
    <3>1. used'[g.id] = CleanupSignedRequestIds[g.id] \/ (g.id = f.id /\ Free(f))
      BY <1>4, <1>7, <2>1, <2>5, FrameType
    <3>2. used[g.id] <= now
      BY <1>1, <1>12, <2>1, <2>5, <3>1, FrameType DEF Free, Types
    <3> QED  BY <2>3, <3>2
  <2> QED  BY <2>4, <2>5
<1>14. Remembered'
  <2> SUFFICES ASSUME NEW d \in Call, Admitted(d)', call'[d].life = life
               PROVE  \/ TooOld(call'[d].frame, Second(now))
                      \/ TooOld(call'[d].frame, Second(used'[call'[d].frame.id]))
    BY <1>2 DEF Remembered, TooOld, Second
  <2>1. CASE d # c
    BY <1>5, <1>13, <2>1 DEF Admitted
  <2>2. CASE d = c
    <3>1. at # "rejected" /\ call'[d].frame = f
      BY <1>5, <2>2 DEF Admitted
    <3>2. used'[f.id] = now + 2 * IdTTL
      BY <1>4, <1>7, <3>1, FrameType
    <3>3. Second(used'[f.id]) = Second(now) + IdTTL
      BY <1>1, <3>2, SecondFacts, GateAssumption DEF Types
    <3>4. Second(f.at) <= Second(now) + Skew
      <4>1. now \in Nat /\ Second(now) \in Nat /\ Second(f.at) \in Nat /\ Skew \in Nat
        BY <1>1, SecondFacts, FrameType, GateAssumption DEF Types
      <4>2. ~Skewed(f)
        BY <1>4, <3>1
      <4> QED  BY <4>1, <4>2 DEF Skewed
    <3>5. TooOld(f, Second(used'[f.id]))
      <4>1. Second(now) \in Nat /\ Second(f.at) \in Nat /\ Skew \in Nat /\ IdTTL \in Nat
        BY <1>1, SecondFacts, FrameType, GateAssumption DEF Types
      <4> QED  BY <3>3, <3>4, <4>1, WindowAssumption DEF TooOld
    <3> QED  BY <3>1, <3>5
  <2> QED  BY <2>1, <2>2
<1>15. AdmittedOnce'
  <2> SUFFICES ASSUME NEW d \in Call, d # c, Admitted(c)', Admitted(d)',
                      call'[c].life = call'[d].life, call'[c].frame = call'[d].frame
               PROVE  FALSE
    BY <1>5 DEF AdmittedOnce, GateInv, Admitted
  <2>1. at # "rejected" /\ call[d].frame = f /\ call[d].life = life /\ Admitted(d)
    BY <1>5 DEF Admitted
  <2>2. ~TooOld(f, Second(now)) /\ Free(f)
    BY <1>4, <1>11, <2>1
  <2>3. TooOld(f, Second(used[f.id]))
    BY <2>1, <2>2 DEF GateInv, Remembered
  <2>4. used[f.id] = 0 \/ used[f.id] <= now
    BY <1>12, <2>2, FrameType DEF Free
  <2>5. used[f.id] <= now
    BY <1>1, <2>4 DEF Types
  <2>6. f.id \in RequestId /\ used[f.id] \in Nat /\ now \in Nat
    BY <1>1, FrameType DEF Types
  <2> QED  BY <2>2, <2>3, <2>5, <2>6, OldStays
<1> QED  BY <1>8, <1>9, <1>10, <1>14, <1>15 DEF GateInv

---------------------------------------------------------------------------
\* A statement of an admitted request that binds at most a peer that had no
\* key; what has to be shown is where the request goes.
LEMMA StatementKeeps ==
  ASSUME GateInv, NEW c \in Call, Admitted(c),
         NEW at \in {"store", "touch", "ban", "accepted", "refused"}, Goes(c, at),
         UNCHANGED <<now, used, banned, life>>,
         bindings' \in [Peer -> Key \cup {NoKey}],
         \A p \in Peer : bindings[p] # NoKey => bindings'[p] = bindings[p],
         LET k == call[c]
         IN  /\ at = "store" => k.frame.route = "register"
             /\ at = "touch" => k.frame.route \in {"guarded", "appeal"}
             /\ at \in {"touch", "ban", "accepted"} /\ k.frame.route \in {"guarded", "appeal"} =>
                  k.bound \in {NoKey, k.frame.key}
             /\ at = "accepted" /\ k.frame.route \in {"guarded", "register"} =>
                  k.frame.from \notin k.barred
  PROVE  GateInv'
<1>0. Types
  BY DEF GateInv
<1>1. Types /\ Begun(c) /\ call[c] \in Arrived
  BY <1>0, CallType DEF Admitted, Begun
<1>2. call' = [call EXCEPT ![c].at = at]
  BY DEF Goes
<1>3. ASSUME NEW d \in Call
      PROVE  /\ Begun(d) => call[d] \in Arrived
             /\ Begun(d)' <=> Begun(d)
             /\ Admitted(d)' <=> Admitted(d)
             /\ d # c => call'[d] = call[d]
             /\ Begun(d) => /\ call'[d].frame = call[d].frame /\ call'[d].life = call[d].life
                            /\ call'[d].bound = call[d].bound /\ call'[d].barred = call[d].barred
                            /\ call[d].frame \in Frame /\ call[d].frame.from \in Peer
             /\ d = c => call'[d].at = at
  <2>1. Begun(d) => call[d] \in Arrived
    BY <1>1 DEF Types, Begun
  <2>2. CASE d # c
    <3>1. call'[d] = call[d]
      BY <1>1, <1>2, <2>2 DEF Types
    <3> QED  BY <2>1, <2>2, <3>1, FrameType DEF Begun, Admitted, Arrived
  <2>3. CASE d = c
    <3>1. call'[c] = [call[c] EXCEPT !.at = at]
      BY <1>1, <1>2 DEF Types
    <3> QED  BY <1>1, <2>1, <2>3, <3>1, FrameType DEF Begun, Admitted, Arrived, Unborn
  <2> QED  BY <2>2, <2>3
<1>4. Types'
  BY <1>1, <1>2 DEF Types, Arrived
<1>5. NoneToCome' /\ StillBarred'
  BY <1>3 DEF GateInv, NoneToCome, StillBarred
<1>6. Remembered'
  BY <1>3 DEF GateInv, Remembered, TooOld, Second, Admitted, Begun, Unborn
<1>7. AdmittedOnce'
  BY <1>3 DEF GateInv, AdmittedOnce, Admitted, Begun, Unborn
<1>8. Bound'
  BY <1>3 DEF GateInv, Bound, Types
<1>9. Enforced' /\ BannedAreRefused' /\ OnRoute'
  <2>1. \A d \in Call : d # c => call'[d] = call[d]
    BY <1>3
  <2>2. /\ call'[c].at = at /\ call'[c].frame = call[c].frame
        /\ call'[c].bound = call[c].bound /\ call'[c].barred = call[c].barred
    BY <1>1, <1>3
  <2> QED  BY <2>1, <2>2 DEF GateInv, Enforced, BannedAreRefused, OnRoute, Begun
<1> QED  BY <1>4, <1>5, <1>6, <1>7, <1>8, <1>9 DEF GateInv

\* The statements of a call, and their failures.
LEMMA StatementsKeep ==
  ASSUME GateInv, NEW c \in Call, Statement(c) \/ GateFails(c)
  PROVE  GateInv'
<1> DEFINE f == call[c].frame
<1>1. Types
  BY DEF GateInv
<1>2. call[c].at \in {"bind", "store", "enforce", "touch", "ban"}
  BY DEF Statement, ReadForBinding, StoreBinding, Enforce, Touch, CheckBan, GateFails
<1>3. Admitted(c) /\ Begun(c) /\ f \in Frame /\ f.from \in Peer /\ f.key \in Key
  BY <1>1, <1>2, CallType, FrameType DEF Admitted
<1>4. call[c].bound # NoKey => bindings[f.from] = call[c].bound
  BY <1>3 DEF GateInv, Bound
<1>5. /\ call[c].at \in {"bind", "store"} => f.route = "register"
      /\ call[c].at \in {"enforce", "touch"} => f.route \in {"guarded", "appeal"}
  BY <1>3 DEF GateInv, OnRoute
<1>6. call[c].at \in {"touch", "ban"} /\ f.route \in {"guarded", "appeal"} =>
        call[c].bound \in {NoKey, f.key}
  BY DEF GateInv, Enforced
<1>7. CASE ReadForBinding(c)
  BY <1>1, <1>3, <1>5, <1>7, StatementKeeps DEF ReadForBinding, Types
<1>8. CASE StoreBinding(c)
  <2>1. CASE bindings[f.from] \in {NoKey, f.key}
    <3>1. bindings' = [bindings EXCEPT ![f.from] = f.key] /\ Goes(c, "ban")
      BY <1>8, <2>1 DEF StoreBinding
    <3>2. bindings' \in [Peer -> Key \cup {NoKey}]
      BY <1>1, <1>3, <3>1 DEF Types
    <3>3. \A p \in Peer : bindings[p] # NoKey => bindings'[p] = bindings[p]
      BY <1>1, <1>3, <2>1, <3>1 DEF Types
    <3>4. call[c].at = "store" /\ UNCHANGED <<now, used, banned, life>>
      BY <1>8 DEF StoreBinding
    <3> QED  BY <1>3, <1>5, <3>1, <3>2, <3>3, <3>4, StatementKeeps
  <2>2. CASE ~(bindings[f.from] \in {NoKey, f.key})
    BY <1>1, <1>3, <1>8, <2>2, StatementKeeps DEF StoreBinding, Types
  <2> QED  BY <2>1, <2>2
<1>9. CASE Enforce(c)
  <2>1. BanOrPass(f) \in {"ban", "accepted"} /\ (f.route = "guarded" => BanOrPass(f) = "ban")
    BY DEF BanOrPass
  <2>2. CASE bindings[f.from] = NoKey
    <3>1. Goes(c, BanOrPass(f))
      BY <1>9, <2>2 DEF Enforce
    <3> QED  BY <1>1, <1>3, <1>4, <1>5, <1>9, <2>1, <2>2, <3>1, StatementKeeps DEF Enforce, Types
  <2>3. CASE bindings[f.from] # NoKey /\ bindings[f.from] = f.key
    <3>1. Goes(c, "touch")
      BY <1>9, <2>3 DEF Enforce
    <3> QED  BY <1>1, <1>3, <1>4, <1>5, <1>9, <2>3, <3>1, StatementKeeps DEF Enforce, Types
  <2>4. CASE bindings[f.from] # NoKey /\ bindings[f.from] # f.key
    <3>1. Goes(c, "refused")
      BY <1>9, <2>4 DEF Enforce
    <3> QED  BY <1>1, <1>3, <1>9, <3>1, StatementKeeps DEF Enforce, Types
  <2> QED  BY <2>2, <2>3, <2>4
<1>10. CASE Touch(c)
  <2>1. BanOrPass(f) \in {"ban", "accepted"} /\ (f.route = "guarded" => BanOrPass(f) = "ban")
    BY DEF BanOrPass
  <2>2. bindings' \in [Peer -> Key \cup {NoKey}]
          /\ \A p \in Peer : bindings[p] # NoKey => bindings'[p] = bindings[p]
    BY <1>1, <1>3, <1>10 DEF Touch, Types
  <2>3. Goes(c, BanOrPass(f)) /\ call[c].at = "touch" /\ UNCHANGED <<now, used, banned, life>>
    BY <1>10 DEF Touch
  <2> QED  BY <1>3, <1>5, <1>6, <2>1, <2>2, <2>3, StatementKeeps
<1>11. CASE CheckBan(c)
  <2>1. call[c].barred \subseteq banned
    BY <1>3 DEF GateInv, StillBarred
  <2>2. CASE f.from \in banned
    BY <1>1, <1>3, <1>11, <2>2, StatementKeeps DEF CheckBan, Types
  <2>3. CASE f.from \notin banned
    <3>1. Goes(c, "accepted") /\ call[c].at = "ban"
      BY <1>11, <2>3 DEF CheckBan
    <3> QED  BY <1>1, <1>3, <1>6, <1>11, <2>1, <2>3, <3>1, StatementKeeps DEF CheckBan, Types
  <2> QED  BY <2>2, <2>3
<1>12. CASE GateFails(c)
  BY <1>1, <1>3, <1>12, StatementKeeps DEF GateFails, Types
<1> QED  BY <1>7, <1>8, <1>9, <1>10, <1>11, <1>12 DEF Statement

---------------------------------------------------------------------------
(* What goes on around the requests. *)

\* A ban only adds to who is banned; an unban leaves what is observed too.
LEMMA VerdictKeeps ==
  ASSUME GateInv, NEW p \in Peer, Ban(p) \/ Unban(p)
  PROVE  GateInv'
<1>1. Types /\ UNCHANGED <<now, used, bindings, life>>
  BY DEF GateInv, Ban, Unban
<1>2. ASSUME NEW d \in Call
      PROVE  /\ Begun(d)' <=> Begun(d)
             /\ Admitted(d)' <=> Admitted(d)
             /\ call'[d].at = call[d].at
             /\ Begun(d) => /\ call'[d].frame = call[d].frame /\ call'[d].life = call[d].life
                            /\ call'[d].bound = call[d].bound
                            /\ call'[d].barred \subseteq call[d].barred
                            /\ call'[d] \in Arrived
                            /\ call'[d].barred \subseteq banned'
             /\ ~Begun(d) => call'[d] = Unborn
  <2>1. Begun(d) => call[d] \in Arrived /\ call[d].barred \subseteq banned
    BY <1>1 DEF Types, Begun, GateInv, StillBarred
  <2>2. CASE Ban(p)
    BY <2>1, <2>2 DEF Ban, Begun, Admitted
  <2>3. CASE Unban(p)
    <3>1. CASE ~Begun(d)
      BY <2>3, <3>1 DEF Unban, Begun, Admitted
    <3>2. CASE Begun(d)
      <4>1. call'[d] = [call[d] EXCEPT !.barred = @ \ {p}] /\ banned' = banned \ {p}
        BY <2>3, <3>2 DEF Unban, Begun
      <4> QED  BY <2>1, <3>2, <4>1 DEF Begun, Admitted, Arrived, Unborn
    <3> QED  BY <3>1, <3>2
  <2> QED  BY <2>2, <2>3
<1>3. Types'
  <2>1. DOMAIN call' = Call /\ call' = [d \in Call |-> call'[d]] /\ banned' \subseteq Peer
    BY <1>1 DEF Ban, Unban, Types
  <2> QED  BY <1>1, <1>2, <2>1 DEF Types
<1>4. NoneToCome' /\ StillBarred' /\ Bound'
  BY <1>1, <1>2 DEF GateInv, NoneToCome, StillBarred, Bound
<1>5. Remembered' /\ AdmittedOnce'
  BY <1>1, <1>2 DEF GateInv, Remembered, AdmittedOnce, TooOld, Second, Admitted, Begun, Unborn
<1>6. Enforced' /\ BannedAreRefused' /\ OnRoute'
  <2>1. \A d \in Call : call[d].at = "accepted" \/ call[d].at \in {"touch", "ban"} => Begun(d)
    BY DEF Begun, Unborn
  <2> QED  BY <1>1, <1>2, <2>1 DEF GateInv, Enforced, BannedAreRefused, OnRoute
<1> QED  BY <1>3, <1>4, <1>5, <1>6 DEF GateInv

\* The clock: a timestamp that is too old stays so.
LEMMA TickKeeps ==
  ASSUME GateInv, Tick
  PROVE  GateInv'
<1>1. Types /\ now' = now + 1 /\ UNCHANGED <<used, bindings, banned, call, life>>
  BY DEF GateInv, Tick
<1>2. Types'
  BY <1>1 DEF Types
<1>3. Remembered'
  <2> SUFFICES ASSUME NEW c \in Call, Admitted(c), call[c].life = life
               PROVE  \/ TooOld(call[c].frame, Second(now'))
                      \/ TooOld(call[c].frame, Second(used[call[c].frame.id]))
    BY <1>1 DEF Remembered, Admitted, TooOld, Second
  <2>1. call[c].frame \in Frame
    BY <1>1, CallType DEF Admitted
  <2>2. now \in Nat /\ now' \in Nat /\ now <= now'
    BY <1>1 DEF Types
  <2> QED  BY <2>1, <2>2, OldStays DEF GateInv, Remembered
<1>4. NoneToCome' /\ AdmittedOnce' /\ Bound' /\ Enforced' /\ StillBarred' /\ BannedAreRefused' /\ OnRoute'
  BY <1>1 DEF GateInv, NoneToCome, AdmittedOnce, Admitted, Bound, Enforced, StillBarred,
              BannedAreRefused, OnRoute, Begun
<1> QED  BY <1>2, <1>3, <1>4 DEF GateInv

\* A restart forgets ids, but no request of the new life has been admitted.
LEMMA RestartKeeps ==
  ASSUME GateInv, RestartGate
  PROVE  GateInv'
<1>1. /\ Types /\ life' = life + 1 /\ used' = [i \in RequestId |-> 0]
      /\ UNCHANGED <<now, bindings, banned>>
  BY DEF GateInv, RestartGate
<1>2. ASSUME NEW d \in Call
      PROVE  /\ Begun(d)' <=> Begun(d)
             /\ Admitted(d)' <=> Admitted(d)
             /\ call'[d].at \in {call[d].at, "lost"}
             /\ Begun(d) => /\ call'[d].frame = call[d].frame /\ call'[d].life = call[d].life
                            /\ call'[d].bound = call[d].bound
                            /\ call'[d].barred = call[d].barred
                            /\ call'[d] \in Arrived
             /\ ~Begun(d) => call'[d] = Unborn
  <2>1. Begun(d) => call[d] \in Arrived
    BY <1>1 DEF Types, Begun
  <2>2. CASE call[d].at \in {"bind", "store", "enforce", "touch", "ban"}
    <3>1. call'[d] = [call[d] EXCEPT !.at = "lost"] /\ Begun(d)
      BY <2>2 DEF RestartGate, Begun, Unborn
    <3> QED  BY <2>1, <2>2, <3>1 DEF Begun, Admitted, Arrived, Unborn
  <2>3. CASE ~(call[d].at \in {"bind", "store", "enforce", "touch", "ban"})
    <3>1. call'[d] = call[d]
      BY <2>3 DEF RestartGate
    <3> QED  BY <2>1, <3>1 DEF Begun, Admitted
  <2> QED  BY <2>2, <2>3
<1>3. Types'
  <2>1. call' = [d \in Call |-> call'[d]]
    BY DEF RestartGate
  <2> QED  BY <1>1, <1>2, <2>1 DEF Types
<1>4. NoneToCome' /\ Remembered'
  <2>1. \A d \in Call : Begun(d) => call'[d].life # life' /\ call'[d].life <= life'
    BY <1>1, <1>2 DEF GateInv, NoneToCome, Types, Arrived, Begun
  <2> QED  BY <1>2, <2>1 DEF NoneToCome, Remembered, Admitted, Begun, Unborn
<1>5. AdmittedOnce' /\ StillBarred' /\ Bound'
  BY <1>1, <1>2 DEF GateInv, AdmittedOnce, StillBarred, Bound, Admitted, Begun, Unborn
<1>6. Enforced' /\ BannedAreRefused' /\ OnRoute'
  <2>1. \A d \in Call : call[d].at = "accepted" \/ call[d].at \in {"touch", "ban"} => Begun(d)
    BY DEF Begun, Unborn
  <2> QED  BY <1>1, <1>2, <2>1 DEF GateInv, Enforced, BannedAreRefused, OnRoute
<1> QED  BY <1>3, <1>4, <1>5, <1>6 DEF GateInv

---------------------------------------------------------------------------
\* The invariant does not mention the number of verdicts.
LEMMA NothingKeeps ==
  ASSUME GateInv, UNCHANGED <<now, used, bindings, banned, call, life>>
  PROVE  GateInv'
BY DEF GateInv, Types, NoneToCome, Remembered, TooOld, Second, AdmittedOnce, Admitted, Bound,
       Enforced, StillBarred, BannedAreRefused, OnRoute, Begun

\* Every step of the gate keeps the invariant.
LEMMA GateKeeps == GateInv /\ [GateNext]_gateVars => GateInv'
BY ArriveKeeps, StatementsKeep, VerdictKeeps, TickKeeps, RestartKeeps, NothingKeeps
DEF GateNext, gateVars

\* What has passed the bindings has the bound key, and the binding stays.
LEMMA KeysAreBound == GateInv => BoundKeyOnly
BY DEF GateInv, Enforced, Bound, BoundKeyOnly, Begun, Unborn

\* A frame is admitted once in the life of a process, with any number of copies
\* and any clock, when ids are remembered for more than twice the skew.
THEOREM FramesAreAdmittedOnce == GateSpec => []AdmittedOnce
<1>1. GateInv => AdmittedOnce
  BY DEF GateInv
<1> QED  BY <1>1, GateInitInv, GateKeeps, PTL DEF GateSpec

\* No request under a key other than the bound one passes the gate.
THEOREM OthersKeysAreRefused == GateSpec => []BoundKeyOnly
BY GateInitInv, GateKeeps, KeysAreBound, PTL DEF GateSpec

----------------------------------------------------------------------------
(* The fan-out. *)

\* Where a fan-out is before its claim, after it, and where a job has ended.
Asked == {"recipients", "policies", "claim"}
Fanning == {"loop", "send", "sending", "disabling"}
Final == {"done", "failed", "deduped", "empty", "lost"}

AnyTarget == [kind : Kind, who : Registrant, token : Token \cup {NoToken}]

Job ==
  [at : Asked \cup Fanning \cup Final \cup {"register", "stored", "unregister"},
   todo : SUBSET (User \cup AnyTarget), allowed : SUBSET User,
   target : AnyTarget \cup {NoTarget}, claimed : Nat \cup {-1},
   targets : SUBSET AnyTarget, tried : SUBSET AnyTarget, dropped : SUBSET AnyTarget,
   refusing : SUBSET User, late : SUBSET Registrant]

\* The maps have their shape, whatever numbers stand for times.
Maps(dev, own) ==
  /\ \E T : dev \in [Kind -> [Registrant ->
       [known : BOOLEAN, token : Token \cup {NoToken}, enabled : BOOLEAN, seen : T]]]
  /\ own \in [Kind -> [Token -> Registrant \cup {Nobody}]]

EventTypes ==
  /\ Maps(devices, owner)
  /\ claims \in [EventKey -> Nat]
  /\ job \in [Call -> {NoJob} \cup Job]
  /\ \A c \in Call : Begun(c) <=> job[c] # NoJob

\* What a job does follows from the route of its request.
Routed(c, j) ==
  /\ j.at \in Asked \cup Fanning \cup {"deduped", "empty"} \/ j.claimed # -1 =>
       call[c].frame.route = "guarded"
  /\ j.at \in {"register", "stored"} => call[c].frame.route = "register"
  /\ j.at = "unregister" => call[c].frame.route = "unregister"
  /\ j.at \notin Final => call[c].life = life
  /\ j.claimed # -1 => call[c].at = "accepted"
  /\ j.at \in Asked => j.claimed = -1
  /\ j.at \in Fanning => j.claimed # -1
  /\ j.claimed = -1 => j.tried = {} /\ j.targets = {}

\* Nobody is let through the filters who is barred, or whose policy refuses
\* the sender.
Screens(c, j) ==
  /\ j.allowed \cap call[c].barred = {}
  /\ j.at = "policies" => j.todo \cap call[c].barred = {}
  /\ \A p \in j.refusing : <<p, Sender(c)>> \in blocks
  /\ (j.at \in {"policies", "claim"} \/ j.claimed # -1) /\ EventOf(c).filtered =>
       j.allowed \cap j.refusing = {}

\* What is sent goes to a target, and targets to those let through.
Aimed(j) ==
  /\ \A t \in j.targets : t.who[1] \in j.allowed
  /\ j.tried \subseteq j.targets
  /\ j.at \in Fanning => j.todo \subseteq j.targets
  /\ j.at \in {"send", "sending"} => j.target \in j.targets
  /\ j.at = "sending" => j.target \in j.tried

\* The key is in the cache for as long as it was claimed for.
Timed(c, j) ==
  LET key == EventOf(c).key
  IN  j.claimed # -1 /\ key # NoSeq /\ call[c].life = life =>
        claims[key] >= j.claimed + 2 * DedupTTL \/ now >= j.claimed + 2 * DedupTTL

\* A device with a VoIP token has a VoIP target or got the token late.
VoipSeen(c, j) ==
  j.at \in Fanning /\ EventOf(c).voip =>
    \A x \in Registrant :
      devices["voip"][x].enabled /\ x[1] \in j.allowed =>
        x \in j.late \/ \E u \in j.targets : u.kind = "voip" /\ u.who = x

\* A target that is not left has been dealt with; a message target may have
\* been left to a VoIP target.
Pending(j) ==
  /\ j.at \in Fanning \cup {"done"} =>
       \A t \in j.targets :
         /\ t.kind = "voip" /\ VoipTopic => t \in j.todo \/ t \in j.tried
         /\ t.kind = "message" =>
              \/ t \in j.todo \/ t \in j.tried \/ t \in j.dropped \/ t.who \in j.late
              \/ VoipTopic /\ \E u \in j.targets : u.kind = "voip" /\ u.who = t.who
  /\ j.at = "done" /\ j.claimed # -1 => j.todo = {}

JobInv(c, j) ==
  /\ Routed(c, j) /\ Screens(c, j) /\ Aimed(j) /\ Timed(c, j) /\ VoipSeen(c, j) /\ Pending(j)

EventInv ==
  /\ GateInv /\ EventTypes /\ ClaimedOnce
  /\ \A c \in Call : Begun(c) => JobInv(c, job[c])

---------------------------------------------------------------------------
\* A request that has arrived has its job, and what it asks for has a type.
LEMMA JobFacts ==
  ASSUME EventInv, NEW c \in Call, Begun(c)
  PROVE  /\ Types /\ call[c] \in Arrived /\ call[c].frame \in Frame
         /\ job[c] \in Job /\ JobInv(c, job[c])
         /\ call[c].frame.route = "guarded" => EventOf(c) \in Event
         /\ call[c].frame.route \in {"register", "unregister"} =>
              EventOf(c) \in [who : Registrant, message : Token, voip : Token \cup {NoToken}]
<1>1. Types
  BY DEF EventInv, GateInv
<1>2. call[c] \in Arrived /\ call[c].frame \in Frame
  BY <1>1, CallType DEF Types, Begun
<1>3. job[c] \in Job /\ JobInv(c, job[c])
  BY DEF EventInv, EventTypes
<1> QED  BY <1>1, <1>2, <1>3, EventAssumption DEF EventOf

\* What a request whose handler is past the gate has.
LEMMA WorksFacts ==
  ASSUME EventInv, NEW c \in Call, call[c].at = "accepted"
  PROVE  Begun(c)
BY DEF Begun, Unborn

\* A step of one job that claims nothing, while no VoIP token is added.
LEMMA QuietKeeps ==
  ASSUME EventInv, NEW c \in Call, Begun(c), NEW j \in Job, Becomes(c, j), JobInv(c, j),
         j.claimed = job[c].claimed,
         UNCHANGED <<gateVars, claims, blocks>>, Maps(devices', owner'),
         \A x \in Registrant : devices'["voip"][x].enabled => devices["voip"][x].enabled
  PROVE  EventInv'
<1>1. UNCHANGED <<now, used, bindings, banned, call, life, verdicts>>
  BY DEF gateVars
<1>2. GateInv'
  BY <1>1, NothingKeeps DEF EventInv
<1>3. job' = [job EXCEPT ![c] = j] /\ j # NoJob /\ job \in [Call -> {NoJob} \cup Job]
  BY DEF Becomes, EventInv, EventTypes, Job, NoJob
<1>4. EventTypes'
  BY <1>1, <1>3 DEF EventInv, EventTypes, Begun
<1>5. ClaimedOnce'
  BY <1>1, <1>3 DEF EventInv, ClaimedOnce, EventOf
<1>6. ASSUME NEW d \in Call, Begun(d) PROVE JobInv(d, job[d])'
  <2>1. JobInv(d, job'[d])
    BY <1>3, <1>6 DEF EventInv
  <2>2. VoipSeen(d, job[d])'
    BY <1>1, <2>1 DEF JobInv, VoipSeen, EventOf
  <2>3. Routed(d, job[d])' /\ Screens(d, job[d])' /\ Timed(d, job[d])'
    BY <1>1, <2>1 DEF JobInv, Routed, Screens, Timed, EventOf, Sender
  <2>4. Aimed(job[d])' /\ Pending(job[d])'
    BY <2>1 DEF JobInv, Aimed, Pending
  <2> QED  BY <2>2, <2>3, <2>4 DEF JobInv
<1> QED  BY <1>1, <1>2, <1>4, <1>5, <1>6 DEF EventInv, Begun

---------------------------------------------------------------------------
(* The filters. *)

\* The next recipient of a filter, let through or not.
LEMMA FilterKeeps ==
  ASSUME EventInv, NEW c \in Call, NEW p \in User, FilterAllowed(c, p) \/ FilterPolicy(c, p)
  PROVE  EventInv'
<1> DEFINE to == job[c].todo \ {p}
           old == job[c].allowed
<1>1. Begun(c) /\ call[c].at = "accepted" /\ p \in job[c].todo
      /\ UNCHANGED <<gateVars, claims, blocks, devices, owner>>
  BY WorksFacts DEF FilterAllowed, FilterPolicy, Works, Elsewhere, Registry
<1>2. /\ job[c] \in Job /\ JobInv(c, job[c]) /\ call[c] \in Arrived
      /\ call[c].barred \subseteq banned
  BY <1>1, JobFacts DEF EventInv, GateInv, StillBarred
<1>3. Maps(devices', owner') /\ devices' = devices
  BY <1>1 DEF EventInv, EventTypes
<1>4. CASE FilterAllowed(c, p)
  <2> DEFINE new == old \cup ({p} \ banned)
             next == IF EventOf(c).filtered THEN "policies" ELSE "claim"
             j == AfterFilter(c, to, new, next)
  <2>1. job[c].at = "recipients" /\ job[c].claimed = -1 /\ Becomes(c, j)
    BY <1>2, <1>4 DEF FilterAllowed, Works, JobInv, Routed, Asked
  <2>2. /\ new \subseteq User /\ new \cap call[c].barred = {} /\ to \in SUBSET (User \cup AnyTarget)
        /\ call[c].frame.route = "guarded" /\ call[c].life = life
        /\ job[c].tried = {} /\ job[c].targets = {}
        /\ \A q \in job[c].refusing : <<q, Sender(c)>> \in blocks
    BY <1>2, <2>1 DEF Job, JobInv, Routed, Screens, Asked, Final
  <2>3. /\ j \in Job /\ j.claimed = -1 /\ j.targets = {} /\ j.tried = {}
        /\ j.refusing = job[c].refusing
        /\ \/ j.at \in {"recipients", "claim"} /\ j.allowed = new
           \/ j.at = "policies" /\ j.todo = new /\ j.allowed = {}
           \/ j.at = "empty" /\ j.allowed = old
        /\ j.at = "claim" => ~EventOf(c).filtered
    BY <1>2, <2>1, <2>2 DEF AfterFilter, Job, Asked, Final
  <2>4. Routed(c, j) /\ Aimed(j) /\ Timed(c, j) /\ VoipSeen(c, j) /\ Pending(j)
    BY <1>1, <2>2, <2>3 DEF Routed, Aimed, Timed, VoipSeen, Pending, Asked, Fanning, Final
  <2>5. Screens(c, j)
    BY <1>2, <2>2, <2>3 DEF Screens, JobInv
  <2> HIDE DEF j
  <2> QED  BY <1>1, <1>3, <2>1, <2>3, <2>4, <2>5, QuietKeeps DEF JobInv
<1>5. CASE FilterPolicy(c, p)
  <2> DEFINE new == old \cup (IF <<p, Sender(c)>> \in blocks THEN {} ELSE {p})
             j == AfterFilter(c, to, new, "claim")
  <2>1. job[c].at = "policies" /\ job[c].claimed = -1 /\ Becomes(c, j)
    BY <1>2, <1>5 DEF FilterPolicy, Works, JobInv, Routed, Asked
  <2>2. /\ new \subseteq User /\ new \cap call[c].barred = {} /\ to \in SUBSET (User \cup AnyTarget)
        /\ to \cap call[c].barred = {}
        /\ call[c].frame.route = "guarded" /\ call[c].life = life
        /\ job[c].tried = {} /\ job[c].targets = {}
        /\ \A q \in job[c].refusing : <<q, Sender(c)>> \in blocks
        /\ EventOf(c).filtered => new \cap job[c].refusing = {}
    BY <1>1, <1>2, <2>1 DEF Job, JobInv, Routed, Screens, Asked, Final
  <2>3. /\ j \in Job /\ j.claimed = -1 /\ j.targets = {} /\ j.tried = {}
        /\ j.refusing = job[c].refusing
        /\ \/ j.at = "policies" /\ j.allowed = new /\ j.todo = to
           \/ j.at = "claim" /\ j.allowed = new
           \/ j.at = "empty" /\ j.allowed = old
    BY <1>2, <2>1, <2>2 DEF AfterFilter, Job, Asked, Final
  <2>4. Routed(c, j) /\ Aimed(j) /\ Timed(c, j) /\ VoipSeen(c, j) /\ Pending(j)
    BY <1>1, <2>2, <2>3 DEF Routed, Aimed, Timed, VoipSeen, Pending, Asked, Fanning, Final
  <2>5. Screens(c, j)
    BY <1>2, <2>2, <2>3 DEF Screens, JobInv
  <2> HIDE DEF j
  <2> QED  BY <1>1, <1>3, <2>1, <2>3, <2>4, <2>5, QuietKeeps DEF JobInv
<1> QED  BY <1>4, <1>5

---------------------------------------------------------------------------
(* The claim. *)

\* What the maps have as active tokens are targets.
LEMMA TargetFacts ==
  ASSUME EventInv, NEW c \in Call
  PROVE  /\ Targets(c) \subseteq AnyTarget
         /\ \A t \in Targets(c) : t.who[1] \in job[c].allowed
         /\ EventOf(c).voip =>
              \A x \in Registrant :
                devices["voip"][x].enabled /\ x[1] \in job[c].allowed =>
                  \E u \in Targets(c) : u.kind = "voip" /\ u.who = x
<1>1. PICK T : devices \in [Kind -> [Registrant ->
        [known : BOOLEAN, token : Token \cup {NoToken}, enabled : BOOLEAN, seen : T]]]
  BY DEF EventInv, EventTypes, Maps
<1>2. \A k \in Kind :
        /\ ActiveTokens(k, job[c].allowed) \subseteq AnyTarget
        /\ \A t \in ActiveTokens(k, job[c].allowed) : t.who[1] \in job[c].allowed
  BY <1>1 DEF ActiveTokens, AnyTarget
<1>3. ASSUME NEW x \in Registrant, devices["voip"][x].enabled, x[1] \in job[c].allowed
      PROVE  \E u \in ActiveTokens("voip", job[c].allowed) : u.kind = "voip" /\ u.who = x
  <2> DEFINE u == [kind |-> "voip", who |-> x, token |-> devices["voip"][x].token]
  <2>1. u \in ActiveTokens("voip", job[c].allowed)
    BY <1>3 DEF ActiveTokens
  <2> QED  BY <2>1
<1> QED  BY <1>2, <1>3 DEF Targets, Kind

\* A key that is free was claimed by an earlier event long enough ago.
LEMMA ClaimKeeps ==
  ASSUME EventInv, NEW c \in Call, Claim(c)
  PROVE  EventInv'
<1> DEFINE key == EventOf(c).key
<1>1. Begun(c) /\ call[c].at = "accepted" /\ job[c].at = "claim"
      /\ UNCHANGED <<gateVars, blocks, devices, owner>>
  BY WorksFacts DEF Claim, Works, Elsewhere, Registry
<1>2. job[c] \in Job /\ JobInv(c, job[c]) /\ Types
  BY <1>1, JobFacts
<1>3. job[c].claimed = -1 /\ call[c].frame.route = "guarded" /\ call[c].life = life
  BY <1>1, <1>2 DEF JobInv, Routed, Asked, Final
<1>4. EventOf(c) \in Event /\ key \in EventKey \cup {NoSeq} /\ NoSeq \notin EventKey
  BY <1>1, <1>3, JobFacts, EventAssumption DEF Event
<1>5. now \in Nat /\ DedupTTL \in Nat /\ claims \in [EventKey -> Nat]
  BY <1>2, EventAssumption DEF Types, EventInv, EventTypes
<1>6. CleanClaims \in [EventKey -> Nat]
      /\ \A k \in EventKey : CleanClaims[k] = claims[k] \/ claims[k] <= now
  BY <1>5 DEF CleanClaims
<1>7. PICK j \in Job :
        /\ Becomes(c, j) /\ claims' \in [EventKey -> Nat]
        /\ \A k \in EventKey : claims'[k] >= claims[k] \/ claims[k] <= now
        /\ \/ j = [job[c] EXCEPT !.at = "deduped"]
           \/ /\ j = Claimed(c)
              /\ key # NoSeq => claims[key] <= now /\ claims'[key] = now + 2 * DedupTTL
  <2>1. [job[c] EXCEPT !.at = "deduped"] \in Job
    BY <1>2 DEF Job, Final
  <2>2. Claimed(c) \in Job
    BY <1>2, <1>5, TargetFacts DEF Claimed, Job, Fanning
  <2>3. CASE key = NoSeq
    BY <1>1, <1>5, <2>2, <2>3 DEF Claim
  <2>4. CASE key # NoSeq /\ CleanClaims[key] # 0
    BY <1>1, <1>5, <1>6, <2>1, <2>4 DEF Claim
  <2>5. CASE key # NoSeq /\ CleanClaims[key] = 0
    <3>1. Becomes(c, Claimed(c)) /\ claims' = [CleanClaims EXCEPT ![key] = now + 2 * DedupTTL]
      BY <1>1, <2>5 DEF Claim
    <3>2. key \in EventKey /\ claims[key] <= now
      BY <1>4, <1>5, <1>6, <2>5
    <3>3. claims' \in [EventKey -> Nat] /\ claims'[key] = now + 2 * DedupTTL
      BY <1>5, <1>6, <3>1, <3>2
    <3>4. \A k \in EventKey : k # key => claims'[k] = CleanClaims[k]
      BY <1>6, <3>1
    <3>5. \A k \in EventKey : claims'[k] >= claims[k] \/ claims[k] <= now
      BY <1>5, <1>6, <3>2, <3>4
    <3> QED  BY <2>2, <3>1, <3>2, <3>3, <3>5
  <2> QED  BY <2>3, <2>4, <2>5
<1>8. /\ job' = [job EXCEPT ![c] = j] /\ j # NoJob /\ job \in [Call -> {NoJob} \cup Job]
      /\ job'[c] = j /\ \A d \in Call : d # c => job'[d] = job[d]
  BY <1>7 DEF Becomes, EventInv, EventTypes, Job, NoJob
<1>9. UNCHANGED <<now, used, bindings, banned, call, life, verdicts>>
  BY <1>1 DEF gateVars
<1>10. GateInv' /\ EventTypes'
  BY <1>1, <1>7, <1>8, <1>9, NothingKeeps DEF EventInv, EventTypes, Begun
<1>11. j.claimed # -1 =>
         /\ j.claimed = now
         /\ key # NoSeq => claims[key] <= now /\ claims'[key] = now + 2 * DedupTTL
  BY <1>2, <1>3, <1>7 DEF Claimed, Job
<1>12. ASSUME NEW d \in Call, d # c, Begun(d), job[d].claimed # -1, call[d].life = life,
              EventOf(d).key # NoSeq
       PROVE  LET k == EventOf(d).key
              IN  /\ k \in EventKey
                  /\ claims'[k] >= job[d].claimed + 2 * DedupTTL \/ now >= job[d].claimed + 2 * DedupTTL
                  /\ claims[k] <= now => now >= job[d].claimed + 2 * DedupTTL
  <2>1. job[d] \in Job /\ JobInv(d, job[d]) /\ EventOf(d).key \in EventKey
    BY <1>12, JobFacts DEF JobInv, Routed, Event
  <2>2. job[d].claimed \in Nat
    BY <1>12, <2>1 DEF Job
  <2> QED  BY <1>5, <1>7, <1>12, <2>1, <2>2 DEF JobInv, Timed
<1>13. ClaimedOnce'
  <2> SUFFICES ASSUME NEW d \in Call, d # c, Begun(d), job[d].claimed # -1, j.claimed # -1,
                      call[d].life = life, EventOf(d).key = key, key # NoSeq
               PROVE  j.claimed >= job[d].claimed + 2 * DedupTTL
    BY <1>3, <1>8, <1>9 DEF EventInv, ClaimedOnce, EventOf, Begun
  <2> QED  BY <1>11, <1>12
<1>14. JobInv(c, job[c])'
  <2>1. CASE j = [job[c] EXCEPT !.at = "deduped"]
    <3>1. /\ j.at = "deduped" /\ j.claimed = -1 /\ j.tried = {} /\ j.targets = {}
          /\ j.allowed = job[c].allowed /\ j.refusing = job[c].refusing
      BY <1>2, <1>3, <2>1 DEF Job, JobInv, Routed
    <3> QED  BY <1>2, <1>3, <1>8, <1>9, <1>1, <3>1
        DEF JobInv, Routed, Screens, Aimed, Timed, VoipSeen, Pending, Asked, Fanning, Final,
            Sender, EventOf
  <2>2. CASE j = Claimed(c)
    <3>1. /\ j.at = "loop" /\ j.claimed = now /\ j.todo = Targets(c) /\ j.targets = Targets(c)
          /\ j.tried = {} /\ j.allowed = job[c].allowed /\ j.refusing = job[c].refusing
          /\ j.claimed # -1
      BY <1>2, <1>3, <1>5, <2>2 DEF Job, Claimed, JobInv, Routed
    <3>2. Routed(c, job[c])'
      BY <1>1, <1>3, <1>8, <1>9, <3>1 DEF Routed, Asked, Fanning, Final
    <3>3. Screens(c, job[c])'
      BY <1>1, <1>2, <1>8, <1>9, <3>1 DEF JobInv, Screens, EventOf, Sender
    <3>4. Aimed(job[c])' /\ Pending(job[c])'
      BY <1>8, <3>1, TargetFacts DEF Aimed, Pending
    <3>5. Timed(c, job[c])'
      BY <1>5, <1>8, <1>9, <1>11, <3>1 DEF Timed, EventOf
    <3>6. VoipSeen(c, job[c])'
      BY <1>1, <1>8, <1>9, <3>1, TargetFacts DEF VoipSeen, EventOf
    <3> QED  BY <3>2, <3>3, <3>4, <3>5, <3>6 DEF JobInv
  <2> QED  BY <1>7, <2>1, <2>2
<1>15. ASSUME NEW d \in Call, d # c, Begun(d) PROVE JobInv(d, job[d])'
  <2>1. JobInv(d, job[d]) /\ job'[d] = job[d]
    BY <1>8, <1>15 DEF EventInv
  <2>2. Timed(d, job[d])'
    BY <1>9, <1>12, <1>15, <2>1 DEF Timed, EventOf
  <2>3. Routed(d, job[d])' /\ Screens(d, job[d])' /\ VoipSeen(d, job[d])'
    BY <1>1, <1>9, <2>1 DEF JobInv, Routed, Screens, VoipSeen, EventOf, Sender
  <2>4. Aimed(job[d])' /\ Pending(job[d])'
    BY <2>1 DEF JobInv, Aimed, Pending
  <2> QED  BY <2>2, <2>3, <2>4 DEF JobInv
<1> QED  BY <1>9, <1>10, <1>13, <1>14, <1>15 DEF EventInv, Begun

---------------------------------------------------------------------------
(* The fan-out. *)

\* A step of the loop only takes away targets that it has dealt with.
LEMMA LoopKeeps ==
  ASSUME EventInv, NEW c \in Call, Begun(c), job[c].at \in Fanning,
         NEW j \in Job, Becomes(c, j), j.at \in Fanning,
         UNCHANGED <<gateVars, claims, blocks>>, Maps(devices', owner'),
         \A x \in Registrant : devices'["voip"][x].enabled => devices["voip"][x].enabled,
         j.claimed = job[c].claimed, j.targets = job[c].targets, j.allowed = job[c].allowed,
         j.refusing = job[c].refusing, j.late = job[c].late,
         job[c].tried \subseteq j.tried, j.tried \subseteq j.targets,
         job[c].dropped \subseteq j.dropped, j.todo \subseteq job[c].todo,
         j.at \in {"send", "sending"} => j.target \in j.targets,
         j.at = "sending" => j.target \in j.tried,
         \A t \in job[c].todo \ j.todo :
           /\ t.kind = "voip" /\ VoipTopic => t \in j.tried
           /\ t.kind = "message" =>
                \/ t \in j.tried \/ t \in j.dropped \/ t.who \in j.late
                \/ VoipTopic /\ \E u \in j.targets : u.kind = "voip" /\ u.who = t.who
  PROVE  EventInv'
<1>1. JobInv(c, job[c])
  BY JobFacts
<1>2. Routed(c, j)
  BY <1>1 DEF JobInv, Routed, Asked, Fanning, Final
<1>3. Screens(c, j)
  BY <1>1 DEF JobInv, Routed, Screens, Fanning
<1>4. Aimed(j)
  BY <1>1 DEF JobInv, Aimed
<1>5. Timed(c, j) /\ VoipSeen(c, j)
  BY <1>1 DEF JobInv, Timed, VoipSeen
<1>6. Pending(j)
  <2>1. j.at # "done"
    BY DEF Fanning
  <2> SUFFICES ASSUME NEW t \in j.targets
               PROVE  /\ t.kind = "voip" /\ VoipTopic => t \in j.todo \/ t \in j.tried
                      /\ t.kind = "message" =>
                           \/ t \in j.todo \/ t \in j.tried \/ t \in j.dropped \/ t.who \in j.late
                           \/ VoipTopic /\ \E u \in j.targets : u.kind = "voip" /\ u.who = t.who
    BY <2>1 DEF Pending
  <2> QED  BY <1>1 DEF JobInv, Pending
<1> QED  BY <1>2, <1>3, <1>4, <1>5, <1>6, QuietKeeps DEF JobInv

\* The second look at the policy.
LEMMA RecheckKeeps ==
  ASSUME EventInv, NEW c \in Call, NEW t \in Target, Recheck(c, t)
  PROVE  EventInv'
<1>1. Begun(c) /\ job[c].at = "loop" /\ t \in job[c].todo /\ t.kind = "message"
      /\ UNCHANGED <<gateVars, claims, blocks, devices, owner>>
  BY WorksFacts DEF Recheck, Turn, Works, Elsewhere, Registry
<1>2. job[c] \in Job /\ job[c].todo \subseteq job[c].targets /\ job[c].tried \subseteq job[c].targets
      /\ t \in AnyTarget
  BY <1>1, JobFacts DEF JobInv, Aimed, Fanning, Target, AnyTarget
<1>3. Maps(devices', owner') /\ devices' = devices
  BY <1>1 DEF EventInv, EventTypes
<1>4. CASE Becomes(c, [job[c] EXCEPT !.at = "send", !.target = t])
  <2> DEFINE j == [job[c] EXCEPT !.at = "send", !.target = t]
  <2>1. /\ j \in Job /\ j.at = "send" /\ j.target = t /\ j.todo = job[c].todo
        /\ j.claimed = job[c].claimed /\ j.targets = job[c].targets /\ j.allowed = job[c].allowed
        /\ j.refusing = job[c].refusing /\ j.late = job[c].late
        /\ j.tried = job[c].tried /\ j.dropped = job[c].dropped
    BY <1>2 DEF Job, Fanning
  <2> HIDE DEF j
  <2> QED  BY <1>1, <1>2, <1>3, <1>4, <2>1, LoopKeeps DEF j, Fanning
<1>5. CASE Becomes(c, [Past(c, t) EXCEPT !.dropped = @ \cup {t}])
  <2> DEFINE j == [Past(c, t) EXCEPT !.dropped = @ \cup {t}]
  <2>1. /\ j \in Job /\ j.at = "loop" /\ j.todo = job[c].todo \ {t}
        /\ j.claimed = job[c].claimed /\ j.targets = job[c].targets /\ j.allowed = job[c].allowed
        /\ j.refusing = job[c].refusing /\ j.late = job[c].late
        /\ j.tried = job[c].tried /\ j.dropped = job[c].dropped \cup {t}
    BY <1>2 DEF Job, Fanning, Past
  <2> HIDE DEF j
  <2> QED  BY <1>1, <1>2, <1>3, <1>5, <2>1, LoopKeeps DEF j, Fanning
<1> QED  BY <1>4, <1>5 DEF Recheck

\* A send, or a message target left to the VoIP target its device has.
LEMMA SendKeeps ==
  ASSUME EventInv, NEW c \in Call, NEW t \in Target, Send(c, t)
  PROVE  EventInv'
<1>1. Begun(c) /\ job[c].at \in {"loop", "send"} /\ UNCHANGED <<gateVars, claims, blocks, devices, owner>>
  BY WorksFacts DEF Send, Turn, Works, Elsewhere, Registry
<1>2. /\ job[c] \in Job /\ JobInv(c, job[c])
      /\ job[c].todo \subseteq job[c].targets /\ job[c].tried \subseteq job[c].targets
  BY <1>1, JobFacts DEF JobInv, Aimed, Fanning
<1>3. t \in job[c].targets /\ t \in AnyTarget /\ t.who \in Registrant
      /\ t.who[1] \in job[c].allowed
  BY <1>1, <1>2 DEF Send, Turn, Works, JobInv, Aimed, Target, AnyTarget
<1>4. Maps(devices', owner') /\ devices' = devices
  BY <1>1 DEF EventInv, EventTypes
<1>5. CASE LeftToVoip(c, t)
  <2> DEFINE j == Past(c, t)
  <2>1. /\ j \in Job /\ j.at = "loop" /\ j.todo = job[c].todo \ {t}
        /\ j.claimed = job[c].claimed /\ j.targets = job[c].targets /\ j.allowed = job[c].allowed
        /\ j.refusing = job[c].refusing /\ j.late = job[c].late
        /\ j.tried = job[c].tried /\ j.dropped = job[c].dropped
    BY <1>2 DEF Job, Fanning, Past
  <2>2. /\ t.kind = "message" /\ VoipTopic
        /\ t.who \in job[c].late \/ \E u \in job[c].targets : u.kind = "voip" /\ u.who = t.who
    BY <1>1, <1>2, <1>3, <1>5 DEF LeftToVoip, HasActiveVoip, JobInv, VoipSeen, Fanning
  <2>3. Becomes(c, j)
    BY <1>5 DEF Send
  <2> HIDE DEF j
  <2> QED  BY <1>1, <1>2, <1>4, <2>1, <2>2, <2>3, LoopKeeps DEF Fanning
<1>6. CASE ~LeftToVoip(c, t)
  <2> DEFINE j == [job[c] EXCEPT !.at = "sending", !.target = t, !.tried = @ \cup {t}]
  <2>1. /\ j \in Job /\ j.at = "sending" /\ j.todo = job[c].todo /\ j.target = t
        /\ j.claimed = job[c].claimed /\ j.targets = job[c].targets /\ j.allowed = job[c].allowed
        /\ j.refusing = job[c].refusing /\ j.late = job[c].late
        /\ j.tried = job[c].tried \cup {t} /\ j.dropped = job[c].dropped
    BY <1>2, <1>3 DEF Job, Fanning
  <2>2. Becomes(c, j)
    BY <1>6 DEF Send
  <2> HIDE DEF j
  <2> QED  BY <1>1, <1>2, <1>3, <1>4, <2>1, <2>2, LoopKeeps DEF Fanning
<1> QED  BY <1>5, <1>6

\* Disabling a device keeps the shape of the maps, adds no VoIP token, and
\* touches this token of this device only.
LEMMA UnregisterFacts ==
  ASSUME Maps(devices, owner), NEW k \in Kind, NEW r \in Registrant, NEW t, UnregisterIn(k, r, t)
  PROVE  /\ Maps(devices', owner')
         /\ \A x \in Registrant : devices'["voip"][x].enabled => devices["voip"][x].enabled
         /\ \A l \in Kind, x \in Registrant :
              devices[l][x].enabled /\ ~devices'[l][x].enabled =>
                l = k /\ x = r /\ devices[l][x].token = t
         /\ \A l \in Kind, u \in Token :
              owner[l][u] # owner'[l][u] => l = k /\ u = t /\ owner[l][u] = r
<1>1. PICK T :
        /\ devices \in [Kind -> [Registrant ->
             [known : BOOLEAN, token : Token \cup {NoToken}, enabled : BOOLEAN, seen : T]]]
        /\ owner \in [Kind -> [Token -> Registrant \cup {Nobody}]]
  BY DEF Maps
<1>2. /\ devices' = [devices EXCEPT ![k][r].enabled = FALSE]
      /\ owner' = [owner EXCEPT ![k][t] = IF @ = r THEN Nobody ELSE @]
      /\ devices[k][r].token = t
  BY DEF UnregisterIn
<1>3. devices' \in [Kind -> [Registrant ->
        [known : BOOLEAN, token : Token \cup {NoToken}, enabled : BOOLEAN, seen : T]]]
  <2> DEFINE D == [known : BOOLEAN, token : Token \cup {NoToken}, enabled : BOOLEAN, seen : T]
  <2>1. devices[k][r] \in D
    BY <1>1
  <2>2. [devices[k][r] EXCEPT !.enabled = FALSE] \in D
    BY <2>1
  <2> HIDE DEF D
  <2>3. [devices[k] EXCEPT ![r] = [devices[k][r] EXCEPT !.enabled = FALSE]] \in [Registrant -> D]
    BY <1>1, <2>2 DEF D
  <2>4. devices' = [devices EXCEPT ![k] =
                      [devices[k] EXCEPT ![r] = [devices[k][r] EXCEPT !.enabled = FALSE]]]
    BY <1>2
  <2> QED  BY <1>1, <2>3, <2>4 DEF D
<1>4. owner' \in [Kind -> [Token -> Registrant \cup {Nobody}]]
  BY <1>1, <1>2
<1>5. \A l \in Kind, x \in Registrant :
        \/ devices'[l][x] = devices[l][x]
        \/ l = k /\ x = r /\ devices'[l][x].enabled = FALSE
  BY <1>1, <1>2
<1>6. \A l \in Kind, u \in Token :
        owner[l][u] # owner'[l][u] => l = k /\ u = t /\ owner[l][u] = r
  BY <1>1, <1>2
<1> QED  BY <1>2, <1>3, <1>4, <1>5, <1>6 DEF Maps, Kind

\* What a provider answers.
LEMMA AnswerKeeps ==
  ASSUME EventInv, NEW c \in Call, ProviderAnswers(c) \/ ProviderRefuses(c)
  PROVE  EventInv'
<1> DEFINE t == job[c].target
<1>1. Begun(c) /\ job[c].at = "sending" /\ UNCHANGED <<gateVars, claims, blocks>>
  BY WorksFacts DEF ProviderAnswers, ProviderRefuses, Works, Elsewhere
<1>2. /\ job[c] \in Job /\ job[c].todo \subseteq job[c].targets
      /\ job[c].tried \subseteq job[c].targets
      /\ t \in job[c].tried /\ t \in AnyTarget
  BY <1>1, JobFacts DEF JobInv, Aimed, Fanning, Job
<1>3. /\ Maps(devices', owner')
      /\ \A x \in Registrant : devices'["voip"][x].enabled => devices["voip"][x].enabled
  <2>1. Maps(devices, owner)
    BY DEF EventInv, EventTypes
  <2>2. t.kind \in Kind /\ t.who \in Registrant
    BY <1>2 DEF AnyTarget
  <2>3. CASE UNCHANGED Registry
    BY <2>1, <2>3 DEF Registry
  <2>4. CASE UnregisterIn(t.kind, t.who, t.token)
    BY <2>1, <2>2, <2>4, UnregisterFacts
  <2> QED  BY <2>3, <2>4 DEF ProviderAnswers, ProviderRefuses
<1>4. PICK at \in {"loop", "disabling"} : Becomes(c, [Past(c, t) EXCEPT !.at = at])
  <2>1. Past(c, t) = [Past(c, t) EXCEPT !.at = "loop"]
    BY <1>2 DEF Past, Job
  <2> QED  BY <2>1 DEF ProviderAnswers, ProviderRefuses
<1> DEFINE j == [Past(c, t) EXCEPT !.at = at]
<1>5. /\ j \in Job /\ j.at = at /\ j.todo = job[c].todo \ {t}
      /\ j.claimed = job[c].claimed /\ j.targets = job[c].targets /\ j.allowed = job[c].allowed
      /\ j.refusing = job[c].refusing /\ j.late = job[c].late
      /\ j.tried = job[c].tried /\ j.dropped = job[c].dropped
  BY <1>2 DEF Job, Fanning, Past
<1> HIDE DEF j
<1> QED  BY <1>1, <1>2, <1>3, <1>4, <1>5, LoopKeeps DEF j, Fanning

\* A job that fails or ends.
LEMMA EndKeeps ==
  ASSUME EventInv, NEW c \in Call, Disabled(c) \/ JobFails(c) \/ Finish(c)
  PROVE  EventInv'
<1>1. Begun(c) /\ UNCHANGED <<gateVars, claims, blocks, devices, owner>>
  BY WorksFacts DEF Disabled, JobFails, Finish, Works, Elsewhere, Registry
<1>2. job[c] \in Job /\ JobInv(c, job[c])
  BY <1>1, JobFacts
<1>3. Maps(devices', owner') /\ devices' = devices
  BY <1>1 DEF EventInv, EventTypes
<1>4. CASE Disabled(c)
  <2> DEFINE j == [job[c] EXCEPT !.at = "loop"]
  <2>1. job[c].at = "disabling" /\ Becomes(c, j)
    BY <1>4 DEF Disabled, Works
  <2>2. /\ j \in Job /\ j.at = "loop" /\ j.todo = job[c].todo
        /\ j.claimed = job[c].claimed /\ j.targets = job[c].targets /\ j.allowed = job[c].allowed
        /\ j.refusing = job[c].refusing /\ j.late = job[c].late
        /\ j.tried = job[c].tried /\ j.dropped = job[c].dropped
    BY <1>2 DEF Job, Fanning
  <2> HIDE DEF j
  <2> QED  BY <1>1, <1>2, <1>3, <2>1, <2>2, LoopKeeps DEF Fanning, JobInv, Aimed
<1>5. CASE JobFails(c) \/ Finish(c)
  <2>1. PICK at \in {"failed", "done"} :
          /\ Becomes(c, [job[c] EXCEPT !.at = at, !.todo = {}])
          /\ at = "done" => /\ job[c].at = "loop"
                            /\ \A t \in job[c].todo : t.kind = "voip" /\ ~VoipTopic
    BY <1>5 DEF JobFails, Finish, Works
  <2> DEFINE j == [job[c] EXCEPT !.at = at, !.todo = {}]
  <2>2. /\ j \in Job /\ j.at = at /\ j.todo = {}
        /\ j.claimed = job[c].claimed /\ j.targets = job[c].targets /\ j.allowed = job[c].allowed
        /\ j.refusing = job[c].refusing /\ j.late = job[c].late
        /\ j.tried = job[c].tried /\ j.dropped = job[c].dropped
    BY <1>2 DEF Job, Final
  <2> HIDE DEF j
  <2>3. Routed(c, j) /\ Screens(c, j) /\ Aimed(j) /\ Timed(c, j) /\ VoipSeen(c, j)
    BY <1>2, <2>2
    DEF JobInv, Routed, Screens, Aimed, Timed, VoipSeen, Asked, Fanning, Final
  <2>4. Pending(j)
    <3>1. CASE at = "failed"
      BY <2>2, <3>1 DEF Pending, Fanning
    <3>2. CASE at = "done"
      BY <1>2, <2>1, <2>2, <3>2 DEF JobInv, Pending, Fanning
    <3> QED  BY <3>1, <3>2
  <2> QED  BY <1>1, <1>3, <2>1, <2>2, <2>3, <2>4, QuietKeeps DEF j, JobInv
<1> QED  BY <1>4, <1>5

---------------------------------------------------------------------------
(* The routes of the devices. *)

\* A registration keeps the shape of the maps and enables one device at most.
LEMMA RegisterFacts ==
  ASSUME Maps(devices, owner), NEW k \in Kind, NEW r \in Registrant, NEW t \in Token \cup {NoToken},
         RegisterIn(k, r, t)
  PROVE  /\ Maps(devices', owner')
         /\ \A l \in Kind, x \in Registrant :
              devices'[l][x].enabled => devices[l][x].enabled \/ (l = k /\ x = r)
<1> DEFINE map == Disown(devices[k], owner[k], r, t)
           D(T) == [known : BOOLEAN, token : Token \cup {NoToken}, enabled : BOOLEAN, seen : T]
           Row(e) == [x \in Registrant |->
                        IF x = r THEN [known |-> TRUE, token |-> t, enabled |-> TRUE,
                                       seen |-> Later(map, r)]
                        ELSE IF x = e THEN Unknown ELSE map[x]]
<1>1. PICK T : /\ devices \in [Kind -> [Registrant -> D(T)]]
               /\ owner \in [Kind -> [Token -> Registrant \cup {Nobody}]]
  BY DEF Maps
<1>2. PICK e \in Evicted(map, r) :
        /\ devices' = [devices EXCEPT ![k] = Row(e)]
        /\ owner' = [owner EXCEPT ![k] = [Freed(map, owner[k], e) EXCEPT ![t] = r]]
  BY DEF RegisterIn
<1>3. \A x \in Registrant : map[x] \in D(T) /\ (map[x].enabled => devices[k][x].enabled)
  <2> SUFFICES ASSUME NEW x \in Registrant
               PROVE  map[x] \in D(T) /\ (map[x].enabled => devices[k][x].enabled)
    OBVIOUS
  <2>1. devices[k][x] \in D(T)
    BY <1>1
  <2>2. map[x] = devices[k][x] \/ map[x] = [devices[k][x] EXCEPT !.enabled = FALSE]
    BY DEF Disown
  <2> QED  BY <2>1, <2>2
<1> HIDE DEF map
<1> DEFINE U == T \cup {0, Later(map, r)}
<1>4. devices \in [Kind -> [Registrant -> D(U)]]
  BY <1>1
<1>5. Row(e) \in [Registrant -> D(U)]
  <2>1. \A x \in Registrant : Row(e)[x] \in D(U)
    BY <1>3 DEF Unknown
  <2> QED  BY <2>1
<1>6. devices' \in [Kind -> [Registrant -> D(U)]]
  <2> HIDE DEF Row, D, U
  <2> QED  BY <1>2, <1>4, <1>5
<1>7. owner' \in [Kind -> [Token -> Registrant \cup {Nobody}]]
  <2>1. Freed(map, owner[k], e) \in [Token -> Registrant \cup {Nobody}]
    BY <1>1 DEF Freed
  <2> QED  BY <1>1, <1>2, <2>1
<1>8. /\ \A l \in Kind : l # k => devices'[l] = devices[l]
      /\ devices'[k] = Row(e)
  <2> HIDE DEF Row
  <2> QED  BY <1>1, <1>2
<1>9. \A l \in Kind, x \in Registrant :
        devices'[l][x].enabled => devices[l][x].enabled \/ (l = k /\ x = r)
  <2> SUFFICES ASSUME NEW x \in Registrant, Row(e)[x].enabled, x # r PROVE devices[k][x].enabled
    BY <1>8
  <2> QED  BY <1>3 DEF Unknown
<1> QED  BY <1>6, <1>7, <1>9 DEF Maps

\* A step of a job that fans out nothing, and ends or goes on to its VoIP token.
LEMMA RouteKeeps ==
  ASSUME EventInv, NEW c \in Call, Begun(c), job[c].at \in {"register", "stored", "unregister"},
         NEW at \in {"done", "stored"}, at = "stored" => job[c].at = "register"
  PROVE  LET j == [job[c] EXCEPT !.at = at]
         IN  j \in Job /\ JobInv(c, j) /\ j.claimed = -1 /\ job[c].claimed = -1
<1> DEFINE j == [job[c] EXCEPT !.at = at]
<1>1. job[c] \in Job /\ JobInv(c, job[c])
  BY JobFacts
<1>2. /\ j \in Job /\ j.at = at /\ j.todo = job[c].todo
      /\ j.claimed = job[c].claimed /\ j.targets = job[c].targets /\ j.allowed = job[c].allowed
      /\ j.refusing = job[c].refusing /\ j.late = job[c].late
      /\ j.tried = job[c].tried /\ j.dropped = job[c].dropped
  BY <1>1 DEF Job, Final
<1>3. job[c].claimed = -1 /\ job[c].targets = {} /\ job[c].tried = {}
  BY <1>1 DEF JobInv, Routed
<1> HIDE DEF j
<1>4. Routed(c, j) /\ Screens(c, j) /\ Aimed(j) /\ Timed(c, j) /\ VoipSeen(c, j) /\ Pending(j)
  BY <1>1, <1>2, <1>3
  DEF JobInv, Routed, Screens, Aimed, Timed, VoipSeen, Pending, Asked, Fanning, Final
<1> QED  BY <1>2, <1>3, <1>4 DEF JobInv, j

\* The message token of a registration, or the end of an unregistration.
LEMMA MessageKeeps ==
  ASSUME EventInv, NEW c \in Call, RegisterMessage(c) \/ Unregister(c)
  PROVE  EventInv'
<1> DEFINE d == EventOf(c)
<1>1. Begun(c) /\ job[c].at \in {"register", "unregister"} /\ UNCHANGED <<gateVars, claims, blocks>>
  BY WorksFacts DEF RegisterMessage, Unregister, Works, Elsewhere
<1>2. d.who \in Registrant /\ d.message \in Token
  BY <1>1, JobFacts DEF JobInv, Routed
<1>3. Maps(devices, owner)
  BY DEF EventInv, EventTypes
<1>4. PICK at \in {"done", "stored"} :
        Becomes(c, [job[c] EXCEPT !.at = at]) /\ (at = "stored" => job[c].at = "register")
  BY DEF RegisterMessage, Unregister, Works
<1>5. /\ Maps(devices', owner')
      /\ \A x \in Registrant : devices'["voip"][x].enabled => devices["voip"][x].enabled
  <2>1. CASE RegisterIn("message", d.who, d.message)
    BY <1>2, <1>3, <2>1, RegisterFacts DEF Kind
  <2>2. CASE UnregisterIn("message", d.who, d.message)
    BY <1>2, <1>3, <2>2, UnregisterFacts DEF Kind
  <2>3. CASE UNCHANGED Registry
    BY <1>3, <2>3 DEF Registry
  <2> QED  BY <2>1, <2>2, <2>3 DEF RegisterMessage, Unregister
<1> DEFINE j == [job[c] EXCEPT !.at = at]
<1>6. j \in Job /\ JobInv(c, j) /\ j.claimed = job[c].claimed
  BY <1>1, <1>4, RouteKeeps
<1> HIDE DEF j
<1> QED  BY <1>1, <1>4, <1>5, <1>6, QuietKeeps DEF j

\* A VoIP token that comes late is late for every fan-out.
LEMMA VoipKeeps ==
  ASSUME EventInv, NEW c \in Call, RegisterVoip(c)
  PROVE  EventInv'
<1> DEFINE who == EventOf(c).who
<1>1. Begun(c) /\ job[c].at = "stored" /\ UNCHANGED <<gateVars, claims, blocks>>
      /\ RegisterIn("voip", who, EventOf(c).voip)
  BY WorksFacts DEF RegisterVoip, Works, Elsewhere
<1>2. who \in Registrant /\ EventOf(c).voip \in Token \cup {NoToken}
  BY <1>1, JobFacts DEF JobInv, Routed
<1>3. /\ Maps(devices', owner')
      /\ \A x \in Registrant : devices'["voip"][x].enabled => devices["voip"][x].enabled \/ x = who
  BY <1>1, <1>2, RegisterFacts DEF EventInv, EventTypes, Kind
<1>4. UNCHANGED <<now, used, bindings, banned, call, life, verdicts>>
  BY <1>1 DEF gateVars
<1>5. ASSUME NEW d \in Call, Begun(d)
      PROVE  /\ job'[d] \in Job /\ JobInv(d, job'[d])
             /\ job'[d].claimed = job[d].claimed
             /\ job'[d].claimed # -1 => who \in job'[d].late
  <2>1. job[d] \in Job /\ JobInv(d, job[d]) /\ job[d] # NoJob
    BY <1>5, JobFacts DEF EventInv, EventTypes
  <2>2. CASE d = c
    <3>1. job'[d] = [job[c] EXCEPT !.at = "done"]
      BY <2>2 DEF RegisterVoip
    <3> QED  BY <1>1, <2>2, <3>1, RouteKeeps
  <2>3. CASE d # c /\ job[d].claimed = -1
    <3>1. job'[d] = job[d]
      BY <2>3 DEF RegisterVoip
    <3> QED  BY <2>1, <2>3, <3>1
  <2>4. CASE d # c /\ job[d].claimed # -1
    <3> DEFINE j == [job[d] EXCEPT !.late = @ \cup {who}]
    <3>1. job'[d] = j
      BY <2>1, <2>4 DEF RegisterVoip
    <3>2. /\ j \in Job /\ j.at = job[d].at /\ j.todo = job[d].todo /\ j.target = job[d].target
          /\ j.claimed = job[d].claimed /\ j.targets = job[d].targets /\ j.allowed = job[d].allowed
          /\ j.refusing = job[d].refusing /\ j.late = job[d].late \cup {who}
          /\ j.tried = job[d].tried /\ j.dropped = job[d].dropped
      BY <1>2, <2>1 DEF Job
    <3> HIDE DEF j
    <3>3. JobInv(d, j)
      BY <2>1, <3>2 DEF JobInv, Routed, Screens, Aimed, Timed, VoipSeen, Pending
    <3> QED  BY <3>1, <3>2, <3>3
  <2> QED  BY <2>2, <2>3, <2>4
<1>6. GateInv'
  BY <1>4, NothingKeeps DEF EventInv
<1>7. EventTypes'
  <2>1. \A d \in Call : ~Begun(d) => job'[d] = NoJob
    BY <1>1 DEF RegisterVoip, EventInv, EventTypes
  <2>2. job' = [d \in Call |-> job'[d]]
    BY DEF RegisterVoip
  <2>3. NoJob \notin Job
    BY DEF NoJob, Job
  <2>4. \A d \in Call : job'[d] \in {NoJob} \cup Job /\ (Begun(d) <=> job'[d] # NoJob)
    BY <1>5, <2>1, <2>3
  <2>5. job' \in [Call -> {NoJob} \cup Job]
    BY <2>2, <2>4
  <2> QED  BY <1>1, <1>3, <1>4, <2>4, <2>5 DEF EventInv, EventTypes, Begun
<1>8. ClaimedOnce'
  BY <1>4, <1>5 DEF EventInv, ClaimedOnce, EventOf, Begun
<1>9. ASSUME NEW d \in Call, Begun(d) PROVE JobInv(d, job[d])'
  <2>1. JobInv(d, job'[d]) /\ (job'[d].claimed # -1 => who \in job'[d].late)
    BY <1>5, <1>9
  <2>2. VoipSeen(d, job[d])'
    BY <1>3, <1>4, <2>1 DEF JobInv, Routed, VoipSeen, EventOf
  <2>3. Routed(d, job[d])' /\ Screens(d, job[d])' /\ Timed(d, job[d])'
    BY <1>1, <1>4, <2>1 DEF JobInv, Routed, Screens, Timed, EventOf, Sender
  <2>4. Aimed(job[d])' /\ Pending(job[d])'
    BY <2>1 DEF JobInv, Aimed, Pending
  <2> QED  BY <2>2, <2>3, <2>4 DEF JobInv
<1> QED  BY <1>4, <1>6, <1>7, <1>8, <1>9 DEF EventInv, Begun

---------------------------------------------------------------------------
(* The gate, policies, restarts. *)

\* A step of the gate leaves every request its frame, and those past the gate
\* where they are.
LEMMA GateMoves ==
  ASSUME Types,
         \/ \E c \in Call : Statement(c) \/ GateFails(c)
         \/ \E p \in Peer : Ban(p) \/ Unban(p)
         \/ Tick,
         NEW d \in Call
  PROVE  /\ life' = life /\ now' >= now
         /\ Begun(d)' <=> Begun(d)
         /\ Begun(d) => /\ call'[d].frame = call[d].frame /\ call'[d].life = call[d].life
                        /\ call'[d].barred \subseteq call[d].barred
                        /\ call[d].at = "accepted" => call'[d].at = "accepted"
<1>0. Begun(d) => call[d] \in Arrived
  BY DEF Types, Begun
<1>1. ASSUME NEW c \in Call, Statement(c) \/ GateFails(c)
      PROVE  /\ life' = life /\ now' = now /\ call[c].at # "accepted"
             /\ \E at : Goes(c, at)
  BY <1>1 DEF Statement, ReadForBinding, StoreBinding, Enforce, Touch, CheckBan, GateFails
<1>2. CASE \E c \in Call : Statement(c) \/ GateFails(c)
  <2>1. PICK c \in Call : Statement(c) \/ GateFails(c)
    BY <1>2
  <2>2. PICK at : call' = [call EXCEPT ![c].at = at]
    BY <1>1, <2>1 DEF Goes
  <2>3. call[c].at \notin {"accepted", "unborn"}
    BY <2>1 DEF Statement, ReadForBinding, StoreBinding, Enforce, Touch, CheckBan, GateFails
  <2>4. c = d => Begun(d) /\ call'[d] = [call[d] EXCEPT !.at = at]
    BY <2>2, <2>3 DEF Types, Begun, Unborn
  <2>5. c # d => call'[d] = call[d]
    BY <2>2 DEF Types
  <2>6. [call[d] EXCEPT !.at = at] # Unborn \/ ~Begun(d)
    BY <1>0 DEF Arrived, Unborn
  <2> QED  BY <1>0, <1>1, <2>1, <2>3, <2>4, <2>5, <2>6 DEF Types, Arrived, Begun
<1>3. CASE \E p \in Peer : Ban(p)
  BY <1>3 DEF Ban, Begun, Types
<1>4. CASE \E p \in Peer : Unban(p)
  <2>1. PICK p \in Peer : Unban(p)
    BY <1>4
  <2>2. CASE ~Begun(d)
    BY <2>1, <2>2 DEF Unban, Begun, Types
  <2>3. CASE Begun(d)
    <3>1. call'[d] = [call[d] EXCEPT !.barred = @ \ {p}] /\ life' = life /\ now' = now
      BY <2>1, <2>3 DEF Unban, Begun
    <3> QED  BY <1>0, <2>3, <3>1 DEF Arrived, Unborn, Begun, Types
  <2> QED  BY <2>2, <2>3
<1>5. CASE Tick
  BY <1>5 DEF Tick, Begun, Types
<1> QED  BY <1>2, <1>3, <1>4, <1>5

\* A step of the gate.
LEMMA GateStepKeeps ==
  ASSUME EventInv, UNCHANGED <<Registry, claims, blocks, job>>,
         \/ \E c \in Call : Statement(c) \/ GateFails(c)
         \/ \E p \in Peer : Ban(p) \/ Unban(p)
         \/ Tick
  PROVE  EventInv'
<1>1. Types
  BY DEF EventInv, GateInv
<1>2. UNCHANGED <<devices, owner, claims, blocks, job>>
  BY DEF Registry
<1>3. GateInv'
  BY StatementsKeep, VerdictKeeps, TickKeeps DEF EventInv
<1>4. EventTypes'
  BY <1>1, <1>2, GateMoves DEF EventInv, EventTypes
<1>5. ClaimedOnce'
  BY <1>1, <1>2, GateMoves DEF EventInv, ClaimedOnce, EventOf, Begun
<1>6. ASSUME NEW d \in Call, Begun(d) PROVE JobInv(d, job[d])'
  <2>1. job[d] \in Job /\ JobInv(d, job[d])
    BY <1>6, JobFacts
  <2>2. /\ life' = life /\ now' >= now
        /\ call'[d].frame = call[d].frame /\ call'[d].life = call[d].life
        /\ call'[d].barred \subseteq call[d].barred
        /\ call[d].at = "accepted" => call'[d].at = "accepted"
    BY <1>1, <1>6, GateMoves
  <2>3. Routed(d, job[d])'
    BY <1>2, <2>1, <2>2 DEF JobInv, Routed
  <2>4. Screens(d, job[d])'
    BY <1>2, <2>1, <2>2 DEF JobInv, Screens, EventOf, Sender
  <2>5. Timed(d, job[d])'
    <3> DEFINE k == EventOf(d).key
    <3>1. now \in Nat /\ now' \in Nat /\ DedupTTL \in Nat
      BY <1>1, <1>3, EventAssumption DEF GateInv, Types
    <3>2. EventOf(d)' = EventOf(d)
      BY <2>2 DEF EventOf
    <3>3. job[d].claimed # -1 => job[d].claimed \in Nat
      BY <2>1 DEF Job
    <3> QED  BY <1>2, <2>1, <2>2, <3>1, <3>2, <3>3 DEF JobInv, Timed
  <2>6. VoipSeen(d, job[d])'
    BY <1>2, <2>1, <2>2 DEF JobInv, VoipSeen, EventOf
  <2>7. Aimed(job[d])' /\ Pending(job[d])'
    BY <1>2, <2>1 DEF JobInv, Aimed, Pending
  <2> QED  BY <2>3, <2>4, <2>5, <2>6, <2>7 DEF JobInv
<1>7. \A d \in Call : Begun(d)' <=> Begun(d)
  BY <1>1, GateMoves
<1> QED  BY <1>3, <1>4, <1>5, <1>6, <1>7 DEF EventInv

\* A request that arrives has fanned out nothing.
LEMMA EventArriveKeeps ==
  ASSUME EventInv, NEW c \in Call, NEW f \in Frame, EventArrive(c, f)
  PROVE  EventInv'
<1>1. Types /\ ~Begun(c) /\ job[c] = NoJob /\ UNCHANGED <<devices, owner, claims, blocks>>
  BY DEF EventInv, GateInv, EventTypes, EventArrive, Arrive, Begun, Registry
<1>2. UNCHANGED <<now, bindings, banned, life, verdicts>>
  BY DEF EventArrive, Arrive
<1>3. PICK at : /\ call'[c] = [at |-> at, frame |-> f, life |-> life,
                               bound |-> bindings[f.from], barred |-> banned]
                /\ \A d \in Call : d # c => call'[d] = call[d]
  <2>1. PICK at : Begins(c, f, at)
    BY DEF EventArrive, Arrive
  <2> QED  BY <1>1, <2>1 DEF Begins, Types
<1>4. GateInv'
  BY ArriveKeeps DEF EventInv, EventArrive
<1> DEFINE j == NewJob(f)
<1>5. /\ j \in Job /\ j.claimed = -1 /\ j.targets = {} /\ j.tried = {} /\ j.allowed = {}
      /\ j.refusing = {p \in User : <<p, f.from>> \in blocks}
      /\ j.at \in {"recipients", "register", "unregister", "done"}
      /\ j.at = "recipients" => f.route = "guarded"
      /\ j.at = "register" => f.route = "register"
      /\ j.at = "unregister" => f.route = "unregister"
  <2>1. f.route = "guarded" => Payload[f].to \subseteq User
    BY EventAssumption DEF Event
  <2> QED  BY <2>1 DEF NewJob, Job, Asked, Final
<1> HIDE DEF j
<1>6. job'[c] = j /\ (\A d \in Call : d # c => job'[d] = job[d]) /\ j # NoJob
      /\ job' \in [Call -> {NoJob} \cup Job]
  BY <1>5 DEF EventInv, EventTypes, EventArrive, Becomes, NoJob, Job, j
<1>7. Begun(c)' /\ \A d \in Call : d # c => (Begun(d)' <=> Begun(d))
  BY <1>3 DEF Begun, Unborn
<1>8. EventTypes'
  BY <1>1, <1>6, <1>7 DEF EventInv, EventTypes
<1>9. ClaimedOnce'
  BY <1>3, <1>5, <1>6, <1>7 DEF EventInv, ClaimedOnce, EventOf, Begun
<1>10. JobInv(c, job[c])'
  <2>1. Routed(c, job[c])'
    BY <1>2, <1>3, <1>5, <1>6 DEF Routed, Asked, Fanning, Final
  <2>2. Screens(c, job[c])'
    BY <1>1, <1>3, <1>5, <1>6 DEF Screens, Sender
  <2>3. Aimed(job[c])' /\ Timed(c, job[c])' /\ VoipSeen(c, job[c])' /\ Pending(job[c])'
    BY <1>5, <1>6 DEF Aimed, Timed, VoipSeen, Pending, Fanning
  <2> QED  BY <2>1, <2>2, <2>3 DEF JobInv
<1>11. ASSUME NEW d \in Call, d # c, Begun(d) PROVE JobInv(d, job[d])'
  <2>1. JobInv(d, job[d]) /\ job'[d] = job[d] /\ call'[d] = call[d]
    BY <1>3, <1>6, <1>11 DEF EventInv
  <2> QED  BY <1>1, <1>2, <2>1
      DEF JobInv, Routed, Screens, Aimed, Timed, VoipSeen, Pending, EventOf, Sender
<1> QED  BY <1>4, <1>7, <1>8, <1>9, <1>10, <1>11 DEF EventInv

\* A policy that changes: who refuses the sender still does.
LEMMA PolicyKeeps ==
  ASSUME EventInv, NEW p \in User, NEW s \in Peer, SyncPolicy(p, s)
  PROVE  EventInv'
<1>1. UNCHANGED <<now, used, bindings, banned, call, life, devices, owner, claims>>
  BY DEF SyncPolicy, Registry
<1>2. ASSUME NEW d \in Call, Begun(d)
      PROVE  /\ job'[d] \in Job
             /\ \A q \in job'[d].refusing : <<q, Sender(d)>> \in blocks'
             /\ job'[d].refusing \subseteq job[d].refusing
             /\ job'[d].at = job[d].at /\ job'[d].todo = job[d].todo
             /\ job'[d].target = job[d].target /\ job'[d].claimed = job[d].claimed
             /\ job'[d].targets = job[d].targets /\ job'[d].allowed = job[d].allowed
             /\ job'[d].late = job[d].late
             /\ job'[d].tried = job[d].tried /\ job'[d].dropped = job[d].dropped
  <2>1. job[d] \in Job /\ \A q \in job[d].refusing : <<q, Sender(d)>> \in blocks
    BY <1>2, JobFacts DEF JobInv, Screens
  <2>2. CASE blocks' = blocks \cup {<<p, s>>} /\ UNCHANGED job
    BY <2>1, <2>2
  <2>3. CASE /\ blocks' = blocks \ {<<p, s>>}
             /\ job' = [c \in Call |->
                  IF call[c] # Unborn /\ Sender(c) = s
                  THEN [job[c] EXCEPT !.refusing = @ \ {p}] ELSE job[c]]
    <3>1. CASE Sender(d) = s
      <4>1. job'[d] = [job[d] EXCEPT !.refusing = @ \ {p}]
        BY <1>2, <2>3, <3>1 DEF Begun
      <4> QED  BY <2>1, <2>3, <4>1 DEF Job
    <3>2. CASE Sender(d) # s
      <4>1. job'[d] = job[d]
        BY <2>3, <3>2
      <4> QED  BY <2>1, <2>3, <3>2, <4>1
    <3> QED  BY <3>1, <3>2
  <2> QED  BY <2>2, <2>3 DEF SyncPolicy
<1>3. GateInv'
  BY <1>1, NothingKeeps DEF EventInv
<1>4. EventTypes'
  <2>1. \A d \in Call : ~Begun(d) => job'[d] = NoJob
    BY DEF SyncPolicy, EventInv, EventTypes, Begun
  <2>2. job' = [d \in Call |-> job'[d]]
    BY DEF SyncPolicy, EventInv, EventTypes
  <2>3. NoJob \notin Job
    BY DEF NoJob, Job
  <2>4. \A d \in Call : job'[d] \in {NoJob} \cup Job /\ (Begun(d) <=> job'[d] # NoJob)
    BY <1>2, <2>1, <2>3
  <2>5. job' \in [Call -> {NoJob} \cup Job]
    BY <2>2, <2>4
  <2> QED  BY <1>1, <2>4, <2>5 DEF EventInv, EventTypes, Begun
<1>5. ClaimedOnce'
  BY <1>1, <1>2 DEF EventInv, ClaimedOnce, EventOf, Begun
<1>6. ASSUME NEW d \in Call, Begun(d) PROVE JobInv(d, job[d])'
  <2>1. JobInv(d, job[d])
    BY <1>6 DEF EventInv
  <2>2. Routed(d, job[d])' /\ Screens(d, job[d])'
    BY <1>1, <1>2, <1>6, <2>1 DEF JobInv, Routed, Screens, EventOf, Sender
  <2>3. Timed(d, job[d])' /\ VoipSeen(d, job[d])'
    BY <1>1, <1>2, <1>6, <2>1 DEF JobInv, Timed, VoipSeen, EventOf
  <2>4. Aimed(job[d])' /\ Pending(job[d])'
    BY <1>2, <1>6, <2>1 DEF JobInv, Aimed, Pending
  <2> QED  BY <2>2, <2>3, <2>4 DEF JobInv
<1> QED  BY <1>1, <1>3, <1>4, <1>5, <1>6 DEF EventInv, Begun

\* The owners of any devices.
LEMMA OwnersFacts ==
  ASSUME NEW map PROVE OwnersOf(map) \in [Token -> Registrant \cup {Nobody}]
BY DEF OwnersOf

\* A restart: the claims are gone, and so is every job that had not ended.
LEMMA EventRestartKeeps ==
  ASSUME EventInv, Restart
  PROVE  EventInv'
<1>1. Types /\ NoneToCome /\ UNCHANGED <<now, bindings, banned, blocks>> /\ life' = life + 1
  BY DEF EventInv, GateInv, Restart, RestartGate
<1>2. ASSUME NEW d \in Call
      PROVE  /\ Begun(d)' <=> Begun(d)
             /\ Begun(d) => /\ call'[d].frame = call[d].frame /\ call'[d].life = call[d].life
                            /\ call'[d].life # life'
                            /\ call'[d].barred = call[d].barred
                            /\ call[d].at = "accepted" => call'[d].at = "accepted"
  <2>1. Begun(d) => call[d] \in Arrived /\ call[d].life <= life
    BY <1>1 DEF Types, Begun, NoneToCome
  <2>2. \/ call'[d] = call[d]
        \/ call'[d] = [call[d] EXCEPT !.at = "lost"] /\ call[d].at \notin {"accepted", "unborn"}
    BY DEF Restart, RestartGate
  <2> QED  BY <1>1, <2>1, <2>2 DEF Begun, Arrived, Unborn, Types
<1>3. GateInv'
  BY RestartKeeps DEF EventInv, Restart
<1>4. Maps(devices', owner')
  <2>1. PICK T : devices \in [Kind -> [Registrant ->
          [known : BOOLEAN, token : Token \cup {NoToken}, enabled : BOOLEAN, seen : T]]]
    BY DEF EventInv, EventTypes, Maps
  <2> DEFINE D == [known : BOOLEAN, token : Token \cup {NoToken}, enabled : BOOLEAN,
                   seen : T \cup Nat]
  <2>2. /\ \A k \in Kind, x \in Registrant : devices[k][x] \in D /\ Loaded[k][x] \in D
        /\ Unknown \in D
    BY <2>1, EventAssumption DEF Device, Unknown
  <2>3. PICK written \in SUBSET Registrant :
          devices' = [k \in Kind |-> [x \in Registrant |->
            IF x \notin written THEN Loaded[k][x]
            ELSE IF devices[k][x].enabled THEN devices[k][x] ELSE Unknown]]
    BY DEF Restart
  <2> HIDE DEF D
  <2>4. devices' \in [Kind -> [Registrant -> D]]
    BY <2>2, <2>3
  <2>5. owner' \in [Kind -> [Token -> Registrant \cup {Nobody}]]
    BY OwnersFacts DEF Restart
  <2> QED  BY <2>4, <2>5 DEF Maps, D
<1>5. ASSUME NEW d \in Call, Begun(d)
      PROVE  /\ job'[d] \in Job
             /\ \/ job'[d] = job[d] /\ job[d].at \in Final
                \/ job'[d].at = "lost" /\ job'[d].todo = {}
             /\ job'[d].claimed = job[d].claimed
             /\ job'[d].targets = job[d].targets /\ job'[d].allowed = job[d].allowed
             /\ job'[d].tried = job[d].tried /\ job'[d].refusing = job[d].refusing
  <2>1. job[d] \in Job /\ job[d] # NoJob
    BY <1>5, JobFacts DEF EventInv, EventTypes
  <2>2. \/ job'[d] = job[d] /\ job[d].at \in Final
        \/ job'[d] = [job[d] EXCEPT !.at = "lost", !.todo = {}]
    BY <2>1 DEF Restart, Final
  <2> QED  BY <2>1, <2>2 DEF Job, Final
<1>6. EventTypes'
  <2>1. \A d \in Call : ~Begun(d) => job'[d] = NoJob
    BY DEF Restart, EventInv, EventTypes
  <2>2. job' = [d \in Call |-> job'[d]]
    BY DEF Restart
  <2>3. NoJob \notin Job
    BY DEF NoJob, Job
  <2>4. \A d \in Call : job'[d] \in {NoJob} \cup Job /\ (Begun(d) <=> job'[d] # NoJob)
    BY <1>5, <2>1, <2>3
  <2>5. job' \in [Call -> {NoJob} \cup Job]
    BY <2>2, <2>4
  <2>6. claims' \in [EventKey -> Nat]
    BY DEF Restart
  <2> QED  BY <1>2, <1>4, <2>4, <2>5, <2>6 DEF EventTypes
<1>7. ClaimedOnce'
  BY <1>2, <1>5 DEF EventInv, ClaimedOnce, EventOf, Begun
<1>8. ASSUME NEW d \in Call, Begun(d) PROVE JobInv(d, job[d])'
  <2>1. JobInv(d, job[d])
    BY <1>8 DEF EventInv
  <2>2. job'[d].at \in Final \ {"deduped", "empty"} \/ job'[d] = job[d]
    BY <1>5, <1>8 DEF Final
  <2>3. Routed(d, job[d])'
    BY <1>2, <1>5, <1>8, <2>1 DEF JobInv, Routed, Asked, Fanning, Final
  <2>4. Screens(d, job[d])'
    BY <1>1, <1>2, <1>5, <1>8, <2>1 DEF JobInv, Screens, EventOf, Sender, Final
  <2>5. Timed(d, job[d])' /\ VoipSeen(d, job[d])'
    BY <1>2, <1>5, <1>8 DEF Timed, VoipSeen, Fanning, Final
  <2>6. Aimed(job[d])' /\ Pending(job[d])'
    BY <1>5, <1>8, <2>1 DEF JobInv, Aimed, Pending, Fanning, Final
  <2> QED  BY <2>3, <2>4, <2>5, <2>6 DEF JobInv
<1> QED  BY <1>2, <1>3, <1>6, <1>7, <1>8 DEF EventInv

---------------------------------------------------------------------------
\* Nothing has arrived.
LEMMA EventInitInv == EventInit => EventInv
<1> SUFFICES ASSUME EventInit PROVE EventInv
  OBVIOUS
<1>1. GateInv /\ \A c \in Call : ~Begun(c)
  BY GateInitInv DEF EventInit, GateInit, Begun
<1>2. Maps(devices, owner)
  <2>1. devices \in [Kind -> [Registrant -> Device]]
    BY EventAssumption DEF EventInit
  <2>2. owner \in [Kind -> [Token -> Registrant \cup {Nobody}]]
    BY OwnersFacts DEF EventInit
  <2> QED  BY <2>1, <2>2 DEF Maps, Device
<1>3. EventTypes
  BY <1>1, <1>2 DEF EventTypes, EventInit
<1> QED  BY <1>1, <1>3 DEF EventInv, ClaimedOnce, Begun

\* Every step keeps the invariant.
LEMMA EventKeeps == EventInv /\ [EventNext]_eventVars => EventInv'
<1> SUFFICES ASSUME EventInv, [EventNext]_eventVars PROVE EventInv'
  OBVIOUS
<1>1. CASE UNCHANGED eventVars
  <2>1. UNCHANGED <<now, used, bindings, banned, call, life, devices, owner, claims, blocks, job>>
    BY <1>1 DEF eventVars, gateVars
  <2>2. GateInv' /\ EventTypes' /\ ClaimedOnce'
    BY <2>1, NothingKeeps DEF EventInv, EventTypes, ClaimedOnce, EventOf, Begun
  <2>3. ASSUME NEW d \in Call, Begun(d) PROVE JobInv(d, job[d])'
    BY <2>1, <2>3
    DEF EventInv, JobInv, Routed, Screens, Aimed, Timed, VoipSeen, Pending, EventOf, Sender
  <2> QED  BY <2>1, <2>2, <2>3 DEF EventInv, Begun
<1>2. CASE \E c \in Call, f \in Frame : EventArrive(c, f)
  BY <1>2, EventArriveKeeps
<1>3. CASE \E c \in Call : \E p \in User : FilterAllowed(c, p) \/ FilterPolicy(c, p)
  BY <1>3, FilterKeeps
<1>4. CASE \E c \in Call : Claim(c)
  BY <1>4, ClaimKeeps
<1>5. CASE \E c \in Call : \E t \in Target : Recheck(c, t) \/ Send(c, t)
  BY <1>5, RecheckKeeps, SendKeeps
<1>6. CASE \E c \in Call : \/ ProviderAnswers(c) \/ ProviderRefuses(c)
                           \/ Disabled(c) \/ JobFails(c) \/ Finish(c)
  BY <1>6, AnswerKeeps, EndKeeps
<1>7. CASE \E c \in Call : RegisterMessage(c) \/ RegisterVoip(c) \/ Unregister(c)
  BY <1>7, MessageKeeps, VoipKeeps
<1>8. CASE /\ \/ \E c \in Call : Statement(c) \/ GateFails(c)
              \/ \E p \in Peer : Ban(p) \/ Unban(p)
              \/ Tick
           /\ UNCHANGED <<Registry, claims, blocks, job>>
  BY <1>8, GateStepKeeps
<1>9. CASE \E p \in User : \E s \in Peer \ {p} : SyncPolicy(p, s)
  BY <1>9, PolicyKeeps
<1>10. CASE Restart
  BY <1>10, EventRestartKeeps
<1> QED  BY <1>1, <1>2, <1>3, <1>4, <1>5, <1>6, <1>7, <1>8, <1>9, <1>10 DEF EventNext

---------------------------------------------------------------------------
\* An event is fanned out once per dedup time, with any number of retries.
THEOREM EventsAreClaimedOnce == EventSpec => []ClaimedOnce
<1>1. EventInv => ClaimedOnce
  BY DEF EventInv
<1> QED  BY <1>1, EventInitInv, EventKeeps, PTL DEF EventSpec

\* With any number of recipients, bans and policies, nothing is sent for or to
\* whom they have kept out since before the request.
THEOREM BarredGetNothing == EventSpec => []NothingForBarred
<1>1. EventInv => NothingForBarred
  <2> SUFFICES ASSUME EventInv, NEW c \in Call, Begun(c), NEW t \in job[c].tried
               PROVE  /\ {Sender(c), t.who[1]} \cap call[c].barred = {}
                      /\ EventOf(c).filtered => t.who[1] \notin job[c].refusing
    BY DEF NothingForBarred, Begun
  <2>1. JobInv(c, job[c]) /\ job[c].claimed # -1
    BY JobFacts DEF JobInv, Routed
  <2>2. call[c].at = "accepted" /\ call[c].frame.route = "guarded"
    BY <2>1 DEF JobInv, Routed
  <2>3. Sender(c) \notin call[c].barred
    BY <2>2 DEF EventInv, GateInv, BannedAreRefused, Sender
  <2>4. t.who[1] \in job[c].allowed
    BY <2>1 DEF JobInv, Aimed
  <2> QED  BY <2>1, <2>3, <2>4 DEF JobInv, Screens
<1> QED  BY <1>1, EventInitInv, EventKeeps, PTL DEF EventSpec

\* With any number of targets, sends and tokens that change hands, an event
\* that is answered has left out nobody but those whose VoIP token came late.
THEOREM OnlyTheLateAreLeftOut == EventSpec => []LeftOutOnlyIfLate
<1>1. EventInv => LeftOutOnlyIfLate
  <2> SUFFICES ASSUME EventInv, NEW c \in Call, job[c].at = "done", NEW t \in job[c].targets,
                      t.kind = "message"
               PROVE  Reached(c, t) \/ t.who \in job[c].late
    BY DEF LeftOutOnlyIfLate
  <2>1. Begun(c)
    BY DEF EventInv, EventTypes, NoJob
  <2>2. JobInv(c, job[c])
    BY <2>1, JobFacts
  <2>3. job[c].todo = {}
    BY <2>2 DEF JobInv, Routed, Pending
  <2> QED  BY <2>2, <2>3 DEF JobInv, Pending, Reached
<1> QED  BY <1>1, EventInitInv, EventKeeps, PTL DEF EventSpec

\* A frame is admitted once, whatever goes on behind the gate.
THEOREM EventFramesOnce == EventSpec => []AdmittedOnce
<1>1. EventInv => AdmittedOnce
  BY DEF EventInv, GateInv
<1> QED  BY <1>1, EventInitInv, EventKeeps, PTL DEF EventSpec

\* Another key's frame is refused, whatever goes on behind the gate.
THEOREM EventKeysBound == EventSpec => []BoundKeyOnly
<1>1. EventInv => BoundKeyOnly
  BY KeysAreBound DEF EventInv
<1> QED  BY <1>1, EventInitInv, EventKeeps, PTL DEF EventSpec

\* A refusal touches its token only, whatever its device or another has
\* registered since the send.
THEOREM RefusalsHitTheirToken == EventSpec => RefusalHitsItsToken
<1>1. EventInv /\ [EventNext]_eventVars => [RefusedOnly]_eventVars
  <2> SUFFICES ASSUME EventInv, EventNext, NEW c \in Call,
                      job[c].at = "sending", job'[c].at = "disabling"
               PROVE  LET t == job[c].target
                      IN  \A k \in Kind :
                            /\ \A x \in Registrant :
                                 devices[k][x].enabled /\ ~devices'[k][x].enabled =>
                                   k = t.kind /\ x = t.who /\ devices[k][x].token = t.token
                            /\ \A u \in Token :
                                 owner[k][u] # owner'[k][u] =>
                                   k = t.kind /\ u = t.token /\ owner[k][u] = t.who
    BY DEF RefusedOnly
  <2> DEFINE t == job[c].target
  <2>1. Begun(c) /\ job[c] # NoJob
    BY DEF EventInv, EventTypes, NoJob
  <2>2. job[c] \in Job /\ job \in [Call -> {NoJob} \cup Job]
    BY <2>1, JobFacts DEF EventInv, EventTypes
  <2>3. \A d \in Call : \A j : Becomes(d, j) /\ d # c => job'[c] = job[c]
    BY DEF Becomes
  <2>4. ProviderRefuses(c)
    <3>1. ~ \E d \in Call, f \in Frame : EventArrive(d, f)
      BY <2>1, <2>3 DEF EventArrive, Arrive, Begun
    <3>2. ~ \E d \in Call : \E p \in User : FilterAllowed(d, p) \/ FilterPolicy(d, p)
      BY <2>3 DEF FilterAllowed, FilterPolicy, Works
    <3>3. ~ \E d \in Call : Claim(d)
      BY <2>3 DEF Claim, Works
    <3>4. ~ \E d \in Call : \E u \in Target : Recheck(d, u)
      BY <2>3 DEF Recheck, Turn, Works
    <3>5. ~ \E d \in Call : \E u \in Target : Send(d, u)
      BY <2>3 DEF Send, Turn, Works
    <3>6. ~ \E d \in Call : ProviderAnswers(d)
      <4>1. Past(c, t).at = "loop"
        BY <2>2 DEF Past, Job
      <4>2. ASSUME ProviderAnswers(c) PROVE job'[c] = Past(c, t)
        BY <2>2, <4>2 DEF ProviderAnswers, Becomes
      <4> QED  BY <2>3, <4>1, <4>2 DEF ProviderAnswers
    <3>7. ASSUME NEW d \in Call, ProviderRefuses(d) PROVE d = c
      <4>1. \E j : Becomes(d, j)
        BY <3>7 DEF ProviderRefuses
      <4> QED  BY <2>3, <4>1
    <3>8. ~ \E d \in Call : Disabled(d) \/ JobFails(d) \/ Finish(d)
      BY <2>3 DEF Disabled, JobFails, Finish, Works
    <3>9. ~ \E d \in Call : RegisterMessage(d) \/ Unregister(d)
      BY <2>3 DEF RegisterMessage, Unregister, Works
    <3>10. ~ \E d \in Call : RegisterVoip(d)
      <4> SUFFICES ASSUME NEW d \in Call, RegisterVoip(d) PROVE FALSE
        OBVIOUS
      <4>1. d # c
        BY DEF RegisterVoip, Works
      <4>2. job'[c] = job[c] \/ job'[c] = [job[c] EXCEPT !.late = @ \cup {EventOf(d).who}]
        BY <4>1 DEF RegisterVoip
      <4> QED  BY <2>2, <4>2 DEF Job
    <3>11. ~ UNCHANGED job
      OBVIOUS
    <3>12. ~ \E p \in User : \E s \in Peer \ {p} : SyncPolicy(p, s)
      <4> SUFFICES ASSUME NEW p \in User, NEW s \in Peer, SyncPolicy(p, s) PROVE FALSE
        OBVIOUS
      <4>1. job'[c] = job[c] \/ job'[c] = [job[c] EXCEPT !.refusing = @ \ {p}]
        BY DEF SyncPolicy
      <4> QED  BY <2>2, <4>1 DEF Job
    <3>13. ~Restart
      <4> SUFFICES ASSUME Restart PROVE FALSE
        OBVIOUS
      <4>1. job'[c] = [job[c] EXCEPT !.at = "lost", !.todo = {}]
        BY <2>1 DEF Restart
      <4> QED  BY <2>2, <4>1 DEF Job
    <3> QED  BY <3>1, <3>2, <3>3, <3>4, <3>5, <3>6, <3>7, <3>8, <3>9, <3>10, <3>11, <3>12, <3>13
        DEF EventNext
  <2>5. t.kind \in Kind /\ t.who \in Registrant
    BY <2>1, <2>2, JobFacts DEF JobInv, Aimed, Job, AnyTarget
  <2>6. Maps(devices, owner)
    BY DEF EventInv, EventTypes
  <2>7. UnregisterIn(t.kind, t.who, t.token)
    <3>1. Past(c, t).at = "loop"
      BY <2>2 DEF Past, Job
    <3>2. ~Becomes(c, Past(c, t))
      BY <2>2, <3>1 DEF Becomes
    <3> QED  BY <2>4, <3>2 DEF ProviderRefuses
  <2> QED  BY <2>5, <2>6, <2>7, UnregisterFacts
<1> QED  BY <1>1, EventInitInv, EventKeeps, PTL DEF EventSpec, RefusalHitsItsToken
=============================================================================
