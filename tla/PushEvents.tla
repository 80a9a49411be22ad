----------------------------- MODULE PushEvents ----------------------------
(***************************************************************************)
(* The handlers behind the gate of the push service: POST /events/push     *)
(* from the filters of its recipients to its answer, and the part of       *)
(* /devices/register and /devices/unregister that changes the registry in  *)
(* memory.  A fan-out waits for the database before each recipient and     *)
(* each message target and for a provider after each send; other requests, *)
(* registrations, bans and policies go on meanwhile.                       *)
(*                                                                         *)
(* AccessPolicy has the decisions of a policy in their parts and           *)
(* DeviceRegistry the table of the devices; here a decision is one read    *)
(* and the table is only what a restart loads.                             *)
(***************************************************************************)
EXTENDS PushGate, DeviceMaps

CONSTANTS
  Payload,     \* what each frame asks for
  NoSeq,       \* the dedup key of an event that has none
  EventKey,    \* sender, type, scope and sequence of an event
  Apple,       \* the devices that are iOS or macOS
  VoipTopic,   \* is APNS_VOIP_TOPIC configured?
  DedupTTL,    \* PUSH_DEDUP_TTL_SECONDS
  Loaded       \* the devices loaded at startup, by kind

\* filtered: requiresAccessPolicy(payload).
Event == [to : SUBSET User, key : EventKey \cup {NoSeq}, invite : BOOLEAN,
          standard : BOOLEAN, voip : BOOLEAN, filtered : BOOLEAN]

ASSUME EventAssumption ==
  /\ User \subseteq Peer /\ Apple \subseteq Registrant
  /\ NoSeq \notin EventKey /\ DedupTTL \in Nat \ {0}
  /\ Loaded \in [Kind -> [Registrant -> Device]]
  /\ \A f \in Frame : \/ f.route = "guarded" /\ Payload[f] \in Event
                      \/ f.route = "appeal"
                      \/ f.route \in {"register", "unregister"}
                           /\ Payload[f] \in [who : Registrant, message : Token,
                                              voip : Token \cup {NoToken}]

VARIABLES
  claims,    \* the dedup cache: the expiry of each key
  blocks,    \* <<recipient, sender>> where the recipient's policy refuses
  job        \* what each accepted request has done

eventVars == <<gateVars, devices, owner, claims, blocks, job>>

---------------------------------------------------------------------------
Target == [kind : Kind, who : Registrant, token : Token]
NoTarget == [kind |-> "none"]

\* todo and allowed are recipients until the key is claimed, then todo are the
\* targets left.  Observations: the targets as claimed and when, those tried
\* and those dropped by a policy or an error of its check, the recipients that
\* have refused the sender since the arrival, the devices whose VoIP token was
\* registered after the claim.
NewJob(f) ==
  [at |-> CASE f.route = "guarded" -> "recipients"
            [] f.route = "register" -> "register"
            [] f.route = "unregister" -> "unregister"
            [] OTHER -> "done",
   todo |-> IF f.route = "guarded" THEN Payload[f].to ELSE {},
   allowed |-> {}, target |-> NoTarget,
   claimed |-> -1, targets |-> {}, tried |-> {}, dropped |-> {},
   refusing |-> {p \in User : <<p, f.from>> \in blocks}, late |-> {}]
NoJob == [at |-> "none"]

EventOf(c) == Payload[call[c].frame]
Sender(c) == call[c].frame.from

Works(c, at) == call[c].at = "accepted" /\ job[c].at = at

Becomes(c, new) == job' = [job EXCEPT ![c] = new]

Elsewhere == UNCHANGED <<gateVars, blocks>>
Registry == <<devices, owner>>

---------------------------------------------------------------------------
(* The filters of the recipients, one select each. *)

\* Where the handler goes when the recipients todo of a filter have been read.
AfterFilter(c, todo, allowed, next) ==
  IF todo # {} THEN [job[c] EXCEPT !.todo = todo, !.allowed = allowed]
  ELSE IF allowed = {} THEN [job[c] EXCEPT !.at = "empty", !.todo = {}]
  ELSE IF next = "policies" THEN [job[c] EXCEPT !.at = next, !.todo = allowed, !.allowed = {}]
  ELSE [job[c] EXCEPT !.at = next, !.todo = {}, !.allowed = allowed]

\* Mutant: only the sender is looked up in the list of the banned.
FilterAllowedNobody(c, p) ==
  /\ Works(c, "recipients") /\ p \in job[c].todo
  /\ Becomes(c, AfterFilter(c, job[c].todo \ {p}, job[c].allowed \cup {p},
                            IF EventOf(c).filtered THEN "policies" ELSE "claim"))
  /\ Elsewhere /\ UNCHANGED <<Registry, claims>>

\* filterAllowedPeers
FilterAllowed(c, p) ==
  /\ Works(c, "recipients") /\ p \in job[c].todo
  /\ Becomes(c, AfterFilter(c, job[c].todo \ {p}, job[c].allowed \cup ({p} \ banned),
                            IF EventOf(c).filtered THEN "policies" ELSE "claim"))
  /\ Elsewhere /\ UNCHANGED <<Registry, claims>>

\* filterByAccessPolicy
FilterPolicy(c, p) ==
  /\ Works(c, "policies") /\ p \in job[c].todo
  /\ Becomes(c, AfterFilter(c, job[c].todo \ {p},
                            job[c].allowed \cup
                              (IF <<p, Sender(c)>> \in blocks THEN {} ELSE {p}), "claim"))
  /\ Elsewhere /\ UNCHANGED <<Registry, claims>>

---------------------------------------------------------------------------
(* The claim of the event's key and the targets. *)

\* cleanup of the dedup cache
CleanClaims == [k \in EventKey |-> IF claims[k] <= now THEN 0 ELSE claims[k]]

Targets(c) ==
  (IF EventOf(c).standard THEN ActiveTokens("message", job[c].allowed) ELSE {})
    \cup (IF EventOf(c).voip THEN ActiveTokens("voip", job[c].allowed) ELSE {})

Claimed(c) ==
  [job[c] EXCEPT !.at = "loop", !.todo = Targets(c), !.targets = Targets(c), !.claimed = now]

\* tryAcquire and what follows it up to the first await of the fan-out.
Claim(c) ==
  LET key == EventOf(c).key
  IN  /\ Works(c, "claim")
      /\ IF key = NoSeq THEN Becomes(c, Claimed(c)) /\ UNCHANGED claims
         ELSE IF CleanClaims[key] # 0
         THEN Becomes(c, [job[c] EXCEPT !.at = "deduped"]) /\ claims' = CleanClaims
         ELSE /\ Becomes(c, Claimed(c))
              /\ claims' = [CleanClaims EXCEPT ![key] = now + 2 * DedupTTL]
      /\ Elsewhere /\ UNCHANGED Registry

---------------------------------------------------------------------------
(* The fan-out: message targets first, then, with a topic, VoIP targets. *)

\* The loop is at target t.  The order within a kind is left open.
Turn(c, t) ==
  /\ Works(c, "loop") /\ t \in job[c].todo
  /\ t.kind = "voip" => VoipTopic /\ \A u \in job[c].todo : u.kind = "voip"

\* The loop goes on after target t.
Past(c, t) == [job[c] EXCEPT !.at = "loop", !.todo = @ \ {t}, !.target = NoTarget]

\* The policy is asked again for every message target: the target is dropped if
\* the policy refuses now, or if that statement throws.
Recheck(c, t) ==
  /\ Turn(c, t) /\ t.kind = "message" /\ EventOf(c).filtered
  /\ \/ /\ <<t.who[1], Sender(c)>> \notin blocks
        /\ Becomes(c, [job[c] EXCEPT !.at = "send", !.target = t])
     \/ Becomes(c, [Past(c, t) EXCEPT !.dropped = @ \cup {t}])
  /\ Elsewhere /\ UNCHANGED <<Registry, claims>>

\* Mutant: the device's own VoIP token is not looked up.
LeftToVoipAlways(c, t) ==
  t.kind = "message" /\ EventOf(c).invite /\ t.who \in Apple /\ EventOf(c).voip /\ VoipTopic

\* A call rings an Apple device through VoIP only, if it has a VoIP token now.
LeftToVoip(c, t) ==
  /\ t.kind = "message" /\ EventOf(c).invite /\ t.who \in Apple
  /\ EventOf(c).voip /\ VoipTopic
  /\ HasActiveVoip(t.who)

Send(c, t) ==
  /\ \/ Works(c, "send") /\ job[c].target = t
     \/ Turn(c, t) /\ (t.kind = "voip" \/ ~EventOf(c).filtered)
  /\ Becomes(c, IF LeftToVoip(c, t) THEN Past(c, t)
                ELSE [job[c] EXCEPT !.at = "sending", !.target = t, !.tried = @ \cup {t}])
  /\ Elsewhere /\ UNCHANGED <<Registry, claims>>

\* The provider takes the push, or fails in a way that says nothing about the
\* token.
ProviderAnswers(c) ==
  /\ Works(c, "sending")
  /\ Becomes(c, Past(c, job[c].target))
  /\ Elsewhere /\ UNCHANGED <<Registry, claims>>

\* The provider says that the token is no longer valid: the device is
\* disabled in memory if it still has it, and then in the table.
ProviderRefuses(c) ==
  LET t == job[c].target
  IN  /\ Works(c, "sending")
      /\ \/ UnregisterIn(t.kind, t.who, t.token) /\ Becomes(c, [Past(c, t) EXCEPT !.at = "disabling"])
         \/ /\ ~(devices[t.kind][t.who].known /\ devices[t.kind][t.who].token = t.token)
            /\ Becomes(c, Past(c, t))
            /\ UNCHANGED Registry
      /\ Elsewhere /\ UNCHANGED claims

Disabled(c) ==
  /\ Works(c, "disabling")
  /\ Becomes(c, [job[c] EXCEPT !.at = "loop"])
  /\ Elsewhere /\ UNCHANGED <<Registry, claims>>

\* Mutant: the key is given back for a retry.
JobFailsReleasing(c) ==
  /\ call[c].at = "accepted"
  /\ job[c].at \in {"recipients", "policies", "disabling", "stored"}
  /\ Becomes(c, [job[c] EXCEPT !.at = "failed", !.todo = {}])
  /\ claims' = IF job[c].claimed # -1 /\ EventOf(c).key # NoSeq
               THEN [claims EXCEPT ![EventOf(c).key] = 0] ELSE claims
  /\ Elsewhere /\ UNCHANGED Registry

\* A statement outside the try of the loop throws: 500, the rest of the
\* fan-out is not done and the key stays claimed.
JobFails(c) ==
  /\ call[c].at = "accepted"
  /\ job[c].at \in {"recipients", "policies", "disabling", "stored"}
  /\ Becomes(c, [job[c] EXCEPT !.at = "failed", !.todo = {}])
  /\ Elsewhere /\ UNCHANGED <<Registry, claims>>

\* 200, or 502 when nothing was sent and something failed.
Finish(c) ==
  /\ Works(c, "loop")
  /\ \A t \in job[c].todo : t.kind = "voip" /\ ~VoipTopic
  /\ Becomes(c, [job[c] EXCEPT !.at = "done", !.todo = {}])
  /\ Elsewhere /\ UNCHANGED <<Registry, claims>>

---------------------------------------------------------------------------
(* The routes of the devices. *)

\* POST /devices/register: the message token in memory, its upsert, the VoIP
\* token in memory, its upsert.
RegisterMessage(c) ==
  LET d == EventOf(c)
  IN  /\ Works(c, "register")
      /\ RegisterIn("message", d.who, d.message)
      /\ Becomes(c, [job[c] EXCEPT !.at = IF d.voip = NoToken THEN "done" ELSE "stored"])
      /\ Elsewhere /\ UNCHANGED claims

RegisterVoip(c) ==
  LET d == EventOf(c)
  IN  /\ Works(c, "stored")
      /\ RegisterIn("voip", d.who, d.voip)
      /\ job' = [x \in Call |->
           IF x = c THEN [job[x] EXCEPT !.at = "done"]
           ELSE IF job[x] # NoJob /\ job[x].claimed # -1
           THEN [job[x] EXCEPT !.late = @ \cup {d.who}] ELSE job[x]]
      /\ Elsewhere /\ UNCHANGED claims

Unregister(c) ==
  LET d == EventOf(c)
  IN  /\ Works(c, "unregister")
      /\ \/ UnregisterIn("message", d.who, d.message)
         \/ /\ ~(devices["message"][d.who].known /\ devices["message"][d.who].token = d.message)
            /\ UNCHANGED Registry
      /\ Becomes(c, [job[c] EXCEPT !.at = "done"])
      /\ Elsewhere /\ UNCHANGED claims

---------------------------------------------------------------------------
(* The gate, policies, restarts. *)

\* A step of the gate; a request that arrives gets its job.
EventArrive(c, f) ==
  /\ Arrive(c, f)
  /\ Becomes(c, NewJob(f))
  /\ UNCHANGED <<Registry, claims, blocks>>

\* A snapshot of a recipient's access policy commits.
SyncPolicy(p, s) ==
  /\ verdicts < MaxVerdicts
  /\ verdicts' = verdicts + 1
  /\ \/ /\ <<p, s>> \notin blocks
        /\ blocks' = blocks \cup {<<p, s>>}
        /\ UNCHANGED job
     \/ /\ <<p, s>> \in blocks
        /\ blocks' = blocks \ {<<p, s>>}
        /\ job' = [c \in Call |->
             IF call[c] # Unborn /\ Sender(c) = s THEN [job[c] EXCEPT !.refusing = @ \ {p}]
             ELSE job[c]]
  /\ UNCHANGED <<now, used, bindings, banned, call, life, Registry, claims>>

OwnersOf(map) ==
  [t \in Token |-> IF \E x \in Registrant : map[x].enabled /\ map[x].token = t
                   THEN CHOOSE x \in Registrant : map[x].enabled /\ map[x].token = t
                   ELSE Nobody]

\* The new process loads the devices from the table, which may be behind: each
\* as memory had it or as it was at the first start; no two enabled devices
\* have one token there.
Restart ==
  /\ RestartGate
  /\ \E written \in SUBSET Registrant :
       devices' = [k \in Kind |-> [x \in Registrant |->
         IF x \notin written THEN Loaded[k][x]
         ELSE IF devices[k][x].enabled THEN devices[k][x] ELSE Unknown]]
  /\ \A k \in Kind, x, y \in Registrant :
       devices'[k][x].enabled /\ devices'[k][y].enabled
         /\ devices'[k][x].token = devices'[k][y].token => x = y
  /\ owner' = [k \in Kind |-> OwnersOf(devices'[k])]
  /\ claims' = [k \in EventKey |-> 0]
  /\ job' = [c \in Call |->
       IF job[c] = NoJob \/ job[c].at \in {"done", "failed", "deduped", "empty"} THEN job[c]
       ELSE [job[c] EXCEPT !.at = "lost", !.todo = {}]]
  /\ UNCHANGED blocks

EventInit ==
  /\ GateInit
  /\ devices = Loaded
  /\ owner = [k \in Kind |-> OwnersOf(Loaded[k])]
  /\ claims = [k \in EventKey |-> 0]
  /\ blocks = {}
  /\ job = [c \in Call |-> NoJob]

EventNext ==
  \/ \E c \in Call, f \in Frame : EventArrive(c, f)
  \/ \E c \in Call : \/ \E p \in User : FilterAllowed(c, p) \/ FilterPolicy(c, p)
                     \/ Claim(c)
                     \/ \E t \in Target : Recheck(c, t) \/ Send(c, t)
                     \/ ProviderAnswers(c) \/ ProviderRefuses(c)
                     \/ Disabled(c) \/ JobFails(c) \/ Finish(c)
                     \/ RegisterMessage(c) \/ RegisterVoip(c) \/ Unregister(c)
  \/ /\ \/ \E c \in Call : Statement(c) \/ GateFails(c)
        \/ \E p \in Peer : Ban(p) \/ Unban(p)
        \/ Tick
     /\ UNCHANGED <<Registry, claims, blocks, job>>
  \/ \E p \in User : \E s \in Peer \ {p} : SyncPolicy(p, s)
  \/ Restart

EventSpec == EventInit /\ [][EventNext]_eventVars

---------------------------------------------------------------------------
(* Properties. *)

\* Two requests of one process that both fan out the same event, retries under
\* new request ids included, claimed it at least the dedup time apart
\* (PUSH.md:69), although each waits for the database many times before.
ClaimedOnce ==
  \A c, d \in Call :
    /\ c # d /\ call[c] # Unborn /\ call[d] # Unborn
    /\ call[c].frame.route = "guarded" /\ call[d].frame.route = "guarded"
    /\ EventOf(c).key = EventOf(d).key /\ EventOf(c).key # NoSeq
    /\ call[c].life = call[d].life
    /\ job[c].claimed # -1 /\ job[d].claimed # -1
    => \/ job[c].claimed >= job[d].claimed + 2 * DedupTTL
       \/ job[d].claimed >= job[c].claimed + 2 * DedupTTL

\* Nothing is sent for a sender, or to a recipient, that has been banned since
\* before the request arrived, nor to a recipient whose policy has refused the
\* sender since then.
NothingForBarred ==
  \A c \in Call : call[c] # Unborn =>
    \A t \in job[c].tried :
      /\ {Sender(c), t.who[1]} \cap call[c].barred = {}
      /\ EventOf(c).filtered => t.who[1] \notin job[c].refusing

\* What a step that disables a refused token changes in the maps.
RefusedOnly ==
  \A c \in Call : job[c].at = "sending" /\ job'[c].at = "disabling" =>
    LET t == job[c].target
    IN  \A k \in Kind :
          /\ \A x \in Registrant :
               devices[k][x].enabled /\ ~devices'[k][x].enabled =>
                 k = t.kind /\ x = t.who /\ devices[k][x].token = t.token
          /\ \A u \in Token :
               owner[k][u] # owner'[k][u] => k = t.kind /\ u = t.token /\ owner[k][u] = t.who

\* What a provider says of a token touches that token only: a device that has
\* registered another token since the send stays enabled, and a token that has
\* another owner keeps it.
RefusalHitsItsToken == [][RefusedOnly]_eventVars

\* The device of message target t was tried, by its message token or by VoIP,
\* or t was dropped.
Reached(c, t) == t \in job[c].tried \/ t \in job[c].dropped
                   \/ \E u \in job[c].tried : u.kind = "voip" /\ u.who = t.who

\* An event answered after its fan-out has tried every device it had a message
\* target for (CHANGELOG.md:414: "so the device is not left without a call
\* push"), but for one that got its VoIP token during the fan-out: the message
\* target is then left to VoIP, whose targets were collected before.
LeftOutOnlyIfLate ==
  \A c \in Call : job[c].at = "done" =>
    \A t \in job[c].targets : t.kind = "message" => Reached(c, t) \/ t.who \in job[c].late
============================================================================
