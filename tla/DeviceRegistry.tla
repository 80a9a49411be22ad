--------------------------- MODULE DeviceRegistry --------------------------
(***************************************************************************)
(* The push service's device registry: for messages and for VoIP, a map of *)
(* each user's devices and a map of each token's owner, both in memory,    *)
(* and the push_devices table they are loaded from at startup.  A call     *)
(* changes memory at once and then awaits its statements on the table one  *)
(* after the other; those of other calls go on in between.  A statement    *)
(* finds its rows in what is committed when it starts and in what its own  *)
(* transaction wrote, waits for the rows that other transactions have      *)
(* written, and changes those it still matches (read committed).           *)
(***************************************************************************)
EXTENDS DeviceMaps

CONSTANTS
  Registration, \* device, message token and VoIP token of the registrations
  Order,        \* the places that select may give the rows of a user
  StoreErrors,  \* can a database call fail?
  MaxCalls,     \* bound: calls that change the registry
  MaxRequests,  \* bound: calls awaiting the database at the same time
  MaxRestarts   \* bound: restarts of the service

ASSUME RegistryAssumption ==
  /\ Registration \subseteq Registrant \X Token \X (Token \cup {NoToken})
  /\ Order \subseteq [Registrant -> Nat]
  /\ \A order \in Order : \A x \in Registrant, y \in Registrant :
       x[1] = y[1] /\ order[x] = order[y] => x = y
  /\ StoreErrors \in BOOLEAN
  /\ MaxCalls \in Nat /\ MaxRequests \in Nat /\ MaxRestarts \in Nat

VARIABLES
  rows,      \* the table push_devices, as committed
  requests,  \* calls awaiting the database
  calls,     \* calls so far
  restarts,  \* restarts so far
  orphaned,  \* observation: tokens that lost their owner when another device
             \* with its device id was evicted
  ranked,    \* observation: registrants whose upsert has ranked its user's rows,
             \* with no commit for that user since
  crowded,   \* observation: users whose last upsert ranked without the one
             \* committed before it
  mixed,     \* observation: registrants with two calls that overlapped, or one
             \* that failed, since the service started
  calm,      \* observation: no two calls have overlapped and none has failed
             \* since a start that loaded every enabled row
  left,      \* observation: registrants whose unregister was answered ok while
             \* not mixed and who have not registered since
  ringing    \* observation: those who were enabled for VoIP at that time, if
             \* the service has not restarted since

observed == <<orphaned, ranked, crowded, mixed, calm, left, ringing>>
vars == <<devices, owner, rows, requests, calls, restarts, observed>>

---------------------------------------------------------------------------
\* seen is last_seen_at; a row that is not there was seen at 0.
Row == [message : Token \cup {NoToken}, voip : Token \cup {NoToken},
        enabled : BOOLEAN, seen : Nat]
NoRow == [message |-> NoToken, voip |-> NoToken, enabled |-> FALSE, seen |-> 0]

\* A call: what it awaits, the token it is about, and of its transaction now(),
\* the rows the statement under way has found and the rows it has written.
Request ==
  [n : Nat, at : {"begin", "search", "clear", "insert", "rank", "commit", "stored", "disable"},
   kind : Kind, who : Registrant, tokens : [Kind -> Token \cup {NoToken}],
   now : Nat, found : SUBSET Registrant, held : SUBSET Registrant]

---------------------------------------------------------------------------
(* What a transaction sees. *)

Matches(q, row) == row[q.kind] = q.tokens[q.kind]

\* A row whose token is taken away.
Struck(kind, row) ==
  IF kind = "message" THEN [row EXCEPT !.enabled = FALSE] ELSE [row EXCEPT !.voip = NoToken]

\* Mutant: the update forgets to enable the row again.
InsertedAsItWas(q) ==
  [rows[q.who] EXCEPT ![q.kind] = q.tokens[q.kind], !.seen = q.now, !.enabled = @ \/ rows[q.who] = NoRow]

\* The row of insert ... on conflict do update: the other token is kept.
Inserted(q) ==
  [rows[q.who] EXCEPT ![q.kind] = q.tokens[q.kind], !.seen = q.now, !.enabled = TRUE]

\* Nobody else changes the rows that q holds.
View(q) ==
  [x \in Registrant |->
     IF x \notin q.held THEN rows[x]
     ELSE IF x = q.who THEN Inserted(q) ELSE Struck(q.kind, rows[x])]

\* No other transaction has written the row.
Free(q, x) == \A p \in requests \ {q} : x \notin p.held

\* Two rows that one of the unique indexes does not allow together.
Clash(row, other) ==
  row.enabled /\ other.enabled /\ \E k \in Kind : row[k] # NoToken /\ row[k] = other[k]

\* A transaction's now() is its start, later than all the user's before.
Now(r) ==
  1 + Max({0} \cup {rows[x].seen : x \in OfUser(r)}
              \cup {p.now : p \in {p \in requests : p.who[1] = r[1]}})

---------------------------------------------------------------------------
(* The calls. *)

Arrives(at, kind, r, tokens) ==
  /\ calls < MaxCalls
  /\ calls' = calls + 1
  /\ Cardinality(requests) < MaxRequests
  /\ requests' = requests \cup
       {[n |-> calls, at |-> at, kind |-> kind, who |-> r, tokens |-> tokens,
         now |-> 0, found |-> {}, held |-> {}]}
  /\ calm' = (calm /\ requests = {})
  /\ mixed' = IF \E p \in requests : p.who = r THEN mixed \cup {r} ELSE mixed

Goes(q, new) == requests' = (requests \ {q}) \cup {new}

Answers(q) == requests' = requests \ {q}

\* The tokens that the eviction of another device leaves without an owner.
Orphans(kind) ==
  {<<kind, t>> : t \in {t \in Token : /\ owner[kind][t] # Nobody /\ owner'[kind][t] = Nobody
                                      /\ devices'[kind][owner[kind][t]].known}}

\* POST /devices/register, up to the first await of registerDevice.
Register(r, mt, vt) ==
  /\ Arrives("begin", "message", r, [message |-> mt, voip |-> vt])
  /\ RegisterIn("message", r, mt)
  /\ orphaned' = orphaned \cup Orphans("message")
  /\ left' = left \ {r}
  /\ UNCHANGED <<rows, restarts, ranked, crowded, ringing>>

\* begin
Begin(q) ==
  /\ q.at = "begin"
  /\ Goes(q, [q EXCEPT !.at = "search", !.now = Now(q.who)])
  /\ UNCHANGED <<devices, owner, rows, calls, restarts, observed>>

\* The update of other rows with the token finds them, enabled or not.
Search(q) ==
  /\ q.at = "search"
  /\ Goes(q, [q EXCEPT !.at = "clear",
                       !.found = {x \in Registrant \ {q.who} : Matches(q, rows[x])}])
  /\ UNCHANGED <<devices, owner, rows, calls, restarts, observed>>

\* It disables them, or takes their VoIP token.
Clear(q) ==
  /\ q.at = "clear"
  /\ \A x \in q.found : Free(q, x)
  /\ Goes(q, [q EXCEPT !.at = "insert", !.found = {},
                       !.held = {x \in q.found : Matches(q, rows[x])}])
  /\ UNCHANGED <<devices, owner, rows, calls, restarts, observed>>

\* The insert waits for the row and for transactions whose end decides whether
\* a row with its token stays.
Delayed(q) ==
  \/ ~Free(q, q.who)
  \/ \E p \in requests \ {q} : \E x \in p.held :
       Clash(Inserted(q), rows[x]) \/ Clash(Inserted(q), View(p)[x])

Refused(q) ==
  \E x \in Registrant \ {q.who} : Free(q, x) /\ Clash(Inserted(q), View(q)[x])

Insert(q) ==
  /\ q.at = "insert"
  /\ ~Delayed(q) /\ ~Refused(q)
  /\ Goes(q, [q EXCEPT !.at = "rank", !.held = @ \cup {q.who}])
  /\ UNCHANGED <<devices, owner, rows, calls, restarts, observed>>

\* Mutant: one row too many stays enabled.
RankOneMore(q) ==
  LET enabled == {x \in OfUser(q.who) : View(q)[x].enabled}
  IN  /\ q.at = "rank"
      /\ Goes(q, [q EXCEPT !.at = "commit", !.found =
           {x \in enabled :
              Cardinality({y \in enabled : View(q)[y].seen > View(q)[x].seen}) > MaxDevices}])
      /\ ranked' = ranked \cup {q.who}
      /\ UNCHANGED <<devices, owner, rows, calls, restarts, orphaned, crowded, mixed, calm,
                     left, ringing>>

\* The last update finds all but the MaxDevices of the user's enabled rows that
\* were seen last.
Rank(q) ==
  LET enabled == {x \in OfUser(q.who) : View(q)[x].enabled}
  IN  /\ q.at = "rank"
      /\ Goes(q, [q EXCEPT !.at = "commit", !.found =
           {x \in enabled :
              Cardinality({y \in enabled : View(q)[y].seen > View(q)[x].seen}) >= MaxDevices}])
      /\ ranked' = ranked \cup {q.who}
      /\ UNCHANGED <<devices, owner, rows, calls, restarts, orphaned, crowded, mixed, calm,
                     left, ringing>>

\* It disables them, whatever they are by now, and the transaction commits:
\* nothing else can tell the two apart, as others wait for the rows until then.
Commit(q) ==
  /\ q.at = "commit"
  /\ \A x \in q.found : Free(q, x)
  /\ rows' = [x \in Registrant |->
       IF x \in q.found THEN [View(q)[x] EXCEPT !.enabled = FALSE] ELSE View(q)[x]]
  /\ IF q.kind = "message" /\ q.tokens["voip"] # NoToken
     THEN Goes(q, [q EXCEPT !.at = "stored", !.now = 0, !.found = {}, !.held = {}])
     ELSE Answers(q)
  /\ crowded' = IF q.who \in ranked THEN crowded \ {q.who[1]} ELSE crowded \cup {q.who[1]}
  /\ ranked' = ranked \ OfUser(q.who)
  /\ UNCHANGED <<devices, owner, calls, restarts, orphaned, mixed, calm, left, ringing>>

\* The handler goes on with the VoIP token, up to the await of registerVoipDevice.
Continue(q) ==
  /\ q.at = "stored"
  /\ Goes(q, [q EXCEPT !.at = "begin", !.kind = "voip"])
  /\ RegisterIn("voip", q.who, q.tokens["voip"])
  /\ orphaned' = orphaned \cup Orphans("voip")
  /\ UNCHANGED <<rows, calls, restarts, ranked, crowded, mixed, calm, left, ringing>>

\* A statement or the insert's index check fails: rollback, 500.  Memory stays.
Fails(q) ==
  /\ \/ StoreErrors /\ q.at # "stored"
     \/ q.at = "insert" /\ Free(q, q.who) /\ Refused(q)
  /\ Answers(q)
  /\ calm' = FALSE
  /\ mixed' = mixed \cup {q.who}
  /\ UNCHANGED <<devices, owner, rows, calls, restarts, orphaned, ranked, crowded, left, ringing>>

\* POST /devices/unregister, or a provider that answers that a token is no
\* longer valid, up to the await of disablePushDeviceToken.
Unregister(kind, r, t) ==
  /\ Arrives("disable", kind, r, [k \in Kind |-> IF k = kind THEN t ELSE NoToken])
  /\ UnregisterIn(kind, r, t)
  /\ UNCHANGED <<rows, restarts, orphaned, ranked, crowded, left, ringing>>

Leaves(q) ==
  IF q.kind = "message" /\ q.who \notin mixed
  THEN /\ left' = left \cup {q.who}
       /\ ringing' = IF HasActiveVoip(q.who) THEN ringing \cup {q.who} ELSE ringing \ {q.who}
  ELSE UNCHANGED <<left, ringing>>

\* Mutant: the statement compares the VoIP token.
StoreDisabledByVoip(q) ==
  /\ q.at = "disable"
  /\ rows[q.who].voip = q.tokens[q.kind] => Free(q, q.who)
  /\ rows' = [rows EXCEPT ![q.who] = IF @.voip = q.tokens[q.kind] THEN Struck(q.kind, @) ELSE @]
  /\ Answers(q)
  /\ Leaves(q)
  /\ UNCHANGED <<devices, owner, calls, restarts, orphaned, ranked, crowded, mixed, calm>>

\* One statement of its own: the row loses its token if it is still this one.
StoreDisabled(q) ==
  /\ q.at = "disable"
  /\ Matches(q, rows[q.who]) => Free(q, q.who)
  /\ rows' = [rows EXCEPT ![q.who] = IF Matches(q, @) THEN Struck(q.kind, @) ELSE @]
  /\ Answers(q)
  /\ Leaves(q)
  /\ UNCHANGED <<devices, owner, calls, restarts, orphaned, ranked, crowded, mixed, calm>>

---------------------------------------------------------------------------
(* loadFromStorage *)

Stored(kind) == {x \in Registrant : rows[x].enabled /\ rows[x][kind] # NoToken}

\* What is in memory when the stored rows have registered in this order, each
\* evicting its user's device seen longest ago when there is no room: a user's
\* last row, and of those before it the MaxDevices - 1 seen last.
Loaded(kind, order) ==
  {x \in Stored(kind) :
     LET before == {y \in Stored(kind) \cap OfUser(x) :
                      \E z \in Stored(kind) \cap OfUser(x) : order[z] > order[y]}
     IN  x \in before =>
           Cardinality({y \in before : rows[y].seen > rows[x].seen}) < MaxDevices - 1}

\* The service stops, whatever it was doing, and a new process loads.
Restart ==
  /\ restarts < MaxRestarts
  /\ restarts' = restarts + 1
  /\ requests' = {}
  /\ \E loaded \in {[k \in Kind |-> Loaded(k, order)] : order \in Order} :
       /\ devices' = [k \in Kind |-> [x \in Registrant |->
            IF x \in loaded[k]
            THEN [known |-> TRUE, token |-> rows[x][k], enabled |-> TRUE, seen |-> rows[x].seen]
            ELSE Unknown]]
       /\ owner' = [k \in Kind |-> [t \in Token |->
            IF \E x \in loaded[k] : rows[x][k] = t
            THEN CHOOSE x \in loaded[k] : rows[x][k] = t
            ELSE Nobody]]
       /\ calm' = \A k \in Kind : loaded[k] = Stored(k)
  /\ orphaned' = {} /\ ranked' = {} /\ mixed' = {} /\ ringing' = {}
  /\ UNCHANGED <<rows, calls, crowded, left>>

---------------------------------------------------------------------------
Init ==
  /\ devices = [k \in Kind |-> [x \in Registrant |-> Unknown]]
  /\ owner = [k \in Kind |-> [t \in Token |-> Nobody]]
  /\ rows = [x \in Registrant |-> NoRow]
  /\ requests = {} /\ calls = 0 /\ restarts = 0
  /\ orphaned = {} /\ ranked = {} /\ crowded = {} /\ mixed = {}
  /\ calm = TRUE
  /\ left = {} /\ ringing = {}

Next ==
  \/ \E r \in Registrant, t \in Token :
       \E kind \in Kind : Unregister(kind, r, t)
  \/ \E g \in Registration : Register(g[1], g[2], g[3])
  \/ \E q \in requests :
       \/ Begin(q) \/ Search(q) \/ Clear(q) \/ Insert(q) \/ Rank(q) \/ Commit(q)
       \/ Continue(q) \/ Fails(q) \/ StoreDisabled(q)
  \/ Restart

Spec == Init /\ [][Next]_vars

---------------------------------------------------------------------------
(* Properties. *)

OneEnabledDevice(kind) ==
  \A x \in Registrant, y \in Registrant :
    /\ devices[kind][x].enabled /\ devices[kind][y].enabled
    /\ devices[kind][x].token = devices[kind][y].token
    /\ <<kind, devices[kind][x].token>> \notin orphaned
    => x = y

\* A token is enabled for at most one device, so that a push for one user is
\* not sent to a phone on which another has since signed in, with the same
\* device id or a new one: memory keeps what the unique indexes of the table
\* say (schema.js:231).  The exception is a token whose owner was forgotten
\* with an evicted device of the same device id (registry.js:177).
TokensStayUnique == OneEnabledDevice("message") /\ OneEnabledDevice("voip")

\* A restart enables every token of the enabled rows again, whatever overlapped
\* before: it evicts only devices of users whose last two upserts ranked without
\* seeing each other, so that more rows than the limit stayed enabled
\* (observability.js:169).
LoadLosesNothing ==
  [][restarts' # restarts =>
       \A k \in Kind : \A x \in Stored(k) :
         x[1] \notin crowded =>
           devices'[k][x].enabled /\ devices'[k][x].token = rows[x][k]]_vars

\* A device whose unregister was answered ok (PUSH.md:121: "Disables a user
\* device token"), when none of its own calls had overlapped another of them or
\* failed since the service started, gets no message push until it registers
\* again, and its row stays disabled, whatever overlaps, fails or restarts
\* afterwards.  It gets call pushes only if it got them before, and only until a
\* restart: unregister does not touch the VoIP map (registry.js:200).
UnregisteredStaysDisabled ==
  \A r \in left :
    /\ ~rows[r].enabled /\ ~devices["message"][r].enabled
    /\ devices["voip"][r].enabled => r \in ringing

Remembered(kind, x) ==
  devices[kind][x].known /\ <<kind, devices[kind][x].token>> \notin orphaned

\* As long as calls come one after the other and none fails, what memory knows
\* of a device after each of them is what the table says (PUSH.md:9: "in-memory
\* fallback/cache"), through takeovers, evictions, invalidations and restarts:
\* its message token, whether it is enabled, and its VoIP token.  A device that
\* memory has evicted may still be enabled in the table, since memory counts
\* disabled devices too (registry.js:168).
CacheAgrees ==
  calm /\ requests = {} =>
    \A x \in Registrant :
      /\ Remembered("message", x) =>
           /\ devices["message"][x].enabled = rows[x].enabled
           /\ devices["message"][x].token = rows[x].message
      /\ Remembered("voip", x) =>
           rows[x].voip = IF devices["voip"][x].enabled THEN devices["voip"][x].token ELSE NoToken
============================================================================
