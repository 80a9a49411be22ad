------------------------ MODULE DeviceRegistryProofs -----------------------
(***************************************************************************)
(* Proofs about DeviceRegistry, for any users, devices, tokens and limit,  *)
(* any number of calls that overlap, fail or end with the service, and any *)
(* number of restarts: no token is enabled for two devices; a device whose *)
(* unregister was answered stays disabled, but for call pushes it got      *)
(* before; a start loses no token unless upserts of one user overlapped;   *)
(* and while calls do not overlap or fail, memory says of the devices it   *)
(* knows what the table says.                                              *)
(***************************************************************************)
EXTENDS DeviceRegistry, FiniteSetTheorems, FunctionTheorems, TLAPS

InTransaction == {"search", "clear", "insert", "rank", "commit"}

\* The types of the state.
TypeInv ==
  /\ devices \in [Kind -> [Registrant -> Device]]
  /\ owner \in [Kind -> [Token -> Registrant \cup {Nobody}]]
  /\ rows \in [Registrant -> Row]
  /\ requests \subseteq Request /\ IsFiniteSet(requests)
  /\ calls \in Nat
  /\ left \subseteq Registrant

\* What a call has at each of its stages.
Proper(q) ==
  /\ q.tokens[q.kind] \in Token
  /\ q.at = "stored" => q.kind = "message" /\ q.tokens["voip"] \in Token
  /\ q.held # {} => q.at \in {"insert", "rank", "commit"}
  /\ q.who \in q.held <=> q.at \in {"rank", "commit"}
  /\ q.at = "clear" => q.who \notin q.found
  /\ q.at = "commit" => q.found \subseteq OfUser(q.who)
  /\ q.now # 0 <=> q.at \in InTransaction

\* Two calls never hold the same row.
RequestsInv ==
  /\ \A q \in requests : Proper(q) /\ q.n < calls
  /\ \A p \in requests, q \in requests : p # q => p.n # q.n /\ p.held \cap q.held = {}

---------------------------------------------------------------------------
(* Times. *)

\* A set of naturals that is not empty has a least element.
LEMMA Least ==
  ASSUME NEW S \in SUBSET Nat, S # {}
  PROVE  \E x \in S : \A y \in S : x <= y
<1>1. PICK x \in S : \A y \in S : ~(<<y, x>> \in OpToRel(<, Nat))
  BY NatLessThanWellFounded, WFMin
<1>2. \A y \in S : ~(y < x)
  BY <1>1 DEF OpToRel
<1> QED BY <1>2

\* A finite one has a greatest, by the least size of a set without.
LEMMA Greatest ==
  ASSUME NEW S \in SUBSET Nat, S # {}, IsFiniteSet(S)
  PROVE  \E x \in S : \A y \in S : x >= y
<1> DEFINE Topless(A) == A # {} /\ IsFiniteSet(A) /\ \A x \in A : \E y \in A : ~(x >= y)
           Sizes == {n \in Nat : \E A \in SUBSET Nat : Topless(A) /\ Cardinality(A) = n}
<1> SUFFICES ASSUME Topless(S) PROVE FALSE
  OBVIOUS
<1>1. Cardinality(S) \in Sizes
  BY FS_CardinalityType
<1>2. PICK n \in Sizes : \A m \in Sizes : n <= m
  BY <1>1, Least
<1>3. PICK A \in SUBSET Nat : Topless(A) /\ Cardinality(A) = n
  BY <1>2
<1>4. PICK a \in A : TRUE
  BY <1>3
<1> DEFINE B == A \ {a}
<1>5. IsFiniteSet(B) /\ Cardinality(B) = n - 1 /\ n - 1 \in Nat
  <2>1. IsFiniteSet(A) /\ a \in A /\ Cardinality(A) = n
    BY <1>3, <1>4
  <2> HIDE DEF Topless, Sizes
  <2>2. IsFiniteSet(B) /\ Cardinality(B) = Cardinality(A) - 1
    BY <2>1, FS_RemoveElement
  <2>3. Cardinality(B) \in Nat
    BY <2>2, FS_CardinalityType
  <2> QED BY <2>1, <2>2, <2>3
<1>6. ~Topless(B)
  <2>1. ~(n - 1 \in Sizes)
    BY <1>2, <1>5
  <2> QED BY <1>5, <2>1
<1>7. CASE B = {}
  <2>1. A = {a}
    BY <1>4, <1>7
  <2> QED BY <1>3, <1>4, <2>1
<1>8. CASE B # {}
  <2>1. PICK b \in B : \A y \in B : b >= y
    BY <1>5, <1>6, <1>8
  <2>2. \A y \in A : y = a \/ b >= y
    BY <2>1
  <2>3. a \in Nat /\ b \in Nat /\ b \in A
    BY <1>4, <2>1
  <2>4. CASE a >= b
    <3>1. \A y \in A : a >= y
      BY <2>2, <2>3, <2>4
    <3> QED BY <1>3, <1>4, <3>1
  <2>5. CASE b >= a
    <3>1. \A y \in A : b >= y
      BY <2>2, <2>5
    <3> QED BY <1>3, <2>3, <3>1
  <2> QED BY <2>3, <2>4, <2>5
<1> QED BY <1>7, <1>8

\* The greatest element is the one Max chooses.
LEMMA MaxIsGreatest ==
  ASSUME NEW S \in SUBSET Nat, S # {}, IsFiniteSet(S)
  PROVE  Max(S) \in S /\ \A y \in S : Max(S) >= y
BY Greatest DEF Max

\* One more than the greatest of finitely many times, or than 0, is later than
\* all of them.
LEMMA Later0 ==
  ASSUME NEW S \in SUBSET Nat, IsFiniteSet(S)
  PROVE  /\ 1 + Max({0} \cup S) \in Nat \ {0}
         /\ \A t \in S : t < 1 + Max({0} \cup S)
<1> DEFINE Z == {0} \cup S
<1>1. Z \in SUBSET Nat /\ Z # {} /\ IsFiniteSet(Z) /\ S \subseteq Z
  BY FS_AddElement
<1> HIDE DEF Z
<1>2. Max(Z) \in Nat /\ \A t \in Z : Max(Z) >= t
  BY <1>1, MaxIsGreatest
<1>3. 1 + Max(Z) \in Nat \ {0} /\ \A t \in S : t < 1 + Max(Z)
  BY <1>1, <1>2
<1> QED BY <1>3 DEF Z

\* The image of a finite set is finite.
LEMMA ImageFinite ==
  ASSUME NEW S, IsFiniteSet(S), NEW f
  PROVE  IsFiniteSet({f[x] : x \in S})
<1> DEFINE g == [x \in S |-> f[x]]
<1>1. g \in Surjection(S, {f[x] : x \in S})
  BY Fun_IsSurj
<1> QED BY <1>1, FS_Surjection

\* The devices of a user are finitely many.
LEMMA OfUserFinite ==
  ASSUME NEW r \in Registrant
  PROVE  OfUser(r) \subseteq Registrant /\ IsFiniteSet(OfUser(r)) /\ r \in OfUser(r)
BY MapsAssumption, FS_Subset DEF OfUser

\* A later time in memory comes after every time its user was seen.
LEMMA LaterIsLater ==
  ASSUME NEW map, NEW r \in Registrant, \A x \in Registrant : map[x].seen \in Nat
  PROVE  Later(map, r) \in Nat /\ \A x \in OfUser(r) : map[x].seen < Later(map, r)
<1> DEFINE f == [x \in OfUser(r) |-> map[x].seen]
           S == {f[x] : x \in OfUser(r)}
<1>1. S = {map[x].seen : x \in OfUser(r)} /\ S \in SUBSET Nat
  BY OfUserFinite
<1>2. IsFiniteSet(S)
  BY OfUserFinite, ImageFinite
<1> HIDE DEF S
<1>3. Later(map, r) = 1 + Max({0} \cup S)
  BY <1>1 DEF Later
<1> QED BY <1>1, <1>2, <1>3, Later0

\* The time of a transaction comes after those of its user's rows and of the
\* user's other transactions.
LEMMA NowIsLater ==
  ASSUME TypeInv, NEW r \in Registrant
  PROVE  /\ Now(r) \in Nat \ {0}
         /\ \A x \in OfUser(r) : rows[x].seen < Now(r)
         /\ \A p \in requests : p.who[1] = r[1] => p.now < Now(r)
<1> DEFINE f == [x \in OfUser(r) |-> rows[x].seen]
           P == {p \in requests : p.who[1] = r[1]}
           g == [p \in P |-> p.now]
           A == {f[x] : x \in OfUser(r)}
           B == {g[p] : p \in P}
<1>1. A = {rows[x].seen : x \in OfUser(r)} /\ A \in SUBSET Nat
  BY OfUserFinite DEF TypeInv, Row
<1>2. B = {p.now : p \in P} /\ B \in SUBSET Nat
  BY DEF TypeInv, Request
<1>3. IsFiniteSet(A) /\ IsFiniteSet(B)
  <2>1. IsFiniteSet(P)
    BY FS_Subset DEF TypeInv
  <2> QED BY <2>1, OfUserFinite, ImageFinite
<1> HIDE DEF A, B
<1> DEFINE S == A \cup B
<1>4. IsFiniteSet(S) /\ S \in SUBSET Nat
  BY <1>1, <1>2, <1>3, FS_Union
<1>5. Now(r) = 1 + Max({0} \cup S)
  BY <1>1, <1>2 DEF Now
<1> HIDE DEF S
<1>6. Now(r) \in Nat \ {0} /\ \A t \in S : t < Now(r)
  BY <1>4, <1>5, Later0
<1> QED BY <1>1, <1>2, <1>6 DEF S

---------------------------------------------------------------------------
(* The steps of a call. *)

\* The call q goes on as new, the same call.
Turns(q, new) ==
  /\ requests' = (requests \ {q}) \cup {new}
  /\ new \in Request /\ Proper(new)
  /\ new.n = q.n /\ new.who = q.who /\ new.tokens = q.tokens

\* Memory and what the client sees do not change.
Quiet == UNCHANGED <<devices, owner, calls, restarts, orphaned, mixed, calm, left, ringing>>

\* begin gives the transaction its time.
LEMMA BeginStep ==
  ASSUME TypeInv, RequestsInv, NEW q \in requests, Begin(q)
  PROVE  /\ q.at = "begin" /\ Quiet /\ UNCHANGED <<rows, ranked, crowded>>
         /\ \E new : Turns(q, new) /\ new.at = "search" /\ new.kind = q.kind
                     /\ new.now = Now(q.who) /\ new.held = {} /\ q.held = {}
<1> DEFINE new == [q EXCEPT !.at = "search", !.now = Now(q.who)]
<1>1. q \in Request /\ Proper(q) /\ q.who \in Registrant
  BY DEF TypeInv, RequestsInv, Request
<1>2. Now(q.who) \in Nat \ {0}
  BY <1>1, NowIsLater
<1>3. q.at = "begin" /\ q.held = {}
  BY <1>1 DEF Begin, Proper
<1>4. new \in Request /\ new.at = "search" /\ new.kind = q.kind /\ new.now = Now(q.who)
      /\ new.held = q.held /\ new.n = q.n /\ new.who = q.who /\ new.tokens = q.tokens
  BY <1>1, <1>2 DEF Request
<1>5. Proper(new)
  <2> HIDE DEF new
  <2> QED BY <1>1, <1>2, <1>3, <1>4 DEF Proper, InTransaction
<1>6. requests' = (requests \ {q}) \cup {new}
  BY DEF Begin, Goes
<1> QED BY <1>3, <1>4, <1>5, <1>6 DEF Begin, Turns, Quiet, observed

\* The first update finds its rows.
LEMMA SearchStep ==
  ASSUME TypeInv, RequestsInv, NEW q \in requests, Search(q)
  PROVE  /\ q.at = "search" /\ Quiet /\ UNCHANGED <<rows, ranked, crowded>>
         /\ \E new : Turns(q, new) /\ new.at = "clear" /\ new.kind = q.kind
                     /\ new.now = q.now /\ new.held = {} /\ q.held = {}
                     /\ new.found = {x \in Registrant \ {q.who} : Matches(q, rows[x])}
<1> DEFINE found == {x \in Registrant \ {q.who} : Matches(q, rows[x])}
           new == [q EXCEPT !.at = "clear", !.found = found]
<1>1. q \in Request /\ Proper(q) /\ q.at = "search" /\ q.who \notin found
      /\ found \in SUBSET Registrant
  BY DEF TypeInv, RequestsInv, Search
<1> HIDE DEF found
<1>2. new \in Request /\ new.at = "clear" /\ new.kind = q.kind /\ new.now = q.now /\ new.found = found
      /\ new.held = q.held /\ new.n = q.n /\ new.who = q.who /\ new.tokens = q.tokens
  BY <1>1 DEF Request
<1>3. q.held = {}
  BY <1>1 DEF Proper
<1>4. Proper(new)
  <2> HIDE DEF new
  <2> QED BY <1>1, <1>2, <1>3 DEF Proper, InTransaction
<1>5. requests' = (requests \ {q}) \cup {new}
  BY DEF Search, Goes, found
<1> QED BY <1>1, <1>2, <1>3, <1>4, <1>5 DEF Search, Turns, Quiet, observed, found

\* It takes those that still match and that nobody else has written.
LEMMA ClearStep ==
  ASSUME TypeInv, RequestsInv, NEW q \in requests, Clear(q)
  PROVE  /\ q.at = "clear" /\ Quiet /\ UNCHANGED <<rows, ranked, crowded>>
         /\ \E new : Turns(q, new) /\ new.at = "insert" /\ new.kind = q.kind
                     /\ new.now = q.now /\ q.held = {}
                     /\ new.held = {x \in q.found : Matches(q, rows[x])}
                     /\ q.who \notin new.held /\ \A p \in requests \ {q} : p.held \cap new.held = {}
<1> DEFINE held == {x \in q.found : Matches(q, rows[x])}
           new == [q EXCEPT !.at = "insert", !.found = {}, !.held = held]
<1>1. q \in Request /\ Proper(q) /\ q.at = "clear"
  BY DEF TypeInv, RequestsInv, Clear
<1>2. held \in SUBSET Registrant /\ q.who \notin held /\ q.held = {}
  BY <1>1 DEF Proper, Request
<1>3. \A p \in requests \ {q} : p.held \cap held = {}
  BY DEF Clear, Free
<1> HIDE DEF held
<1>4. new \in Request /\ new.at = "insert" /\ new.kind = q.kind /\ new.now = q.now /\ new.held = held
      /\ new.n = q.n /\ new.who = q.who /\ new.tokens = q.tokens
  BY <1>1, <1>2 DEF Request
<1>5. Proper(new)
  <2> HIDE DEF new
  <2> QED BY <1>1, <1>2, <1>4 DEF Proper, InTransaction
<1>6. requests' = (requests \ {q}) \cup {new}
  BY DEF Clear, Goes, held
<1> QED BY <1>1, <1>2, <1>3, <1>4, <1>5, <1>6 DEF Clear, Turns, Quiet, observed, held

\* The insert takes the row of its device.
LEMMA InsertStep ==
  ASSUME TypeInv, RequestsInv, NEW q \in requests, Insert(q)
  PROVE  /\ q.at = "insert" /\ Quiet /\ UNCHANGED <<rows, ranked, crowded>>
         /\ q.who \notin q.held /\ ~Delayed(q) /\ ~Refused(q)
         /\ \E new : Turns(q, new) /\ new.at = "rank" /\ new.kind = q.kind
                     /\ new.now = q.now /\ new.held = q.held \cup {q.who}
                     /\ \A p \in requests \ {q} : p.held \cap new.held = {}
<1> DEFINE new == [q EXCEPT !.at = "rank", !.held = @ \cup {q.who}]
<1>1. q \in Request /\ Proper(q) /\ q.at = "insert" /\ ~Delayed(q) /\ ~Refused(q)
  BY DEF TypeInv, RequestsInv, Insert
<1>2. new \in Request /\ new.at = "rank" /\ new.kind = q.kind /\ new.now = q.now
      /\ new.held = q.held \cup {q.who}
      /\ new.n = q.n /\ new.who = q.who /\ new.tokens = q.tokens
  BY <1>1 DEF Request
<1>3. requests' = (requests \ {q}) \cup {new}
  BY DEF Insert, Goes
<1> HIDE DEF new
<1>4. Proper(new) /\ q.who \notin q.held
  BY <1>1, <1>2 DEF Proper, InTransaction
<1>5. \A p \in requests \ {q} : p.held \cap new.held = {}
  BY <1>1, <1>2 DEF Delayed, Free, RequestsInv
<1> QED BY <1>1, <1>2, <1>3, <1>4, <1>5 DEF Insert, Turns, Quiet, observed

\* The rows that the last update finds.
Ranked(q) ==
  LET enabled == {x \in OfUser(q.who) : View(q)[x].enabled}
  IN  {x \in enabled :
         Cardinality({y \in enabled : View(q)[y].seen > View(q)[x].seen}) >= MaxDevices}

\* The last update finds the rows that it will disable.
LEMMA RankStep ==
  ASSUME TypeInv, RequestsInv, NEW q \in requests, Rank(q)
  PROVE  /\ q.at = "rank" /\ Quiet /\ UNCHANGED <<rows, crowded>>
         /\ ranked' = ranked \cup {q.who}
         /\ \E new : Turns(q, new) /\ new.at = "commit" /\ new.kind = q.kind
                     /\ new.now = q.now /\ new.held = q.held /\ new.found = Ranked(q)
<1> DEFINE new == [q EXCEPT !.at = "commit", !.found = Ranked(q)]
<1>1. q \in Request /\ Proper(q) /\ q.at = "rank"
  BY DEF TypeInv, RequestsInv, Rank
<1>2. Ranked(q) \in SUBSET OfUser(q.who) /\ Ranked(q) \in SUBSET Registrant
  BY DEF Ranked, OfUser
<1>3. new \in Request /\ new.at = "commit" /\ new.kind = q.kind /\ new.now = q.now
      /\ new.held = q.held /\ new.found = Ranked(q)
      /\ new.n = q.n /\ new.who = q.who /\ new.tokens = q.tokens
  BY <1>1, <1>2 DEF Request
<1>4. requests' = (requests \ {q}) \cup {new}
  BY DEF Rank, Goes, Ranked
<1> HIDE DEF new
<1>5. Proper(new)
  BY <1>1, <1>2, <1>3 DEF Proper, InTransaction
<1> QED BY <1>1, <1>3, <1>4, <1>5 DEF Rank, Turns, Quiet

\* A commit ends the call, or the handler goes on with the VoIP token.
LEMMA CommitStep ==
  ASSUME TypeInv, RequestsInv, NEW q \in requests, Commit(q)
  PROVE  /\ q.at = "commit" /\ Quiet /\ q.who \in q.held
         /\ \A x \in q.found : Free(q, x)
         /\ rows' = [x \in Registrant |->
              IF x \in q.found THEN [View(q)[x] EXCEPT !.enabled = FALSE] ELSE View(q)[x]]
         /\ crowded' = IF q.who \in ranked THEN crowded \ {q.who[1]} ELSE crowded \cup {q.who[1]}
         /\ ranked' = ranked \ OfUser(q.who)
         /\ \/ requests' = requests \ {q}
            \/ /\ q.kind = "message" /\ q.tokens["voip"] # NoToken
               /\ \E new : Turns(q, new) /\ new.at = "stored" /\ new.kind = "message"
                           /\ new.now = 0 /\ new.held = {}
<1> DEFINE new == [q EXCEPT !.at = "stored", !.now = 0, !.found = {}, !.held = {}]
<1>1. q \in Request /\ Proper(q) /\ q.at = "commit"
  BY DEF TypeInv, RequestsInv, Commit
<1>2. q.who \in q.held
  BY <1>1 DEF Proper
<1>3. CASE q.kind = "message" /\ q.tokens["voip"] # NoToken
  <2>1. new \in Request /\ new.at = "stored" /\ new.kind = q.kind /\ new.now = 0
        /\ new.held = {} /\ new.n = q.n /\ new.who = q.who /\ new.tokens = q.tokens
    BY <1>1 DEF Request
  <2>2. requests' = (requests \ {q}) \cup {new}
    BY <1>3 DEF Commit, Goes
  <2>3. q.tokens["voip"] \in Token
    BY <1>1, <1>3 DEF Request, Kind
  <2> HIDE DEF new
  <2>4. Proper(new)
    BY <1>1, <1>3, <2>1, <2>3 DEF Proper, InTransaction
  <2> QED BY <1>1, <1>2, <1>3, <2>1, <2>2, <2>4 DEF Commit, Turns, Quiet
<1>4. CASE ~(q.kind = "message" /\ q.tokens["voip"] # NoToken)
  BY <1>1, <1>2, <1>4 DEF Commit, Answers, Quiet
<1> QED BY <1>3, <1>4

\* The second half registers the VoIP token.
LEMMA ContinueStep ==
  ASSUME TypeInv, RequestsInv, NEW q \in requests, Continue(q)
  PROVE  /\ q.at = "stored" /\ q.kind = "message" /\ q.tokens["voip"] \in Token
         /\ RegisterIn("voip", q.who, q.tokens["voip"])
         /\ orphaned' = orphaned \cup Orphans("voip")
         /\ UNCHANGED <<rows, calls, restarts, ranked, crowded, mixed, calm, left, ringing>>
         /\ \E new : Turns(q, new) /\ new.at = "begin" /\ new.kind = "voip"
                     /\ new.now = 0 /\ new.held = {} /\ q.held = {}
<1> DEFINE new == [q EXCEPT !.at = "begin", !.kind = "voip"]
<1>1. q \in Request /\ Proper(q) /\ q.at = "stored"
  BY DEF TypeInv, RequestsInv, Continue
<1>2. q.kind = "message" /\ q.tokens["voip"] \in Token /\ q.held = {} /\ q.now = 0
  BY <1>1 DEF Proper, InTransaction
<1>3. new \in Request /\ new.at = "begin" /\ new.kind = "voip" /\ new.now = q.now
      /\ new.held = q.held /\ new.n = q.n /\ new.who = q.who /\ new.tokens = q.tokens
  BY <1>1 DEF Request, Kind
<1>4. requests' = (requests \ {q}) \cup {new}
  BY DEF Continue, Goes
<1> HIDE DEF new
<1>5. Proper(new)
  BY <1>1, <1>2, <1>3 DEF Proper, InTransaction
<1> QED BY <1>1, <1>2, <1>3, <1>4, <1>5 DEF Continue, Turns

---------------------------------------------------------------------------
(* What a call does to memory at once. *)

KnownIn(kind, r) == {x \in OfUser(r) : devices[kind][x].known}

\* Registering t for r in one of the maps, which evicts e or Nobody.
Registered(kind, r, t, e) ==
  /\ devices' \in [Kind -> [Registrant -> Device]]
  /\ owner' \in [Kind -> [Token -> Registrant \cup {Nobody}]]
  /\ \A k \in Kind \ {kind} : devices'[k] = devices[k] /\ owner'[k] = owner[k]
  /\ devices'[kind][r].known /\ devices'[kind][r].enabled /\ devices'[kind][r].token = t
  /\ \A x \in OfUser(r) : devices[kind][x].seen < devices'[kind][r].seen
  /\ \A x \in Registrant \ {r, e} :
       /\ devices'[kind][x].known = devices[kind][x].known
       /\ devices'[kind][x].token = devices[kind][x].token
       /\ devices'[kind][x].seen = devices[kind][x].seen
       /\ devices'[kind][x].enabled =
            (devices[kind][x].enabled
               /\ ~(x = owner[kind][t] /\ devices[kind][x].known /\ devices[kind][x].token = t))
  /\ IF devices[kind][r].known \/ Cardinality(KnownIn(kind, r)) < MaxDevices THEN e = Nobody
     ELSE /\ e \in KnownIn(kind, r) \ {r} /\ devices'[kind][e] = Unknown
          /\ \A x \in KnownIn(kind, r) : devices[kind][e].seen <= devices[kind][x].seen
  /\ \A s \in Token :
       owner'[kind][s] = IF s = t THEN r
                         ELSE IF e # Nobody /\ owner[kind][s] # Nobody
                                 /\ devices[kind][e].token = s /\ owner[kind][s][2] = e[2]
                         THEN Nobody ELSE owner[kind][s]

\* Registering does this.
LEMMA RegisterDevices ==
  ASSUME TypeInv, NEW kind \in Kind, NEW r \in Registrant, NEW t \in Token, RegisterIn(kind, r, t)
  PROVE  \E e : Registered(kind, r, t, e)
<1> DEFINE map == Disown(devices[kind], owner[kind], r, t)
<1>1. /\ devices \in [Kind -> [Registrant -> Device]]
      /\ owner \in [Kind -> [Token -> Registrant \cup {Nobody}]]
  BY DEF TypeInv
<1>2. PICK e \in Evicted(map, r) :
        /\ devices' = [devices EXCEPT ![kind] =
             [x \in Registrant |->
                IF x = r THEN [known |-> TRUE, token |-> t, enabled |-> TRUE,
                               seen |-> Later(map, r)]
                ELSE IF x = e THEN Unknown ELSE map[x]]]
        /\ owner' = [owner EXCEPT ![kind] = [Freed(map, owner[kind], e) EXCEPT ![t] = r]]
  BY DEF RegisterIn
<1>3. ASSUME NEW x \in Registrant
      PROVE  /\ map[x] \in Device
             /\ map[x].known = devices[kind][x].known
             /\ map[x].token = devices[kind][x].token
             /\ map[x].seen = devices[kind][x].seen
             /\ x # r => map[x].enabled =
                  (devices[kind][x].enabled
                     /\ ~(x = owner[kind][t] /\ devices[kind][x].known /\ devices[kind][x].token = t))
  <2>1. devices[kind][x] \in Device
    BY <1>1
  <2>2. CASE x = owner[kind][t] /\ x # r /\ devices[kind][x].known /\ devices[kind][x].token = t
    <3>1. map[x] = [devices[kind][x] EXCEPT !.enabled = FALSE]
      BY <2>2 DEF Disown
    <3> QED BY <2>1, <2>2, <3>1 DEF Device
  <2>3. CASE ~(x = owner[kind][t] /\ x # r /\ devices[kind][x].known /\ devices[kind][x].token = t)
    <3>1. map[x] = devices[kind][x]
      BY <2>3 DEF Disown
    <3> HIDE DEF map
    <3> QED BY <2>1, <2>3, <3>1 DEF Device
  <2> QED BY <2>2, <2>3
<1> HIDE DEF map
<1>4. Later(map, r) \in Nat /\ \A x \in OfUser(r) : map[x].seen < Later(map, r)
  BY <1>3, LaterIsLater DEF Device
<1>5. \A x \in Registrant :
        devices'[kind][x] = IF x = r THEN [known |-> TRUE, token |-> t, enabled |-> TRUE,
                                           seen |-> Later(map, r)]
                            ELSE IF x = e THEN Unknown ELSE map[x]
  BY <1>1, <1>2
<1>6. \A k \in Kind \ {kind} : devices'[k] = devices[k] /\ owner'[k] = owner[k]
  BY <1>1, <1>2
<1>7. devices' \in [Kind -> [Registrant -> Device]]
  <2>1. \A x \in Registrant :
          (IF x = r THEN [known |-> TRUE, token |-> t, enabled |-> TRUE, seen |-> Later(map, r)]
           ELSE IF x = e THEN Unknown ELSE map[x]) \in Device
    BY <1>3, <1>4 DEF Unknown, Device
  <2> HIDE DEF Device
  <2> QED BY <1>1, <1>2, <2>1
<1>8. Freed(map, owner[kind], e) \in [Token -> Registrant \cup {Nobody}]
  BY <1>1 DEF Freed
<1>9. owner' \in [Kind -> [Token -> Registrant \cup {Nobody}]]
  BY <1>1, <1>2, <1>8
<1>10. IF devices[kind][r].known \/ Cardinality(KnownIn(kind, r)) < MaxDevices THEN e = Nobody
       ELSE /\ e \in KnownIn(kind, r) \ {r}
            /\ \A x \in KnownIn(kind, r) : devices[kind][e].seen <= devices[kind][x].seen
  <2>1. {x \in OfUser(r) : map[x].known} = KnownIn(kind, r)
    BY <1>3, OfUserFinite DEF KnownIn
  <2>2. map[r].known = devices[kind][r].known
    BY <1>3
  <2>3. IF devices[kind][r].known \/ Cardinality(KnownIn(kind, r)) < MaxDevices THEN e = Nobody
        ELSE e \in {x \in KnownIn(kind, r) : \A y \in KnownIn(kind, r) : map[x].seen <= map[y].seen}
    BY <1>2, <2>1, <2>2 DEF Evicted
  <2> QED BY <1>3, <2>3, OfUserFinite DEF KnownIn
<1>11. e = Nobody \/ e \in Registrant
  BY <1>10, OfUserFinite DEF KnownIn
<1>12. \A s \in Token :
         owner'[kind][s] = IF s = t THEN r
                           ELSE IF e # Nobody /\ owner[kind][s] # Nobody
                                   /\ devices[kind][e].token = s /\ owner[kind][s][2] = e[2]
                           THEN Nobody ELSE owner[kind][s]
  <2>1. owner'[kind] = [Freed(map, owner[kind], e) EXCEPT ![t] = r]
    BY <1>1, <1>2
  <2>2. e # Nobody => map[e].token = devices[kind][e].token
    BY <1>3, <1>11
  <2> QED BY <1>8, <2>1, <2>2 DEF Freed
<1>13. ASSUME NEW x \in Registrant \ {r, e}
       PROVE  /\ devices'[kind][x].known = devices[kind][x].known
              /\ devices'[kind][x].token = devices[kind][x].token
              /\ devices'[kind][x].seen = devices[kind][x].seen
              /\ devices'[kind][x].enabled =
                   (devices[kind][x].enabled
                      /\ ~(x = owner[kind][t] /\ devices[kind][x].known /\ devices[kind][x].token = t))
  <2>1. devices'[kind][x] = map[x]
    BY <1>5
  <2> QED BY <1>3, <2>1
<1>14. devices'[kind][r].known /\ devices'[kind][r].enabled /\ devices'[kind][r].token = t
       /\ devices'[kind][r].seen = Later(map, r)
  BY <1>5
<1>15. \A x \in OfUser(r) : devices[kind][x].seen < devices'[kind][r].seen
  BY <1>3, <1>4, <1>14, OfUserFinite
<1>16. e \in KnownIn(kind, r) \ {r} => devices'[kind][e] = Unknown
  BY <1>5, OfUserFinite DEF KnownIn
<1>17. Registered(kind, r, t, e)
  BY <1>6, <1>7, <1>9, <1>10, <1>12, <1>13, <1>14, <1>15, <1>16 DEF Registered
<1> QED BY <1>17

\* Unregistering t for r in one of the maps.
Unregistered(kind, r, t) ==
  /\ devices' \in [Kind -> [Registrant -> Device]]
  /\ owner' \in [Kind -> [Token -> Registrant \cup {Nobody}]]
  /\ devices[kind][r].known /\ devices[kind][r].token = t
  /\ \A k \in Kind, x \in Registrant :
       /\ devices'[k][x].known = devices[k][x].known
       /\ devices'[k][x].token = devices[k][x].token
       /\ devices'[k][x].seen = devices[k][x].seen
       /\ devices'[k][x].enabled = (devices[k][x].enabled /\ ~(k = kind /\ x = r))
  /\ \A k \in Kind, s \in Token :
       owner'[k][s] = IF k = kind /\ s = t /\ owner[k][s] = r THEN Nobody ELSE owner[k][s]

\* Unregistering does this.
LEMMA UnregisterDevices ==
  ASSUME TypeInv, NEW kind \in Kind, NEW r \in Registrant, NEW t \in Token,
         UnregisterIn(kind, r, t)
  PROVE  Unregistered(kind, r, t)
<1> DEFINE d == [devices[kind][r] EXCEPT !.enabled = FALSE]
<1>1. /\ devices \in [Kind -> [Registrant -> Device]]
      /\ owner \in [Kind -> [Token -> Registrant \cup {Nobody}]]
  BY DEF TypeInv
<1>2. devices[kind][r] \in Device
  BY <1>1
<1>3. d \in Device /\ d.known = devices[kind][r].known /\ d.token = devices[kind][r].token
      /\ d.seen = devices[kind][r].seen /\ ~d.enabled
  BY <1>2 DEF Device
<1>4. devices' = [devices EXCEPT ![kind] = [devices[kind] EXCEPT ![r] = d]]
  BY DEF UnregisterIn
<1> HIDE DEF d
<1>5. devices' \in [Kind -> [Registrant -> Device]]
  <2> HIDE DEF Device
  <2>1. [devices[kind] EXCEPT ![r] = d] \in [Registrant -> Device]
    BY <1>1, <1>3
  <2> QED BY <1>1, <1>4, <2>1
<1>6. \A k \in Kind, x \in Registrant :
        devices'[k][x] = IF k = kind /\ x = r THEN d ELSE devices[k][x]
  BY <1>1, <1>4
<1>7. owner' \in [Kind -> [Token -> Registrant \cup {Nobody}]]
  BY <1>1 DEF UnregisterIn
<1>8. \A k \in Kind, s \in Token :
        owner'[k][s] = IF k = kind /\ s = t /\ owner[k][s] = r THEN Nobody ELSE owner[k][s]
  BY <1>1 DEF UnregisterIn
<1>9. \A k \in Kind, x \in Registrant :
        /\ devices'[k][x].known = devices[k][x].known
        /\ devices'[k][x].token = devices[k][x].token
        /\ devices'[k][x].seen = devices[k][x].seen
        /\ devices'[k][x].enabled = (devices[k][x].enabled /\ ~(k = kind /\ x = r))
  <2> SUFFICES ASSUME NEW k \in Kind, NEW x \in Registrant
               PROVE  /\ devices'[k][x].known = devices[k][x].known
                      /\ devices'[k][x].token = devices[k][x].token
                      /\ devices'[k][x].seen = devices[k][x].seen
                      /\ devices'[k][x].enabled = (devices[k][x].enabled /\ ~(k = kind /\ x = r))
    OBVIOUS
  <2>1. CASE k = kind /\ x = r
    <3>1. devices'[k][x] = d
      BY <1>6, <2>1
    <3>2. d.enabled = FALSE
      BY <1>3 DEF Device
    <3>3. devices'[k][x].enabled = (devices[k][x].enabled /\ ~(k = kind /\ x = r))
      BY <2>1, <3>1, <3>2, Zenon
    <3> QED BY <1>3, <2>1, <3>1, <3>3
  <2>2. CASE ~(k = kind /\ x = r)
    <3>1. devices'[k][x] = devices[k][x] /\ devices[k][x] \in Device
      BY <1>1, <1>6, <2>2
    <3> QED BY <2>2, <3>1 DEF Device
  <2> QED BY <2>1, <2>2
<1> QED BY <1>5, <1>7, <1>8, <1>9 DEF Unregistered, UnregisterIn

---------------------------------------------------------------------------
(* The rows of a transaction. *)

\* The row that the insert writes.
LEMMA InsertedIs ==
  ASSUME TypeInv, NEW q \in Request, q.tokens[q.kind] \in Token
  PROVE  /\ Inserted(q) \in Row
         /\ Inserted(q).enabled /\ Inserted(q).seen = q.now
         /\ q.kind = "message" => /\ Inserted(q).message = q.tokens["message"]
                                  /\ Inserted(q).voip = rows[q.who].voip
         /\ q.kind = "voip" => /\ Inserted(q).voip = q.tokens["voip"]
                               /\ Inserted(q).message = rows[q.who].message
<1>1. rows[q.who] \in Row /\ q.now \in Nat /\ q.kind \in {"message", "voip"}
  BY DEF TypeInv, Request, Kind
<1>2. CASE q.kind = "message"
  BY <1>1, <1>2 DEF Inserted, Row
<1>3. CASE q.kind = "voip"
  BY <1>1, <1>3 DEF Inserted, Row
<1> QED BY <1>1, <1>2, <1>3

\* A row whose token is taken away.
LEMMA StruckIs ==
  ASSUME NEW kind \in Kind, NEW row \in Row
  PROVE  /\ Struck(kind, row) \in Row
         /\ Struck(kind, row).message = row.message /\ Struck(kind, row).seen = row.seen
         /\ kind = "message" => ~Struck(kind, row).enabled /\ Struck(kind, row).voip = row.voip
         /\ kind = "voip" => /\ Struck(kind, row).enabled = row.enabled
                             /\ Struck(kind, row).voip = NoToken
BY DEF Struck, Row, Kind

\* The table as a transaction sees it.
LEMMA ViewIs ==
  ASSUME TypeInv, RequestsInv, NEW q \in requests
  PROVE  /\ View(q) \in [Registrant -> Row]
         /\ q.who \in q.held => View(q)[q.who] = Inserted(q)
         /\ \A x \in Registrant :
              /\ x \notin q.held => View(q)[x] = rows[x]
              /\ x \in q.held \ {q.who} => View(q)[x] = Struck(q.kind, rows[x])
<1>1. q \in Request /\ q.tokens[q.kind] \in Token /\ q.who \in Registrant /\ q.kind \in Kind
  BY DEF TypeInv, RequestsInv, Proper, Request
<1>2. Inserted(q) \in Row /\ \A x \in Registrant : rows[x] \in Row /\ Struck(q.kind, rows[x]) \in Row
  BY <1>1, InsertedIs, StruckIs DEF TypeInv
<1> QED BY <1>1, <1>2 DEF View

\* A row that a commit leaves, but for enabled.
LEMMA DisabledIs ==
  ASSUME NEW row \in Row
  PROVE  /\ [row EXCEPT !.enabled = FALSE] \in Row
         /\ ~[row EXCEPT !.enabled = FALSE].enabled
         /\ [row EXCEPT !.enabled = FALSE].message = row.message
         /\ [row EXCEPT !.enabled = FALSE].voip = row.voip
         /\ [row EXCEPT !.enabled = FALSE].seen = row.seen
BY DEF Row

\* The table after a commit is what the transaction saw, with what it found
\* disabled.
LEMMA CommitRows ==
  ASSUME TypeInv, RequestsInv, NEW q \in requests, Commit(q)
  PROVE  /\ rows' \in [Registrant -> Row]
         /\ \A x \in Registrant :
              /\ rows'[x].message = View(q)[x].message
              /\ rows'[x].voip = View(q)[x].voip
              /\ rows'[x].seen = View(q)[x].seen
              /\ x \notin q.found => rows'[x] = View(q)[x]
              /\ x \in q.found => ~rows'[x].enabled
<1>1. rows' = [x \in Registrant |->
        IF x \in q.found THEN [View(q)[x] EXCEPT !.enabled = FALSE] ELSE View(q)[x]]
  BY CommitStep
<1>2. \A x \in Registrant : View(q)[x] \in Row
  BY ViewIs
<1>3. \A x \in Registrant : LET row == [View(q)[x] EXCEPT !.enabled = FALSE] IN
        row \in Row /\ ~row.enabled /\ row.message = View(q)[x].message
        /\ row.voip = View(q)[x].voip /\ row.seen = View(q)[x].seen
  BY <1>2, DisabledIs
<1> QED BY <1>1, <1>2, <1>3

\* The table after an unregister's statement.
LEMMA StoreDisabledRows ==
  ASSUME TypeInv, RequestsInv, NEW q \in requests, StoreDisabled(q)
  PROVE  /\ rows' \in [Registrant -> Row]
         /\ \A x \in Registrant :
              IF x = q.who /\ Matches(q, rows[x])
              THEN Free(q, x) /\ rows'[x] = Struck(q.kind, rows[x])
              ELSE rows'[x] = rows[x]
<1>1. q.kind \in Kind /\ q.who \in Registrant /\ \A x \in Registrant : rows[x] \in Row
  BY DEF TypeInv, Request
<1>2. \A x \in Registrant : Struck(q.kind, rows[x]) \in Row
  BY <1>1, StruckIs
<1>3. rows' = [rows EXCEPT ![q.who] =
        IF Matches(q, rows[q.who]) THEN Struck(q.kind, rows[q.who]) ELSE rows[q.who]]
  BY DEF StoreDisabled
<1> HIDE DEF Row
<1> QED BY <1>1, <1>2, <1>3 DEF StoreDisabled, TypeInv

---------------------------------------------------------------------------
(* Types and calls. *)

\* A call that goes on holds rows that no other holds.
LEMMA TurnKeeps ==
  ASSUME TypeInv, RequestsInv, NEW q \in requests, NEW new, Turns(q, new),
         \A p \in requests \ {q} : p.held \cap new.held = {}, UNCHANGED calls
  PROVE  RequestsInv' /\ requests' \subseteq Request /\ IsFiniteSet(requests')
<1>1. IsFiniteSet(requests \ {q})
  BY FS_Subset DEF TypeInv
<1>2. requests' = (requests \ {q}) \cup {new} /\ new \in Request /\ Proper(new) /\ new.n = q.n
  BY DEF Turns
<1>3. IsFiniteSet(requests')
  BY <1>1, <1>2, FS_AddElement
<1>4. requests' \subseteq Request
  BY <1>2 DEF TypeInv
<1>5. \A p \in requests' : Proper(p) /\ p.n < calls'
  BY <1>2 DEF RequestsInv
<1>6. \A p \in requests', o \in requests' : p # o => p.n # o.n /\ p.held \cap o.held = {}
  BY <1>2 DEF RequestsInv
<1> QED BY <1>3, <1>4, <1>5, <1>6 DEF RequestsInv, Proper

\* A call ends.
LEMMA AnswerKeeps ==
  ASSUME TypeInv, RequestsInv, requests' \subseteq requests, UNCHANGED calls
  PROVE  RequestsInv' /\ requests' \subseteq Request /\ IsFiniteSet(requests')
<1>1. IsFiniteSet(requests')
  BY FS_Subset DEF TypeInv
<1> QED BY <1>1 DEF TypeInv, RequestsInv, Proper

\* A call arrives.
LEMMA ArriveStep ==
  ASSUME TypeInv, RequestsInv, NEW at \in {"begin", "disable"}, NEW kind \in Kind,
         NEW r \in Registrant, NEW tokens \in [Kind -> Token \cup {NoToken}],
         tokens[kind] \in Token, Arrives(at, kind, r, tokens)
  PROVE  /\ calls' \in Nat
         /\ RequestsInv' /\ requests' \subseteq Request /\ IsFiniteSet(requests')
         /\ \E new : /\ new \notin requests /\ requests' = requests \cup {new}
                     /\ new.at = at /\ new.kind = kind /\ new.who = r /\ new.tokens = tokens
                     /\ new.now = 0 /\ new.held = {}
<1> DEFINE new == [n |-> calls, at |-> at, kind |-> kind, who |-> r, tokens |-> tokens,
                   now |-> 0, found |-> {}, held |-> {}]
<1>1. calls \in Nat /\ calls' = calls + 1 /\ calls' \in Nat /\ requests' = requests \cup {new}
  BY DEF Arrives, TypeInv
<1>2. /\ new \in Request /\ new.n = calls /\ new.at = at /\ new.kind = kind /\ new.who = r
      /\ new.tokens = tokens /\ new.now = 0 /\ new.held = {}
  BY <1>1 DEF Request
<1> HIDE DEF new
<1>3. Proper(new)
  BY <1>2 DEF Proper, InTransaction
<1>4. \A p \in requests : p \in Request /\ p.n \in Nat /\ Proper(p) /\ p.n < calls
  BY DEF TypeInv, RequestsInv, Request
<1>5. new \notin requests
  BY <1>2, <1>4
<1>6. IsFiniteSet(requests')
  BY <1>1, FS_AddElement DEF TypeInv
<1>7. requests' \subseteq Request
  BY <1>1, <1>2, <1>4
<1>8. \A p \in requests' : Proper(p) /\ p.n < calls'
  BY <1>1, <1>2, <1>3, <1>4
<1>9. \A p \in requests', o \in requests' : p # o => p.n # o.n /\ p.held \cap o.held = {}
  BY <1>1, <1>2, <1>4 DEF RequestsInv
<1> QED BY <1>1, <1>2, <1>5, <1>6, <1>7, <1>8, <1>9 DEF RequestsInv, Proper

\* A registration changes memory at once.
LEMMA RegisterStep ==
  ASSUME TypeInv, RequestsInv, NEW g \in Registration, Register(g[1], g[2], g[3])
  PROVE  /\ g[1] \in Registrant /\ g[2] \in Token /\ g[3] \in Token \cup {NoToken}
         /\ calls' \in Nat
         /\ RequestsInv' /\ requests' \subseteq Request /\ IsFiniteSet(requests')
         /\ \E new : /\ new \notin requests /\ requests' = requests \cup {new}
                     /\ new.at = "begin" /\ new.kind = "message" /\ new.who = g[1]
                     /\ new.tokens["message"] = g[2] /\ new.now = 0 /\ new.held = {}
         /\ \E e : Registered("message", g[1], g[2], e)
         /\ orphaned' = orphaned \cup Orphans("message")
         /\ left' = left \ {g[1]}
         /\ mixed' = IF \E p \in requests : p.who = g[1] THEN mixed \cup {g[1]} ELSE mixed
         /\ calm' = (calm /\ requests = {})
         /\ UNCHANGED <<rows, restarts, ranked, crowded, ringing>>
<1>1. g[1] \in Registrant /\ g[2] \in Token /\ g[3] \in Token \cup {NoToken}
  BY RegistryAssumption
<1> DEFINE tokens == [message |-> g[2], voip |-> g[3]]
<1>2. tokens \in [Kind -> Token \cup {NoToken}] /\ tokens["message"] = g[2]
  BY <1>1 DEF Kind
<1>3. Arrives("begin", "message", g[1], tokens)
  BY DEF Register
<1> HIDE DEF tokens
<1>4. /\ calls' \in Nat
      /\ RequestsInv' /\ requests' \subseteq Request /\ IsFiniteSet(requests')
      /\ \E new : /\ new \notin requests /\ requests' = requests \cup {new}
                  /\ new.at = "begin" /\ new.kind = "message" /\ new.who = g[1] /\ new.tokens = tokens
                  /\ new.now = 0 /\ new.held = {}
  BY <1>1, <1>2, <1>3, ArriveStep DEF Kind
<1>5. \E e : Registered("message", g[1], g[2], e)
  BY <1>1, RegisterDevices DEF Register, Kind
<1> QED BY <1>1, <1>2, <1>3, <1>4, <1>5 DEF Register, Arrives

\* So does unregistering.
LEMMA UnregisterStep ==
  ASSUME TypeInv, RequestsInv, NEW kind \in Kind, NEW r \in Registrant, NEW t \in Token,
         Unregister(kind, r, t)
  PROVE  /\ calls' \in Nat
         /\ RequestsInv' /\ requests' \subseteq Request /\ IsFiniteSet(requests')
         /\ \E new : /\ new \notin requests /\ requests' = requests \cup {new}
                     /\ new.at = "disable" /\ new.kind = kind /\ new.who = r
                     /\ new.tokens[kind] = t /\ new.now = 0 /\ new.held = {}
         /\ Unregistered(kind, r, t)
         /\ mixed' = IF \E p \in requests : p.who = r THEN mixed \cup {r} ELSE mixed
         /\ calm' = (calm /\ requests = {})
         /\ UNCHANGED <<rows, restarts, orphaned, ranked, crowded, left, ringing>>
<1> DEFINE tokens == [k \in Kind |-> IF k = kind THEN t ELSE NoToken]
<1>1. tokens \in [Kind -> Token \cup {NoToken}] /\ tokens[kind] = t
  OBVIOUS
<1>2. Arrives("disable", kind, r, tokens)
  BY DEF Unregister
<1> HIDE DEF tokens
<1>3. /\ calls' \in Nat
      /\ RequestsInv' /\ requests' \subseteq Request /\ IsFiniteSet(requests')
      /\ \E new : /\ new \notin requests /\ requests' = requests \cup {new}
                  /\ new.at = "disable" /\ new.kind = kind /\ new.who = r /\ new.tokens = tokens
                  /\ new.now = 0 /\ new.held = {}
  BY <1>1, <1>2, ArriveStep
<1>4. Unregistered(kind, r, t)
  BY UnregisterDevices DEF Unregister
<1> QED BY <1>1, <1>2, <1>3, <1>4 DEF Unregister, Arrives

\* A start loads some of the stored rows.
Starts(loaded) ==
  /\ \A k \in Kind : loaded[k] \subseteq Stored(k)
  /\ devices' \in [Kind -> [Registrant -> Device]]
  /\ owner' \in [Kind -> [Token -> Registrant \cup {Nobody}]]
  /\ \A k \in Kind : \A x \in Registrant :
       IF x \in loaded[k]
       THEN /\ devices'[k][x].known /\ devices'[k][x].enabled
            /\ devices'[k][x].token = rows[x][k] /\ devices'[k][x].seen = rows[x].seen
            /\ rows[x][k] \in Token
       ELSE devices'[k][x] = Unknown
  /\ \A k \in Kind : \A x \in loaded[k] :
       owner'[k][rows[x][k]] \in loaded[k] /\ rows[owner'[k][rows[x][k]]][k] = rows[x][k]

\* The tokens of a row.
LEMMA RowToken ==
  ASSUME NEW row \in Row, NEW k \in Kind
  PROVE  row[k] \in Token \cup {NoToken} /\ row.seen \in Nat
<1>1. CASE k = "message"
  BY <1>1 DEF Row
<1>2. CASE k = "voip"
  BY <1>2 DEF Row
<1> QED BY <1>1, <1>2 DEF Kind

\* A start loads the stored rows in some order.
LEMMA RestartStep ==
  ASSUME TypeInv, Restart
  PROVE  /\ requests' = {} /\ orphaned' = {} /\ ranked' = {} /\ mixed' = {} /\ ringing' = {}
         /\ UNCHANGED <<rows, calls, crowded, left>>
         /\ \E order \in Order : LET loaded == [k \in Kind |-> Loaded(k, order)] IN
              Starts(loaded) /\ calm' = \A k \in Kind : loaded[k] = Stored(k)
<1>0. PICK l \in {[k \in Kind |-> Loaded(k, order)] : order \in Order} :
       /\ devices' = [k \in Kind |-> [x \in Registrant |->
            IF x \in l[k]
            THEN [known |-> TRUE, token |-> rows[x][k], enabled |-> TRUE, seen |-> rows[x].seen]
            ELSE Unknown]]
       /\ owner' = [k \in Kind |-> [t \in Token |->
            IF \E x \in l[k] : rows[x][k] = t
            THEN CHOOSE x \in l[k] : rows[x][k] = t
            ELSE Nobody]]
       /\ calm' = \A k \in Kind : l[k] = Stored(k)
  BY Zenon DEF Restart
<1>1. PICK order \in Order : l = [k \in Kind |-> Loaded(k, order)]
  BY <1>0
<1> DEFINE loaded == l
<1>2. \A k \in Kind : loaded[k] \subseteq Stored(k)
  BY <1>1 DEF Loaded
<1>3. \A k \in Kind : \A x \in loaded[k] :
        x \in Registrant /\ rows[x][k] \in Token /\ rows[x].seen \in Nat
  BY <1>2, RowToken DEF Stored, TypeInv
<1>5. devices' = [k \in Kind |-> [x \in Registrant |->
            IF x \in loaded[k]
            THEN [known |-> TRUE, token |-> rows[x][k], enabled |-> TRUE, seen |-> rows[x].seen]
            ELSE Unknown]]
  BY <1>0
<1>6. owner' = [k \in Kind |-> [t \in Token |->
            IF \E x \in loaded[k] : rows[x][k] = t
            THEN CHOOSE x \in loaded[k] : rows[x][k] = t
            ELSE Nobody]]
  BY <1>0
<1>4. calm' = \A k \in Kind : loaded[k] = Stored(k)
  BY <1>0
<1> HIDE DEF loaded
<1>7. \A k \in Kind, x \in Registrant :
        devices'[k][x] = IF x \in loaded[k]
            THEN [known |-> TRUE, token |-> rows[x][k], enabled |-> TRUE, seen |-> rows[x].seen]
            ELSE Unknown
  BY <1>5
<1>8. ASSUME NEW k \in Kind, NEW x \in Registrant
      PROVE  /\ devices'[k][x] \in Device
             /\ IF x \in loaded[k]
                THEN /\ devices'[k][x].known /\ devices'[k][x].enabled
                     /\ devices'[k][x].token = rows[x][k] /\ devices'[k][x].seen = rows[x].seen
                     /\ rows[x][k] \in Token
                ELSE devices'[k][x] = Unknown
  <2>1. CASE x \in loaded[k]
    <3>1. devices'[k][x] = [known |-> TRUE, token |-> rows[x][k], enabled |-> TRUE,
                            seen |-> rows[x].seen]
      BY <1>7, <2>1
    <3>2. rows[x][k] \in Token /\ rows[x].seen \in Nat
      BY <1>3, <2>1
    <3> QED BY <2>1, <3>1, <3>2 DEF Device
  <2>2. CASE x \notin loaded[k]
    <3>1. devices'[k][x] = Unknown
      BY <1>7, <2>2
    <3>2. Unknown \in Device
      BY DEF Unknown, Device
    <3> QED BY <2>2, <3>1, <3>2
  <2> QED BY <2>1, <2>2
<1>9. devices' \in [Kind -> [Registrant -> Device]]
  <2> HIDE DEF Device
  <2>1. \A k \in Kind : devices'[k] = [x \in Registrant |-> devices'[k][x]]
    BY <1>5
  <2>2. devices' = [k \in Kind |-> devices'[k]]
    BY <1>5
  <2> QED BY <1>8, <2>1, <2>2
<1>10. owner' \in [Kind -> [Token -> Registrant \cup {Nobody}]]
  <2>1. \A k \in Kind, t \in Token :
          (IF \E x \in loaded[k] : rows[x][k] = t
           THEN CHOOSE x \in loaded[k] : rows[x][k] = t
           ELSE Nobody) \in Registrant \cup {Nobody}
    BY <1>3
  <2> QED BY <1>6, <2>1
<1>11. ASSUME NEW k \in Kind, NEW x \in loaded[k]
       PROVE  owner'[k][rows[x][k]] \in loaded[k] /\ rows[owner'[k][rows[x][k]]][k] = rows[x][k]
  <2>1. rows[x][k] \in Token
    BY <1>3
  <2>2. owner'[k][rows[x][k]] = CHOOSE y \in loaded[k] : rows[y][k] = rows[x][k]
    BY <1>6, <2>1
  <2> QED BY <2>2
<1>12. \A k \in Kind : \A x \in Registrant :
       IF x \in loaded[k]
       THEN /\ devices'[k][x].known /\ devices'[k][x].enabled
            /\ devices'[k][x].token = rows[x][k] /\ devices'[k][x].seen = rows[x].seen
            /\ rows[x][k] \in Token
       ELSE devices'[k][x] = Unknown
  BY <1>8
<1>13. Starts(loaded)
  BY <1>2, <1>9, <1>10, <1>11, <1>12 DEF Starts
<1> QED BY <1>1, <1>4, <1>13 DEF Restart, loaded

\* A statement that changes no row keeps the types.
LEMMA QuietTurnKeeps ==
  ASSUME TypeInv, RequestsInv, NEW q \in requests, NEW new, Turns(q, new),
         \A p \in requests \ {q} : p.held \cap new.held = {}, Quiet, UNCHANGED rows
  PROVE  TypeInv' /\ RequestsInv'
<1>1. RequestsInv' /\ requests' \subseteq Request /\ IsFiniteSet(requests')
  BY TurnKeeps DEF Quiet
<1> QED BY <1>1 DEF TypeInv, Quiet

\* Every step keeps the types.
LEMMA TypeNext ==
  ASSUME TypeInv, RequestsInv, Next
  PROVE  TypeInv' /\ RequestsInv'
<1>1. ASSUME NEW g \in Registration, Register(g[1], g[2], g[3]) PROVE TypeInv' /\ RequestsInv'
  BY <1>1, RegisterStep DEF TypeInv, Registered
<1>2. ASSUME NEW kind \in Kind, NEW r \in Registrant, NEW t \in Token, Unregister(kind, r, t)
      PROVE  TypeInv' /\ RequestsInv'
  BY <1>2, UnregisterStep DEF TypeInv, Unregistered
<1>3. ASSUME Restart PROVE TypeInv' /\ RequestsInv'
  <2>1. IsFiniteSet({})
    BY FS_EmptySet
  <2> QED BY <1>3, <2>1, RestartStep DEF TypeInv, RequestsInv, Starts
<1>4. ASSUME NEW q \in requests, Begin(q) PROVE TypeInv' /\ RequestsInv'
  <2>1. PICK new : Turns(q, new) /\ new.held = {}
    BY <1>4, BeginStep
  <2> QED BY <1>4, <2>1, BeginStep, QuietTurnKeeps
<1>5. ASSUME NEW q \in requests, Search(q) PROVE TypeInv' /\ RequestsInv'
  <2>1. PICK new : Turns(q, new) /\ new.held = {}
    BY <1>5, SearchStep
  <2> QED BY <1>5, <2>1, SearchStep, QuietTurnKeeps
<1>6. ASSUME NEW q \in requests, Clear(q) PROVE TypeInv' /\ RequestsInv'
  <2>1. PICK new : Turns(q, new) /\ \A p \in requests \ {q} : p.held \cap new.held = {}
    BY <1>6, ClearStep
  <2> QED BY <1>6, <2>1, ClearStep, QuietTurnKeeps
<1>7. ASSUME NEW q \in requests, Insert(q) PROVE TypeInv' /\ RequestsInv'
  <2>1. PICK new : Turns(q, new) /\ \A p \in requests \ {q} : p.held \cap new.held = {}
    BY <1>7, InsertStep
  <2> QED BY <1>7, <2>1, InsertStep, QuietTurnKeeps
<1>8. ASSUME NEW q \in requests, Rank(q) PROVE TypeInv' /\ RequestsInv'
  <2>1. PICK new : Turns(q, new) /\ new.held = q.held
    BY <1>8, RankStep
  <2>2. \A p \in requests \ {q} : p.held \cap q.held = {}
    BY DEF RequestsInv
  <2> QED BY <1>8, <2>1, <2>2, RankStep, QuietTurnKeeps
<1>9. ASSUME NEW q \in requests, Commit(q) PROVE TypeInv' /\ RequestsInv'
  <2>1. RequestsInv' /\ requests' \subseteq Request /\ IsFiniteSet(requests')
    <3>1. CASE requests' = requests \ {q}
      BY <1>9, <3>1, CommitStep, AnswerKeeps DEF Quiet
    <3>2. CASE requests' # requests \ {q}
      <4>1. PICK new : Turns(q, new) /\ new.held = {}
        BY <1>9, <3>2, CommitStep
      <4> QED BY <1>9, <4>1, CommitStep, TurnKeeps DEF Quiet
    <3> QED BY <3>1, <3>2
  <2>2. rows' \in [Registrant -> Row] /\ Quiet
    BY <1>9, CommitStep, CommitRows
  <2> QED BY <2>1, <2>2 DEF TypeInv, Quiet
<1>10. ASSUME NEW q \in requests, Continue(q) PROVE TypeInv' /\ RequestsInv'
  <2>1. q.who \in Registrant
    BY DEF TypeInv, Request
  <2>2. \E e : Registered("voip", q.who, q.tokens["voip"], e)
    BY <1>10, <2>1, ContinueStep, RegisterDevices DEF Kind
  <2>3. PICK new : Turns(q, new) /\ new.held = {}
    BY <1>10, ContinueStep
  <2>4. RequestsInv' /\ requests' \subseteq Request /\ IsFiniteSet(requests')
    BY <1>10, <2>3, ContinueStep, TurnKeeps
  <2> QED BY <1>10, <2>2, <2>4, ContinueStep DEF TypeInv, Registered
<1>11. ASSUME NEW q \in requests, Fails(q) PROVE TypeInv' /\ RequestsInv'
  BY <1>11, AnswerKeeps DEF Fails, Answers, TypeInv
<1>12. ASSUME NEW q \in requests, StoreDisabled(q) PROVE TypeInv' /\ RequestsInv'
  <2>1. q.who \in Registrant
    BY DEF TypeInv, Request
  <2>2. left' \subseteq Registrant
    BY <1>12, <2>1 DEF TypeInv, StoreDisabled, Leaves
  <2>3. RequestsInv' /\ requests' \subseteq Request /\ IsFiniteSet(requests')
    BY <1>12, AnswerKeeps DEF StoreDisabled, Answers
  <2> QED BY <1>12, <2>2, <2>3, StoreDisabledRows DEF TypeInv, StoreDisabled
<1> QED BY <1>1, <1>2, <1>3, <1>4, <1>5, <1>6, <1>7, <1>8, <1>9, <1>10, <1>11, <1>12 DEF Next

---------------------------------------------------------------------------
(* The indexes of the table. *)

\* One row has no more than the other.
Under(row, other) ==
  /\ row.enabled => other.enabled
  /\ \A k \in Kind : row[k] = NoToken \/ row[k] = other[k]

\* Two rows that have no more than two that do not clash do not clash.
LEMMA UnderClash ==
  ASSUME NEW row, NEW other, NEW more, NEW most, Under(row, more), Under(other, most),
         ~Clash(more, most)
  PROVE  ~Clash(row, other)
BY Zenon DEF Under, Clash

\* A clash is one for both.
LEMMA ClashBoth ==
  ASSUME NEW row, NEW other, Clash(row, other)
  PROVE  Clash(other, row)
BY Zenon DEF Clash

\* A row whose token is taken away has no more than before.
LEMMA UnderStruck ==
  ASSUME NEW kind \in Kind, NEW row \in Row
  PROVE  Under(Struck(kind, row), row) /\ Under(row, row)
<1> DEFINE struck == Struck(kind, row)
<1>1. /\ struck.message = row.message
      /\ kind = "message" => ~struck.enabled /\ struck.voip = row.voip
      /\ kind = "voip" => struck.enabled = row.enabled /\ struck.voip = NoToken
  BY StruckIs
<1> HIDE DEF struck
<1>2. kind = "message" \/ kind = "voip"
  BY DEF Kind
<1>3. \A k \in Kind : struck[k] = NoToken \/ struck[k] = row[k]
  BY <1>1, <1>2 DEF Kind
<1>4. struck.enabled => row.enabled
  BY <1>1, <1>2, Zenon
<1>5. Under(struck, row)
  BY <1>3, <1>4 DEF Under
<1> QED BY <1>5 DEF struck, Under

\* Nor has a row that is disabled.
LEMMA UnderDisabled ==
  ASSUME NEW row, NEW other, ~row.enabled, row.message = other.message, row.voip = other.voip
  PROVE  Under(row, other)
BY Zenon DEF Under, Kind

\* The transaction has written its own row.
Inserts(q) == q.who \in q.held

\* The unique indexes hold of the committed rows, and of those that each
\* transaction and any two of them leave if they commit.
IndexInv ==
  /\ \A x \in Registrant, y \in Registrant : x # y => ~Clash(rows[x], rows[y])
  /\ \A q \in requests : Inserts(q) =>
       /\ \A x \in Registrant \ {q.who} : ~Clash(Inserted(q), View(q)[x])
       /\ \A p \in requests \ {q} : Inserts(p) => ~Clash(Inserted(q), Inserted(p))

\* Two stages of one call with the same rows.
Alike(p, q) == /\ p.n = q.n /\ p.kind = q.kind /\ p.who = q.who /\ p.tokens = q.tokens
               /\ p.now = q.now /\ p.held = q.held

\* Stages with the same rows see the same table.
LEMMA AlikeView ==
  ASSUME NEW p, NEW q, Alike(p, q)
  PROVE  Inserted(p) = Inserted(q) /\ View(p) = View(q) /\ (Inserts(p) <=> Inserts(q))
<1>1. Inserted(p) = Inserted(q)
  BY DEF Alike, Inserted
<1> QED BY <1>1 DEF Alike, View, Inserts

\* The rows that others hold do not change; a row is enabled with a token only if
\* it was, or if a transaction C inserts it so and ends.
LEMMA IndexKeeps ==
  ASSUME TypeInv, RequestsInv, RequestsInv', IndexInv, NEW C \in SUBSET requests,
         \A p \in requests' : Inserts(p) => \E q \in requests \ C : Alike(p, q),
         \A p \in requests' : Inserts(p) => \A x \in p.held : rows'[x] = rows[x],
         \A x \in Registrant :
           \/ Under(rows'[x], rows[x])
           \/ \E q \in C : /\ Inserts(q) /\ x = q.who /\ Under(rows'[x], Inserted(q))
                           /\ \A y \in Registrant \ {x} : Under(rows'[y], View(q)[y]),
         requests' \subseteq Request, rows' \in [Registrant -> Row]
  PROVE  IndexInv'
<1>1. ASSUME NEW x \in Registrant, NEW y \in Registrant, x # y
      PROVE  ~Clash(rows'[x], rows'[y])
  <2>1. CASE Under(rows'[x], rows[x]) /\ Under(rows'[y], rows[y])
    BY <1>1, <2>1, UnderClash DEF IndexInv
  <2>2. ASSUME NEW q \in C, NEW z \in Registrant, NEW v \in Registrant, z # v,
               Inserts(q), z = q.who, Under(rows'[z], Inserted(q)), Under(rows'[v], View(q)[v])
        PROVE  ~Clash(rows'[z], rows'[v])
    BY <2>2, UnderClash DEF IndexInv
  <2> QED BY <1>1, <2>1, <2>2, ClashBoth
<1>2. ASSUME NEW p \in requests', Inserts(p)
      PROVE  /\ Inserted(p)' = Inserted(p) /\ p.who \in Registrant
             /\ \A x \in p.held : View(p)'[x] = View(p)[x]
             /\ \A x \in Registrant \ p.held : View(p)'[x] = rows'[x] /\ View(p)[x] = rows[x]
  <2>1. p.who \in p.held /\ p.who \in Registrant /\ p.held \subseteq Registrant
    BY <1>2 DEF Inserts, Request
  <2>2. Inserted(p)' = Inserted(p)
    BY <1>2, <2>1 DEF Inserted
  <2> QED BY <1>2, <2>1, <2>2 DEF View
<1>3. ASSUME NEW p \in requests', Inserts(p), NEW x \in Registrant \ {p.who}
      PROVE  ~Clash(Inserted(p)', View(p)'[x])
  <2>1. PICK q \in requests \ C : Alike(p, q)
    BY <1>3
  <2>2. Inserts(q) /\ Inserted(q) = Inserted(p) /\ View(q) = View(p) /\ q.who = p.who
    BY <1>3, <2>1, AlikeView DEF Alike
  <2>3. ~Clash(Inserted(p), View(p)[x])
    BY <2>2 DEF IndexInv
  <2>4. CASE x \in p.held
    BY <1>2, <1>3, <2>3, <2>4
  <2>5. CASE x \notin p.held
    <3>1. View(p)'[x] = rows'[x] /\ View(p)[x] = rows[x] /\ Inserted(p)' = Inserted(p)
      <4>1. Inserted(p)' = Inserted(p)
        BY <1>2, <1>3
      <4> QED BY <2>5, <4>1 DEF View
    <3>2. Under(Inserted(p), Inserted(p))
      BY Zenon DEF Under
    <3>3. CASE Under(rows'[x], rows[x])
      BY <2>3, <3>1, <3>2, <3>3, UnderClash
    <3>4. CASE ~Under(rows'[x], rows[x])
      <4>1. PICK c \in C : Inserts(c) /\ x = c.who /\ Under(rows'[x], Inserted(c))
        BY <3>4
      <4>2. ~Clash(Inserted(q), Inserted(c))
        BY <2>2, <4>1 DEF IndexInv
      <4> QED BY <2>2, <3>1, <3>2, <4>1, <4>2, UnderClash
    <3> QED BY <3>3, <3>4
  <2> QED BY <2>4, <2>5
<1>4. ASSUME NEW p \in requests', NEW o \in requests' \ {p}, Inserts(p), Inserts(o)
      PROVE  ~Clash(Inserted(p)', Inserted(o)')
  <2>1. PICK q \in requests \ C : Alike(p, q)
    BY <1>4
  <2>2. PICK c \in requests \ C : Alike(o, c)
    BY <1>4
  <2>3. q # c
    <3>1. p.n # o.n
      BY DEF RequestsInv
    <3> QED BY <2>1, <2>2, <3>1 DEF Alike
  <2>4. Inserts(q) /\ Inserted(q) = Inserted(p) /\ Inserts(c) /\ Inserted(c) = Inserted(o)
    BY <1>4, <2>1, <2>2, AlikeView
  <2>5. ~Clash(Inserted(q), Inserted(c))
    BY <2>3, <2>4 DEF IndexInv
  <2>6. Inserted(p)' = Inserted(p) /\ Inserted(o)' = Inserted(o)
    BY <1>2, <1>4
  <2> QED BY <2>4, <2>5, <2>6
<1>5. ASSUME NEW p \in requests', NEW x \in Registrant \ {p.who}, Inserts(p)
      PROVE  ~Clash(Inserted(p), View(p)[x])'
  BY <1>3, <1>5
<1> QED BY <1>1, <1>3, <1>4 DEF IndexInv, Inserts

\* The indexes hold while the table stays and no row is inserted.
LEMMA IndexSame ==
  ASSUME TypeInv, RequestsInv, TypeInv', RequestsInv', IndexInv, UNCHANGED rows,
         \A p \in requests' : Inserts(p) => \E q \in requests : Alike(p, q)
  PROVE  IndexInv'
<1>1. \A x \in Registrant : Under(rows'[x], rows[x])
  BY Zenon DEF Under
<1>2. requests' \subseteq Request /\ rows' \in [Registrant -> Row]
  BY DEF TypeInv
<1>3. \A p \in requests' : Inserts(p) => \E q \in requests \ {} : Alike(p, q)
  OBVIOUS
<1> QED BY <1>1, <1>2, <1>3, IndexKeeps

\* A call is like itself.
LEMMA AlikeSelf == ASSUME NEW q PROVE Alike(q, q)
BY DEF Alike

\* A call that goes on without inserting keeps the indexes.
LEMMA IndexTurn ==
  ASSUME TypeInv, RequestsInv, TypeInv', RequestsInv', IndexInv, UNCHANGED rows,
         NEW q \in requests, NEW new, Turns(q, new),
         new.who \notin new.held \/ Alike(new, q)
  PROVE  IndexInv'
<1>1. \A p \in requests' : Inserts(p) => \E o \in requests : Alike(p, o)
  BY AlikeSelf DEF Turns, Inserts
<1> QED BY <1>1, IndexSame

\* Every step keeps the indexes of the table.
LEMMA IndexNext ==
  ASSUME TypeInv, RequestsInv, IndexInv, Next
  PROVE  IndexInv'
<1>0. TypeInv' /\ RequestsInv'
  BY TypeNext
<1>1. ASSUME NEW g \in Registration, Register(g[1], g[2], g[3]) PROVE IndexInv'
  <2>1. \A p \in requests' : Inserts(p) => \E q \in requests : Alike(p, q)
    BY <1>1, RegisterStep, AlikeSelf DEF Inserts
  <2> QED BY <1>0, <1>1, <2>1, RegisterStep, IndexSame
<1>2. ASSUME NEW kind \in Kind, NEW r \in Registrant, NEW t \in Token, Unregister(kind, r, t)
      PROVE  IndexInv'
  <2>1. \A p \in requests' : Inserts(p) => \E q \in requests : Alike(p, q)
    BY <1>2, UnregisterStep, AlikeSelf DEF Inserts
  <2> QED BY <1>0, <1>2, <2>1, UnregisterStep, IndexSame
<1>3. ASSUME Restart PROVE IndexInv'
  <2>1. requests' = {} /\ UNCHANGED rows
    BY <1>3, RestartStep
  <2> QED BY <1>0, <2>1, IndexSame
<1>4. ASSUME NEW q \in requests, Begin(q) PROVE IndexInv'
  <2>1. PICK new : Turns(q, new) /\ new.held = {}
    BY <1>4, BeginStep
  <2> QED BY <1>0, <1>4, <2>1, BeginStep, IndexTurn
<1>5. ASSUME NEW q \in requests, Search(q) PROVE IndexInv'
  <2>1. PICK new : Turns(q, new) /\ new.held = {}
    BY <1>5, SearchStep
  <2> QED BY <1>0, <1>5, <2>1, SearchStep, IndexTurn
<1>6. ASSUME NEW q \in requests, Clear(q) PROVE IndexInv'
  <2>1. PICK new : Turns(q, new) /\ q.who \notin new.held
    BY <1>6, ClearStep
  <2>2. new.who \notin new.held
    BY <2>1 DEF Turns
  <2> QED BY <1>0, <1>6, <2>1, <2>2, ClearStep, IndexTurn
<1>8. ASSUME NEW q \in requests, Rank(q) PROVE IndexInv'
  <2>1. PICK new : Turns(q, new) /\ new.held = q.held /\ new.kind = q.kind /\ new.now = q.now
    BY <1>8, RankStep
  <2>2. Alike(new, q)
    BY <2>1 DEF Turns, Alike
  <2> QED BY <1>0, <1>8, <2>1, <2>2, RankStep, IndexTurn
<1>10. ASSUME NEW q \in requests, Continue(q) PROVE IndexInv'
  <2>1. PICK new : Turns(q, new) /\ new.held = {}
    BY <1>10, ContinueStep
  <2> QED BY <1>0, <1>10, <2>1, ContinueStep, IndexTurn
<1>11. ASSUME NEW q \in requests, Fails(q) PROVE IndexInv'
  <2>1. \A p \in requests' : Inserts(p) => \E o \in requests : Alike(p, o)
    BY <1>11, AlikeSelf DEF Fails, Answers
  <2>2. UNCHANGED rows
    BY <1>11 DEF Fails
  <2> QED BY <1>0, <2>1, <2>2, IndexSame
<1>12. ASSUME NEW q \in requests, StoreDisabled(q) PROVE IndexInv'
  <2>1. q.kind \in Kind /\ \A x \in Registrant : rows[x] \in Row
    BY DEF TypeInv, Request
  <2>2. \A x \in Registrant : Under(rows'[x], rows[x])
    BY <1>12, <2>1, StoreDisabledRows, UnderStruck
  <2>3. requests' = requests \ {q}
    BY <1>12 DEF StoreDisabled, Answers
  <2>4. \A p \in requests' : Inserts(p) => \E o \in requests \ {} : Alike(p, o)
    BY <2>3, AlikeSelf
  <2>5. ASSUME NEW p \in requests', NEW x \in p.held
        PROVE  rows'[x] = rows[x]
    <3>1. x \in Registrant /\ p \in requests \ {q}
      BY <2>3 DEF TypeInv, Request
    <3> QED BY <1>12, <3>1, StoreDisabledRows DEF Free
  <2>6. requests' \subseteq Request /\ rows' \in [Registrant -> Row]
    BY <1>0 DEF TypeInv
  <2> QED BY <1>0, <2>2, <2>4, <2>5, <2>6, IndexKeeps
<1>9. ASSUME NEW q \in requests, Commit(q) PROVE IndexInv'
  <2>1. q \in Request /\ q.kind \in Kind /\ q.who \in Registrant /\ Inserts(q)
        /\ q.tokens[q.kind] \in Token /\ \A x \in Registrant : rows[x] \in Row
    BY <1>9, CommitStep DEF TypeInv, Request, RequestsInv, Proper, Inserts
  <2>2. ASSUME NEW x \in Registrant PROVE Under(rows'[x], View(q)[x])
    <3>1. CASE x \in q.found
      BY <1>9, <3>1, CommitRows, UnderDisabled
    <3>2. CASE x \notin q.found
      <4>1. rows'[x] = View(q)[x]
        BY <1>9, <3>2, CommitRows
      <4> QED BY <4>1, Zenon DEF Under
    <3> QED BY <3>1, <3>2
  <2>3. View(q)[q.who] = Inserted(q)
    BY <2>1, ViewIs DEF Inserts
  <2>4. ASSUME NEW x \in Registrant, x # q.who PROVE Under(View(q)[x], rows[x])
    BY <2>1, <2>4, ViewIs, UnderStruck
  <2>5. \A x \in Registrant \ {q.who} : Under(rows'[x], rows[x])
    BY <2>2, <2>4, Zenon DEF Under
  <2>6. \A p \in requests' : Inserts(p) => \E o \in requests \ {q} : Alike(p, o)
    BY <1>9, CommitStep, AlikeSelf DEF Inserts, Turns
  <2>7. ASSUME NEW p \in requests', Inserts(p), NEW x \in p.held
        PROVE  rows'[x] = rows[x]
    <3>1. PICK o \in requests \ {q} : Alike(p, o)
      BY <2>6, <2>7
    <3>2. x \in o.held /\ x \in Registrant
      BY <3>1 DEF Alike, TypeInv, Request
    <3>3. x \notin q.held
      BY <3>1, <3>2 DEF RequestsInv
    <3>4. x \notin q.found
      BY <1>9, <3>1, <3>2, CommitStep DEF Free
    <3> QED BY <1>9, <3>2, <3>3, <3>4, CommitRows, ViewIs
  <2>8. requests' \subseteq Request /\ rows' \in [Registrant -> Row]
    BY <1>0 DEF TypeInv
  <2>9. \A x \in Registrant :
           \/ Under(rows'[x], rows[x])
           \/ \E o \in {q} : /\ Inserts(o) /\ x = o.who /\ Under(rows'[x], Inserted(o))
                             /\ \A y \in Registrant \ {x} : Under(rows'[y], View(o)[y])
    BY <2>1, <2>2, <2>3, <2>5
  <2>10. {q} \in SUBSET requests
    OBVIOUS
  <2> QED BY <1>0, <2>6, <2>7, <2>8, <2>9, <2>10, IndexKeeps
<1>7. ASSUME NEW q \in requests, Insert(q) PROVE IndexInv'
  <2>1. PICK new : /\ Turns(q, new) /\ new.kind = q.kind /\ new.now = q.now
                   /\ new.held = q.held \cup {q.who}
    BY <1>7, InsertStep
  <2>2. /\ requests' = (requests \ {q}) \cup {new} /\ UNCHANGED rows
        /\ new.who = q.who /\ new.tokens = q.tokens /\ ~Delayed(q) /\ ~Refused(q)
        /\ new \in requests' /\ q.who \notin q.held
    BY <1>7, <2>1, InsertStep DEF Turns
  <2>3. \A p \in requests' : Inserted(p)' = Inserted(p) /\ View(p)' = View(p)
    BY <2>2 DEF Inserted, View
  <2>4. Inserted(new) = Inserted(q)
    BY <2>1, <2>2 DEF Inserted
  <2>5. ASSUME NEW x \in Registrant \ {q.who} PROVE ~Clash(Inserted(q), View(q)[x])
    <3>1. CASE Free(q, x)
      BY <2>2, <3>1 DEF Refused
    <3>2. CASE ~Free(q, x)
      <4>1. PICK p \in requests \ {q} : x \in p.held
        BY <3>2 DEF Free
      <4>2. x \notin q.held
        BY <4>1 DEF RequestsInv
      <4>3. View(q)[x] = rows[x]
        BY <4>2, ViewIs
      <4>4. ~Clash(Inserted(q), rows[x])
        BY <2>2, <4>1 DEF Delayed
      <4> QED BY <4>3, <4>4
    <3> QED BY <3>1, <3>2
  <2>6. ASSUME NEW x \in Registrant \ {new.who} PROVE ~Clash(Inserted(new), View(new)[x])
    <3>1. View(new)[x] = View(q)[x]
      BY <2>1, <2>2, <2>6 DEF View
    <3> QED BY <2>2, <2>4, <2>5, <3>1
  <2>7. ASSUME NEW p \in requests \ {q}, Inserts(p) PROVE ~Clash(Inserted(q), Inserted(p))
    <3>1. View(p)[p.who] = Inserted(p)
      BY <2>7, ViewIs DEF Inserts
    <3> QED BY <2>2, <2>7, <3>1 DEF Delayed, Inserts
  <2>8. ASSUME NEW p \in requests', Inserts(p), NEW o \in requests' \ {p}, Inserts(o)
        PROVE  ~Clash(Inserted(p), Inserted(o))
    <3>1. CASE p \in requests \ {q} /\ o \in requests \ {q}
      BY <2>8, <3>1 DEF IndexInv
    <3>2. CASE p = new
      BY <2>2, <2>4, <2>7, <2>8, <3>2
    <3>3. CASE o = new
      BY <2>2, <2>4, <2>7, <2>8, <3>3, ClashBoth
    <3> QED BY <2>2, <3>1, <3>2, <3>3
  <2>9. ASSUME NEW p \in requests', Inserts(p), NEW x \in Registrant \ {p.who}
        PROVE  ~Clash(Inserted(p), View(p)[x])
    <3>1. CASE p \in requests
      BY <2>9, <3>1 DEF IndexInv
    <3>2. CASE p = new
      BY <2>6, <2>9, <3>2
    <3> QED BY <2>2, <3>1, <3>2
  <2>10. \A p \in requests' : Inserts(p) =>
       /\ \A x \in Registrant \ {p.who} : ~Clash(Inserted(p)', View(p)'[x])
       /\ \A o \in requests' \ {p} : Inserts(o) => ~Clash(Inserted(p)', Inserted(o)')
    BY <2>3, <2>8, <2>9
  <2> QED BY <2>2, <2>10 DEF IndexInv, Inserts
<1> QED BY <1>1, <1>2, <1>3, <1>4, <1>5, <1>6, <1>7, <1>8, <1>9, <1>10, <1>11, <1>12 DEF Next

---------------------------------------------------------------------------
(* The owners of tokens. *)

\* An enabled device is known, and is the owner of its token unless the token
\* is orphaned.
MemoryInv ==
  \A k \in Kind, x \in Registrant :
    devices[k][x].enabled =>
      /\ devices[k][x].known
      /\ devices[k][x].token \in Token
      /\ owner[k][devices[k][x].token] = x \/ <<k, devices[k][x].token>> \in orphaned

\* Registering a token takes it from the device that had it.
LEMMA MemoryRegister ==
  ASSUME TypeInv, MemoryInv, NEW kind \in Kind, NEW r \in Registrant, NEW t \in Token, NEW e,
         Registered(kind, r, t, e), orphaned' = orphaned \cup Orphans(kind)
  PROVE  MemoryInv'
<1> SUFFICES ASSUME NEW k \in Kind, NEW x \in Registrant, devices'[k][x].enabled
             PROVE  /\ devices'[k][x].known
                    /\ devices'[k][x].token \in Token
                    /\ owner'[k][devices'[k][x].token] = x
                         \/ <<k, devices'[k][x].token>> \in orphaned'
  BY DEF MemoryInv
<1>1. CASE k # kind
  BY <1>1 DEF Registered, MemoryInv
<1>2. CASE k = kind /\ x = r
  BY <1>2 DEF Registered
<1>3. CASE k = kind /\ x # r
  <2>1. x # e
    BY <1>3, MapsAssumption DEF Registered, Unknown
  <2> DEFINE s == devices[kind][x].token
  <2>2. /\ devices'[kind][x].known = devices[kind][x].known /\ devices'[kind][x].token = s
        /\ devices[kind][x].enabled
        /\ ~(x = owner[kind][t] /\ devices[kind][x].known /\ s = t)
    BY <1>3, <2>1 DEF Registered
  <2>3. devices[kind][x].known /\ s \in Token /\ (owner[kind][s] = x \/ <<kind, s>> \in orphaned)
    BY <2>2 DEF MemoryInv
  <2>4. CASE <<kind, s>> \in orphaned
    BY <1>3, <2>2, <2>3, <2>4
  <2>5. CASE owner[kind][s] = x
    <3>1. s # t
      BY <2>2, <2>3, <2>5
    <3>2. CASE owner'[kind][s] = owner[kind][s]
      BY <1>3, <2>2, <2>3, <2>5, <3>2
    <3>3. CASE owner'[kind][s] # owner[kind][s]
      <4>1. owner'[kind][s] = Nobody /\ owner[kind][s] # Nobody
        BY <2>3, <3>1, <3>3 DEF Registered
      <4>2. devices'[kind][owner[kind][s]].known
        BY <2>2, <2>3, <2>5
      <4>3. <<kind, s>> \in Orphans(kind)
        BY <2>3, <4>1, <4>2 DEF Orphans
      <4> QED BY <1>3, <2>2, <2>3, <4>3
    <3> QED BY <3>2, <3>3
  <2> QED BY <2>3, <2>4, <2>5
<1> QED BY <1>1, <1>2, <1>3

\* Every step keeps the owners.
LEMMA MemoryNext ==
  ASSUME TypeInv, RequestsInv, IndexInv, MemoryInv, Next
  PROVE  MemoryInv'
<1>1. ASSUME NEW g \in Registration, Register(g[1], g[2], g[3]) PROVE MemoryInv'
  BY <1>1, RegisterStep, MemoryRegister DEF Kind
<1>2. ASSUME NEW kind \in Kind, NEW r \in Registrant, NEW t \in Token, Unregister(kind, r, t)
      PROVE  MemoryInv'
  <2>1. Unregistered(kind, r, t) /\ orphaned' = orphaned
    BY <1>2, UnregisterStep
  <2>2. ASSUME NEW k \in Kind, NEW x \in Registrant, devices'[k][x].enabled
        PROVE  /\ devices'[k][x].known
               /\ devices'[k][x].token \in Token
               /\ owner'[k][devices'[k][x].token] = x \/ <<k, devices'[k][x].token>> \in orphaned'
    <3>1. devices[k][x].enabled /\ ~(k = kind /\ x = r)
          /\ devices'[k][x].known = devices[k][x].known
          /\ devices'[k][x].token = devices[k][x].token
      BY <2>1, <2>2 DEF Unregistered
    <3>2. devices[k][x].known /\ devices[k][x].token \in Token
          /\ (owner[k][devices[k][x].token] = x \/ <<k, devices[k][x].token>> \in orphaned)
      BY <3>1 DEF MemoryInv
    <3> QED BY <2>1, <3>1, <3>2 DEF Unregistered
  <2> QED BY <2>2 DEF MemoryInv
<1>3. ASSUME Restart PROVE MemoryInv'
  <2>1. PICK loaded : Starts(loaded)
    BY <1>3, RestartStep
  <2>2. ASSUME NEW k \in Kind, NEW x \in Registrant, devices'[k][x].enabled
        PROVE  /\ devices'[k][x].known
               /\ devices'[k][x].token \in Token
               /\ owner'[k][devices'[k][x].token] = x
    <3>1. x \in loaded[k]
      BY <2>1, <2>2 DEF Starts, Unknown
    <3>2. devices'[k][x].known /\ devices'[k][x].token = rows[x][k] /\ rows[x][k] \in Token
      BY <2>1, <3>1 DEF Starts
    <3> DEFINE y == owner'[k][rows[x][k]]
    <3>3. y \in loaded[k] /\ rows[y][k] = rows[x][k]
      BY <2>1, <3>1 DEF Starts
    <3>4. x \in Stored(k) /\ y \in Stored(k)
      BY <2>1, <3>1, <3>3 DEF Starts
    <3> HIDE DEF y
    <3>5. x = y
      BY <3>3, <3>4 DEF IndexInv, Clash, Stored
    <3> QED BY <3>2, <3>5 DEF y
  <2> QED BY <2>2 DEF MemoryInv
<1>4. ASSUME NEW q \in requests,
             Begin(q) \/ Search(q) \/ Clear(q) \/ Insert(q) \/ Rank(q) \/ Commit(q) \/ Fails(q)
             \/ StoreDisabled(q)
      PROVE  MemoryInv'
  <2>1. UNCHANGED <<devices, owner, orphaned>>
    BY <1>4 DEF Begin, Search, Clear, Insert, Rank, Commit, Fails, StoreDisabled, observed
  <2> QED BY <2>1 DEF MemoryInv
<1>5. ASSUME NEW q \in requests, Continue(q) PROVE MemoryInv'
  <2>1. q.who \in Registrant
    BY DEF TypeInv, Request
  <2>2. q.tokens["voip"] \in Token /\ RegisterIn("voip", q.who, q.tokens["voip"])
        /\ orphaned' = orphaned \cup Orphans("voip")
    BY <1>5, ContinueStep
  <2>3. PICK e : Registered("voip", q.who, q.tokens["voip"], e)
    BY <2>1, <2>2, RegisterDevices DEF Kind
  <2> QED BY <2>1, <2>2, <2>3, MemoryRegister DEF Kind
<1> QED BY <1>1, <1>2, <1>3, <1>4, <1>5 DEF Next

---------------------------------------------------------------------------
\* The initial state.
LEMMA RegistryInit ==
  ASSUME Init
  PROVE  TypeInv /\ RequestsInv /\ IndexInv /\ MemoryInv
<1>1. Unknown \in Device /\ NoRow \in Row
  BY DEF Unknown, Device, NoRow, Row
<1>2. TypeInv
  BY <1>1, FS_EmptySet DEF Init, TypeInv
<1>3. RequestsInv /\ MemoryInv
  BY DEF Init, RequestsInv, MemoryInv, Unknown
<1>4. IndexInv
  BY DEF Init, IndexInv, Clash, NoRow
<1> QED BY <1>2, <1>3, <1>4

\* What all the theorems rest on.
RegistryInv == TypeInv /\ RequestsInv /\ IndexInv /\ MemoryInv

\* Every step keeps all of this.
LEMMA RegistryNext ==
  ASSUME RegistryInv, [Next]_vars
  PROVE  RegistryInv'
<1>1. CASE Next
  BY <1>1, TypeNext, IndexNext, MemoryNext DEF RegistryInv
<1>2. CASE UNCHANGED vars
  <2>1. TypeInv' /\ RequestsInv' /\ MemoryInv'
    BY <1>2 DEF RegistryInv, TypeInv, RequestsInv, MemoryInv, Proper, vars, observed
  <2>2. \A p \in requests' : Inserts(p) => \E q \in requests : Alike(p, q)
    BY <1>2, AlikeSelf DEF vars
  <2>3. IndexInv'
    BY <1>2, <2>1, <2>2, IndexSame DEF RegistryInv, vars
  <2> QED BY <2>1, <2>3 DEF RegistryInv
<1> QED BY <1>1, <1>2

\* A token is enabled for at most one device, unless it is orphaned.
THEOREM TokensHaveOneDevice == Spec => []TokensStayUnique
<1>1. Init => RegistryInv
  BY RegistryInit DEF RegistryInv
<1>2. RegistryInv /\ [Next]_vars => RegistryInv'
  BY RegistryNext
<1>3. RegistryInv => TokensStayUnique
  <2>1. ASSUME RegistryInv, NEW k \in Kind PROVE OneEnabledDevice(k)
    BY <2>1 DEF RegistryInv, MemoryInv, OneEnabledDevice
  <2> QED BY <2>1 DEF TokensStayUnique, Kind
<1> QED BY <1>1, <1>2, <1>3, PTL DEF Spec

---------------------------------------------------------------------------
(* The limit. *)

\* Of a set whose elements have different times, those that fewer than M others
\* come after are no more than M.
LEMMA FewStay ==
  ASSUME NEW S, IsFiniteSet(S), NEW seen, \A x \in S : seen[x] \in Nat,
         NEW K \in SUBSET S, \A x, y \in K : seen[x] = seen[y] => x = y,
         NEW M \in Nat \ {0},
         \A x \in K : ~(Cardinality({y \in S : seen[y] > seen[x]}) >= M)
  PROVE  Cardinality(K) <= M
<1>1. IsFiniteSet(K) /\ Cardinality(K) \in Nat
  BY FS_Subset, FS_CardinalityType
<1>2. CASE K = {}
  BY <1>2, FS_EmptySet
<1>3. CASE K # {}
  <2> DEFINE Times == {seen[x] : x \in K}
  <2>1. Times \in SUBSET Nat /\ Times # {}
    BY <1>3
  <2>2. PICK least \in Times : \A t \in Times : least <= t
    BY <2>1, Least
  <2>3. PICK x \in K : seen[x] = least
    BY <2>2
  <2> DEFINE After == {y \in S : seen[y] > seen[x]}
  <2>4. K \ {x} \subseteq After
    <3> SUFFICES ASSUME NEW y \in K, y # x PROVE y \in After
      OBVIOUS
    <3>1. seen[y] \in Nat /\ seen[x] \in Nat /\ seen[x] <= seen[y] /\ seen[y] # seen[x]
      BY <2>2, <2>3
    <3> QED BY <3>1
  <2>5. IsFiniteSet(After) /\ Cardinality(After) \in Nat
    BY FS_Subset, FS_CardinalityType
  <2>6. ~(Cardinality(After) >= M)
    OBVIOUS
  <2> HIDE DEF After
  <2>7. Cardinality(K \ {x}) <= Cardinality(After)
    BY <2>4, <2>5, FS_Subset
  <2>8. Cardinality(K \ {x}) = Cardinality(K) - 1
    BY <1>1, <2>3, FS_RemoveElement
  <2> QED BY <1>1, <2>5, <2>6, <2>7, <2>8
<1> QED BY <1>2, <1>3

\* The enabled rows of a user.
EnabledOf(table, r) == {x \in OfUser(r) : table[x].enabled}

\* A user's rows were seen at different times, before and after those of the
\* transactions under way.
SeenInv ==
  /\ \A x \in Registrant : rows[x].enabled => rows[x].seen # 0
  /\ \A x \in Registrant : \A y \in OfUser(x) : rows[x].seen = rows[y].seen => x = y \/ rows[x].seen = 0
  /\ \A q \in requests : q.at \in InTransaction =>
       /\ \A x \in OfUser(q.who) : rows[x].seen # q.now
       /\ \A p \in requests \ {q} : p.who[1] = q.who[1] => p.now # q.now

\* What a commit does to the other rows: none is enabled, and none is seen.
LEMMA CommitOthers ==
  ASSUME TypeInv, RequestsInv, NEW q \in requests, Commit(q)
  PROVE  /\ q.who \in Registrant /\ rows'[q.who].seen = q.now
         /\ q.now \in Nat \ {0} /\ q.at \in InTransaction
         /\ \A x \in Registrant \ {q.who} :
              /\ rows'[x].seen = rows[x].seen
              /\ rows'[x].enabled => rows[x].enabled /\ View(q)[x].enabled
              /\ rows'[x].message = rows[x].message
         /\ \A p \in requests \ {q} : \A x \in p.held : rows'[x] = rows[x]
<1>1. q \in Request /\ Proper(q) /\ q.who \in Registrant /\ q.who \in q.held /\ q.kind \in Kind
      /\ q.at = "commit" /\ \A x \in Registrant : rows[x] \in Row
  BY CommitStep DEF TypeInv, RequestsInv, Request
<1>2. q.now \in Nat \ {0} /\ q.at \in InTransaction
  BY <1>1 DEF Proper, Request, InTransaction
<1>3. rows'[q.who].seen = q.now
  BY <1>1, CommitRows, ViewIs, InsertedIs DEF Proper
<1>4. ASSUME NEW x \in Registrant \ {q.who}
      PROVE  /\ rows'[x].seen = rows[x].seen
             /\ rows'[x].enabled => rows[x].enabled /\ View(q)[x].enabled
             /\ rows'[x].message = rows[x].message
  <2>1. /\ View(q)[x].seen = rows[x].seen /\ View(q)[x].message = rows[x].message
        /\ View(q)[x].enabled => rows[x].enabled
    <3>1. CASE x \in q.held
      <4>1. View(q)[x] = Struck(q.kind, rows[x])
        BY <3>1, ViewIs
      <4> QED BY <1>1, <4>1, StruckIs DEF Kind
    <3>2. CASE x \notin q.held
      <4>1. View(q)[x] = rows[x]
        BY <3>2, ViewIs
      <4> QED BY <4>1
    <3> QED BY <3>1, <3>2
  <2> QED BY <2>1, CommitRows
<1>5. ASSUME NEW p \in requests \ {q}, NEW x \in p.held PROVE rows'[x] = rows[x]
  <2>1. x \in Registrant /\ x \notin q.held
    BY DEF TypeInv, Request, RequestsInv
  <2>2. x \notin q.found
    BY CommitStep DEF Free
  <2> QED BY <2>1, <2>2, CommitRows, ViewIs
<1> QED BY <1>1, <1>2, <1>3, <1>4, <1>5

\* What the statement of an unregister does to the rows.
LEMMA StoreDisabledOthers ==
  ASSUME TypeInv, RequestsInv, NEW q \in requests, StoreDisabled(q)
  PROVE  /\ \A x \in Registrant :
              /\ rows'[x].seen = rows[x].seen
              /\ rows'[x].enabled => rows[x].enabled
              /\ rows'[x].message = rows[x].message
         /\ \A p \in requests \ {q} : \A x \in p.held : rows'[x] = rows[x]
<1>1. q.kind \in Kind /\ \A x \in Registrant : rows[x] \in Row
  BY DEF TypeInv, Request
<1>2. ASSUME NEW x \in Registrant
      PROVE  /\ rows'[x].seen = rows[x].seen
             /\ rows'[x].enabled => rows[x].enabled
             /\ rows'[x].message = rows[x].message
  <2>1. CASE rows'[x] = Struck(q.kind, rows[x])
    BY <1>1, <2>1, StruckIs DEF Kind
  <2>2. CASE rows'[x] = rows[x]
    BY <2>2
  <2> QED BY <2>1, <2>2, StoreDisabledRows
<1>3. ASSUME NEW p \in requests \ {q}, NEW x \in p.held PROVE rows'[x] = rows[x]
  <2>1. x \in Registrant
    BY DEF TypeInv, Request
  <2> QED BY <2>1, StoreDisabledRows DEF Free
<1> QED BY <1>2, <1>3

\* Times that stay, with calls that keep theirs or have none.
LEMMA SeenSame ==
  ASSUME TypeInv, RequestsInv, RequestsInv', SeenInv,
         \A x \in Registrant : rows'[x].seen = rows[x].seen /\ (rows'[x].enabled => rows[x].enabled),
         \A p \in requests' :
           \/ \E q \in requests : p.n = q.n /\ p.now = q.now /\ p.who = q.who
           \/ p.now = 0
  PROVE  SeenInv'
<1>1. \A p \in requests' : p.at \in InTransaction <=> p.now # 0
  BY DEF RequestsInv, Proper
<1>2. \A p \in requests : p.at \in InTransaction <=> p.now # 0
  BY DEF RequestsInv, Proper
<1>3. ASSUME NEW p \in requests', p.at \in InTransaction
      PROVE  /\ \A x \in OfUser(p.who) : rows'[x].seen # p.now
             /\ \A o \in requests' \ {p} : o.who[1] = p.who[1] => o.now # p.now
  <2>1. PICK q \in requests : p.n = q.n /\ p.now = q.now /\ p.who = q.who
    BY <1>1, <1>3
  <2>2. q.at \in InTransaction
    BY <1>1, <1>2, <1>3, <2>1
  <2>3. \A x \in OfUser(p.who) : rows'[x].seen # p.now
    BY <2>1, <2>2 DEF SeenInv, OfUser
  <2>4. ASSUME NEW o \in requests' \ {p}, o.who[1] = p.who[1] PROVE o.now # p.now
    <3>1. CASE o.now = 0
      BY <1>1, <1>3, <3>1
    <3>2. CASE o.now # 0
      <4>1. PICK c \in requests : o.n = c.n /\ o.now = c.now /\ o.who = c.who
        BY <3>2
      <4>2. c # q
        BY <2>1, <4>1 DEF RequestsInv
      <4> QED BY <2>1, <2>2, <2>4, <4>1, <4>2 DEF SeenInv
    <3> QED BY <3>1, <3>2
  <2> QED BY <2>3, <2>4
<1>4. /\ \A x \in Registrant : rows'[x].enabled => rows'[x].seen # 0
      /\ \A x \in Registrant : \A y \in OfUser(x) :
           rows'[x].seen = rows'[y].seen => x = y \/ rows'[x].seen = 0
  BY OfUserFinite DEF SeenInv
<1> QED BY <1>3, <1>4 DEF SeenInv

\* Every step keeps the times.
LEMMA SeenNext ==
  ASSUME TypeInv, RequestsInv, SeenInv, Next
  PROVE  SeenInv'
<1>0. TypeInv' /\ RequestsInv'
  BY TypeNext
<1>1. ASSUME NEW g \in Registration, Register(g[1], g[2], g[3]) PROVE SeenInv'
  <2>1. \A p \in requests' : p \in requests \/ p.now = 0
    BY <1>1, RegisterStep
  <2>2. UNCHANGED rows
    BY <1>1, RegisterStep
  <2> QED BY <1>0, <2>1, <2>2, SeenSame
<1>2. ASSUME NEW kind \in Kind, NEW r \in Registrant, NEW t \in Token, Unregister(kind, r, t)
      PROVE  SeenInv'
  <2>1. \A p \in requests' : p \in requests \/ p.now = 0
    BY <1>2, UnregisterStep
  <2>2. UNCHANGED rows
    BY <1>2, UnregisterStep
  <2> QED BY <1>0, <2>1, <2>2, SeenSame
<1>3. ASSUME Restart PROVE SeenInv'
  BY <1>0, <1>3, RestartStep, SeenSame
<1>4. ASSUME NEW q \in requests, Begin(q) PROVE SeenInv'
  <2>1. PICK new : Turns(q, new) /\ new.now = Now(q.who)
    BY <1>4, BeginStep
  <2>2. UNCHANGED rows
    BY <1>4, BeginStep
  <2>3. q.who \in Registrant
    BY DEF TypeInv, Request
  <2>4. /\ \A x \in OfUser(q.who) : rows[x].seen < new.now
        /\ \A p \in requests : p.who[1] = q.who[1] => p.now < new.now
        /\ new.now \in Nat
    BY <2>1, <2>3, NowIsLater
  <2>5. requests' = (requests \ {q}) \cup {new} /\ new.who = q.who
    BY <2>1 DEF Turns
  <2>6. \A x \in OfUser(q.who) : rows[x].seen # new.now
    BY <2>3, <2>4, OfUserFinite DEF TypeInv, Row
  <2>7. \A p \in requests : p.who[1] = q.who[1] => p.now # new.now
    BY <2>4 DEF TypeInv, Request
  <2> QED BY <2>2, <2>5, <2>6, <2>7 DEF SeenInv
<1>5. ASSUME NEW q \in requests, Search(q) \/ Clear(q) \/ Insert(q) \/ Rank(q) PROVE SeenInv'
  <2>1. PICK new : Turns(q, new) /\ new.now = q.now
    BY <1>5, SearchStep, ClearStep, InsertStep, RankStep
  <2>2. UNCHANGED rows
    BY <1>5, SearchStep, ClearStep, InsertStep, RankStep
  <2>3. \A p \in requests' : \E o \in requests : p.n = o.n /\ p.now = o.now /\ p.who = o.who
    BY <2>1 DEF Turns
  <2> QED BY <1>0, <2>2, <2>3, SeenSame
<1>6. ASSUME NEW q \in requests, Commit(q) PROVE SeenInv'
  <2>1. /\ q.who \in Registrant /\ rows'[q.who].seen = q.now /\ q.now # 0 /\ q.at \in InTransaction
        /\ \A x \in Registrant \ {q.who} :
             rows'[x].seen = rows[x].seen /\ (rows'[x].enabled => rows[x].enabled)
    BY <1>6, CommitOthers
  <2>2. \A p \in requests' : p \in requests \ {q} \/ p.now = 0
    BY <1>6, CommitStep DEF Turns
  <2>3. \A x \in OfUser(q.who) : rows[x].seen # q.now
    BY <2>1 DEF SeenInv
  <2>4. \A x \in Registrant : \A y \in OfUser(x) :
           rows'[x].seen = rows'[y].seen => x = y \/ rows'[x].seen = 0
    <3> SUFFICES ASSUME NEW x \in Registrant, NEW y \in OfUser(x), rows'[x].seen = rows'[y].seen,
                        x # y
                 PROVE  rows'[x].seen = 0
      OBVIOUS
    <3>1. y \in Registrant /\ x \in OfUser(y)
      BY DEF OfUser
    <3>2. CASE x = q.who
      BY <2>1, <2>3, <3>1, <3>2
    <3>3. CASE y = q.who
      BY <2>1, <2>3, <3>1, <3>3
    <3>4. CASE x # q.who /\ y # q.who
      BY <2>1, <3>1, <3>4 DEF SeenInv
    <3> QED BY <3>2, <3>3, <3>4
  <2>5. ASSUME NEW p \in requests', p.at \in InTransaction
        PROVE  /\ \A x \in OfUser(p.who) : rows'[x].seen # p.now
               /\ \A o \in requests' \ {p} : o.who[1] = p.who[1] => o.now # p.now
    <3>1. p.now # 0 /\ p \in requests \ {q} /\ p.who \in Registrant
      BY <1>0, <2>2, <2>5 DEF RequestsInv, Proper, TypeInv, Request
    <3>2. /\ \A x \in OfUser(p.who) : rows[x].seen # p.now
          /\ \A o \in requests \ {p} : o.who[1] = p.who[1] => o.now # p.now
      BY <2>5, <3>1 DEF SeenInv
    <3>3. ASSUME NEW x \in OfUser(p.who) PROVE rows'[x].seen # p.now
      <4>1. x \in Registrant /\ x[1] = p.who[1]
        BY DEF OfUser
      <4> QED BY <2>1, <3>1, <3>2, <4>1
    <3> QED BY <2>2, <3>1, <3>2, <3>3
  <2> QED BY <2>1, <2>4, <2>5 DEF SeenInv
<1>7. ASSUME NEW q \in requests, Continue(q) PROVE SeenInv'
  <2>1. \A p \in requests' : p \in requests \/ p.now = 0
    BY <1>7, ContinueStep DEF Turns
  <2>2. UNCHANGED rows
    BY <1>7, ContinueStep
  <2> QED BY <1>0, <2>1, <2>2, SeenSame
<1>8. ASSUME NEW q \in requests, Fails(q) PROVE SeenInv'
  <2>1. requests' \subseteq requests /\ UNCHANGED rows
    BY <1>8 DEF Fails, Answers
  <2> QED BY <1>0, <2>1, SeenSame
<1>9. ASSUME NEW q \in requests, StoreDisabled(q) PROVE SeenInv'
  <2>1. requests' \subseteq requests
    BY <1>9 DEF StoreDisabled, Answers
  <2>2. \A x \in Registrant : rows'[x].seen = rows[x].seen /\ (rows'[x].enabled => rows[x].enabled)
    BY <1>9, StoreDisabledOthers
  <2> QED BY <1>0, <2>1, <2>2, SeenSame
<1> QED BY <1>1, <1>2, <1>3, <1>4, <1>5, <1>6, <1>7, <1>8, <1>9 DEF Next

\* Fewer are no more than the limit.
LEMMA FewerFit ==
  ASSUME NEW r \in Registrant, NEW S \in SUBSET OfUser(r), Cardinality(S) <= MaxDevices,
         NEW K \in SUBSET S
  PROVE  Cardinality(K) <= MaxDevices
<1>1. IsFiniteSet(S)
  BY OfUserFinite, FS_Subset
<1>2. Cardinality(S) \in Nat /\ Cardinality(K) \in Nat /\ Cardinality(K) <= Cardinality(S)
  BY <1>1, FS_Subset, FS_CardinalityType
<1> QED BY <1>2, MapsAssumption

\* A user's enabled rows are within the limit unless its last upsert ranked
\* without the one committed before it, and so will they be after a commit of one
\* that ranked after every other.
RankInv ==
  /\ \A r \in Registrant : r[1] \notin crowded => Cardinality(EnabledOf(rows, r)) <= MaxDevices
  /\ \A q \in requests : q.at = "commit" /\ q.who \in ranked =>
       Cardinality(EnabledOf(View(q), q.who) \ q.found) <= MaxDevices

\* A transaction sees fewer rows enabled when fewer are.
LEMMA ViewFewer ==
  ASSUME TypeInv, NEW q \in requests, q.who \in q.held,
         \A x \in q.held : rows'[x] = rows[x],
         \A x \in OfUser(q.who) : rows'[x].enabled => rows[x].enabled
  PROVE  \A x \in OfUser(q.who) : View(q)'[x].enabled => View(q)[x].enabled
<1> SUFFICES ASSUME NEW x \in OfUser(q.who)
             PROVE  View(q)'[x].enabled => View(q)[x].enabled
  OBVIOUS
<1>1. x \in Registrant
  BY DEF OfUser
<1>2. Inserted(q)' = Inserted(q)
  BY DEF Inserted
<1>3. CASE x \in q.held
  BY <1>1, <1>2, <1>3 DEF View
<1>4. CASE x \notin q.held
  BY <1>1, <1>4 DEF View
<1> QED BY <1>3, <1>4

\* The rows of a user stay within the limit when none is enabled and its
\* transactions are the same.
LEMMA RankSame ==
  ASSUME TypeInv, RequestsInv, RankInv, UNCHANGED crowded,
         \A x \in Registrant : rows'[x].enabled => rows[x].enabled,
         \A p \in requests' : p.at = "commit" /\ p.who \in ranked' =>
           p \in requests /\ p.who \in ranked /\ \A x \in p.held : rows'[x] = rows[x]
  PROVE  RankInv'
<1>1. ASSUME NEW r \in Registrant, r[1] \notin crowded'
      PROVE  Cardinality(EnabledOf(rows', r)) <= MaxDevices
  <2>1. Cardinality(EnabledOf(rows, r)) <= MaxDevices
    BY <1>1 DEF RankInv
  <2>2. EnabledOf(rows', r) \subseteq EnabledOf(rows, r) /\ EnabledOf(rows, r) \subseteq OfUser(r)
    BY DEF EnabledOf, OfUser
  <2> QED BY <2>1, <2>2, FewerFit
<1>2. ASSUME NEW p \in requests', p.at = "commit", p.who \in ranked'
      PROVE  Cardinality(EnabledOf(View(p)', p.who) \ p.found) <= MaxDevices
  <2>1. p \in requests /\ p.who \in Registrant /\ p.who \in p.held
    BY <1>2 DEF TypeInv, Request, RequestsInv, Proper
  <2>2. Cardinality(EnabledOf(View(p), p.who) \ p.found) <= MaxDevices
    BY <1>2, <2>1 DEF RankInv
  <2>3. \A x \in OfUser(p.who) : View(p)'[x].enabled => View(p)[x].enabled
    BY <1>2, <2>1, ViewFewer, OfUserFinite
  <2>4. /\ EnabledOf(View(p)', p.who) \ p.found \subseteq EnabledOf(View(p), p.who) \ p.found
        /\ EnabledOf(View(p), p.who) \ p.found \subseteq OfUser(p.who)
    BY <2>3 DEF EnabledOf
  <2> QED BY <2>1, <2>2, <2>4, FewerFit
<1>3. \A p \in requests' : p.at = "commit" /\ p.who \in ranked' =>
        Cardinality(EnabledOf(View(p)', p.who) \ p.found) <= MaxDevices
  BY <1>2
<1>4. \A r \in Registrant : r[1] \notin crowded' => Cardinality(EnabledOf(rows', r)) <= MaxDevices
  BY <1>1
<1> QED BY <1>3, <1>4 DEF RankInv, EnabledOf

\* All but what the last update finds are within the limit.
LEMMA RankedFit ==
  ASSUME TypeInv, RequestsInv, SeenInv, NEW q \in requests, q.at = "rank"
  PROVE  Cardinality(EnabledOf(View(q), q.who) \ Ranked(q)) <= MaxDevices
<1> DEFINE S == EnabledOf(View(q), q.who)
           seen == [x \in Registrant |-> View(q)[x].seen]
           K == S \ Ranked(q)
<1>1. q \in Request /\ Proper(q) /\ q.who \in Registrant /\ q.who \in q.held /\ q.kind \in Kind
      /\ \A x \in Registrant : rows[x] \in Row
  BY DEF TypeInv, RequestsInv, Request, Proper
<1>2. \A x \in Registrant : View(q)[x] \in Row
  BY ViewIs
<1>3. IsFiniteSet(S) /\ S \subseteq OfUser(q.who) /\ S \subseteq Registrant
  BY <1>1, OfUserFinite, FS_Subset DEF EnabledOf
<1>4. \A x \in S : seen[x] = View(q)[x].seen /\ seen[x] \in Nat
  BY <1>2, <1>3 DEF Row
<1>5. ASSUME NEW x \in S PROVE seen[x] = IF x = q.who THEN q.now ELSE rows[x].seen
  <2>1. CASE x = q.who
    BY <1>1, <1>4, <2>1, ViewIs, InsertedIs DEF Proper
  <2>2. CASE x # q.who /\ x \in q.held
    BY <1>1, <1>3, <1>4, <2>2, ViewIs, StruckIs
  <2>3. CASE x \notin q.held
    BY <1>1, <1>3, <1>4, <2>3, ViewIs
  <2> QED BY <1>1, <2>1, <2>2, <2>3
<1>6. ASSUME NEW x \in S, x # q.who PROVE rows[x].seen # 0
  <2>1. x \in Registrant /\ View(q)[x].enabled
    BY <1>3 DEF EnabledOf
  <2>2. rows[x].enabled
    <3>1. CASE x \in q.held
      BY <1>1, <1>6, <2>1, <3>1, ViewIs, StruckIs DEF Kind
    <3>2. CASE x \notin q.held
      BY <2>1, <3>2, ViewIs
    <3> QED BY <3>1, <3>2
  <2> QED BY <2>1, <2>2 DEF SeenInv
<1>7. \A x \in OfUser(q.who) : rows[x].seen # q.now
  BY DEF SeenInv, InTransaction
<1>8. \A x, y \in K : seen[x] = seen[y] => x = y
  <2> SUFFICES ASSUME NEW x \in S, NEW y \in S, seen[x] = seen[y], x # y PROVE FALSE
    OBVIOUS
  <2>1. x \in Registrant /\ y \in OfUser(x) /\ x \in OfUser(q.who) /\ y \in OfUser(q.who)
    BY <1>3 DEF OfUser
  <2>2. CASE x = q.who \/ y = q.who
    BY <1>5, <1>7, <2>1, <2>2
  <2>3. CASE x # q.who /\ y # q.who
    <3>1. rows[x].seen = rows[y].seen /\ rows[x].seen # 0
      BY <1>5, <1>6, <2>3
    <3> HIDE DEF S, seen
    <3> QED BY <2>1, <3>1 DEF SeenInv
  <2> QED BY <2>2, <2>3
<1>9. ASSUME NEW x \in K PROVE ~(Cardinality({y \in S : seen[y] > seen[x]}) >= MaxDevices)
  <2>1. {y \in S : seen[y] > seen[x]} = {y \in S : View(q)[y].seen > View(q)[x].seen}
    BY <1>4
  <2> QED BY <2>1 DEF Ranked, EnabledOf
<1> HIDE DEF S, seen
<1>10. K \in SUBSET S /\ \A x \in S : seen[x] \in Nat
  BY <1>4
<1> HIDE DEF K
<1>11. Cardinality(K) <= MaxDevices
  BY <1>3, <1>8, <1>9, <1>10, MapsAssumption, FewStay
<1> QED BY <1>11 DEF K, S

\* Every step keeps the limit.
LEMMA RankNext ==
  ASSUME TypeInv, RequestsInv, SeenInv, RankInv, Next
  PROVE  RankInv'
<1>1. ASSUME NEW g \in Registration, Register(g[1], g[2], g[3]) PROVE RankInv'
  <2>1. \A p \in requests' : p \in requests \/ p.at = "begin"
    BY <1>1, RegisterStep
  <2>2. UNCHANGED <<rows, ranked, crowded>>
    BY <1>1, RegisterStep
  <2> QED BY <2>1, <2>2, RankSame
<1>2. ASSUME NEW kind \in Kind, NEW r \in Registrant, NEW t \in Token, Unregister(kind, r, t)
      PROVE  RankInv'
  <2>1. \A p \in requests' : p \in requests \/ p.at = "disable"
    BY <1>2, UnregisterStep
  <2>2. UNCHANGED <<rows, ranked, crowded>>
    BY <1>2, UnregisterStep
  <2> QED BY <2>1, <2>2, RankSame
<1>3. ASSUME Restart PROVE RankInv'
  BY <1>3, RestartStep, RankSame
<1>4. ASSUME NEW q \in requests, Begin(q) \/ Search(q) \/ Clear(q) \/ Insert(q) PROVE RankInv'
  <2>1. PICK new : Turns(q, new) /\ new.at # "commit"
    BY <1>4, BeginStep, SearchStep, ClearStep, InsertStep
  <2>2. UNCHANGED <<rows, ranked, crowded>>
    BY <1>4, BeginStep, SearchStep, ClearStep, InsertStep
  <2>3. \A p \in requests' : p \in requests \/ p.at # "commit"
    BY <2>1 DEF Turns
  <2> QED BY <2>2, <2>3, RankSame
<1>5. ASSUME NEW q \in requests, Rank(q) PROVE RankInv'
  <2>1. PICK new : /\ Turns(q, new) /\ new.kind = q.kind /\ new.now = q.now
                   /\ new.held = q.held /\ new.found = Ranked(q)
    BY <1>5, RankStep
  <2>2. q.at = "rank" /\ UNCHANGED <<rows, crowded>> /\ ranked' = ranked \cup {q.who}
    BY <1>5, RankStep
  <2>3. requests' = (requests \ {q}) \cup {new} /\ new.who = q.who /\ Alike(new, q)
    BY <2>1 DEF Turns, Alike
  <2>4. View(new) = View(q)
    BY <2>3, AlikeView
  <2>5. q.who \in q.held
    BY <2>2 DEF RequestsInv, Proper
  <2>6. ASSUME NEW p \in requests', p.at = "commit", p.who \in ranked'
        PROVE  Cardinality(EnabledOf(View(p), p.who) \ p.found) <= MaxDevices
    <3>1. CASE p = new
      BY <2>1, <2>2, <2>3, <2>4, <3>1, RankedFit
    <3>2. CASE p \in requests \ {q}
      <4>1. p.who \in p.held
        BY <2>6, <3>2 DEF RequestsInv, Proper
      <4>2. p.who # q.who
        BY <2>5, <3>2, <4>1 DEF RequestsInv
      <4> QED BY <2>2, <2>6, <3>2, <4>2 DEF RankInv
    <3> QED BY <2>3, <3>1, <3>2
  <2>7. \A p \in requests' : View(p)' = View(p)
    BY <2>2 DEF View, Inserted
  <2>8. \A p \in requests' : p.at = "commit" /\ p.who \in ranked' =>
          Cardinality(EnabledOf(View(p)', p.who) \ p.found) <= MaxDevices
    BY <2>6, <2>7
  <2> QED BY <2>2, <2>8 DEF RankInv, EnabledOf
<1>6. ASSUME NEW q \in requests, Commit(q) PROVE RankInv'
  <2>1. /\ q.who \in Registrant
        /\ \A x \in Registrant \ {q.who} : rows'[x].enabled => rows[x].enabled
        /\ \A p \in requests \ {q} : \A x \in p.held : rows'[x] = rows[x]
    BY <1>6, CommitOthers
  <2>2. /\ q.at = "commit"
        /\ crowded' = IF q.who \in ranked THEN crowded \ {q.who[1]} ELSE crowded \cup {q.who[1]}
        /\ ranked' = ranked \ OfUser(q.who)
    BY <1>6, CommitStep
  <2>3. \A p \in requests' : p \in requests \ {q} \/ p.at = "stored"
    BY <1>6, CommitStep DEF Turns
  <2>4. ASSUME NEW r \in Registrant, r[1] \notin crowded'
        PROVE  Cardinality(EnabledOf(rows', r)) <= MaxDevices
    <3>1. CASE r[1] = q.who[1]
      <4>1. q.who \in ranked
        BY <2>2, <2>4, <3>1
      <4>2. Cardinality(EnabledOf(View(q), q.who) \ q.found) <= MaxDevices
        BY <2>2, <4>1 DEF RankInv
      <4>3. EnabledOf(rows', r) \subseteq EnabledOf(View(q), q.who) \ q.found
        BY <1>6, <3>1, CommitRows DEF EnabledOf, OfUser
      <4>4. EnabledOf(View(q), q.who) \ q.found \subseteq OfUser(q.who)
        BY DEF EnabledOf
      <4> QED BY <2>1, <4>2, <4>3, <4>4, FewerFit
    <3>2. CASE r[1] # q.who[1]
      <4>1. Cardinality(EnabledOf(rows, r)) <= MaxDevices
        BY <2>2, <2>4, <3>2 DEF RankInv
      <4>2. EnabledOf(rows', r) \subseteq EnabledOf(rows, r) /\ EnabledOf(rows, r) \subseteq OfUser(r)
        BY <2>1, <3>2 DEF EnabledOf, OfUser
      <4> QED BY <4>1, <4>2, FewerFit
    <3> QED BY <3>1, <3>2
  <2>5. ASSUME NEW p \in requests', p.at = "commit", p.who \in ranked'
        PROVE  Cardinality(EnabledOf(View(p)', p.who) \ p.found) <= MaxDevices
    <3>1. p \in requests \ {q} /\ p.who \in Registrant /\ p.who \in p.held /\ p.who \in ranked
      BY <2>2, <2>3, <2>5 DEF TypeInv, Request, RequestsInv, Proper
    <3>2. p.who[1] # q.who[1]
      BY <2>2, <2>5, <3>1 DEF OfUser
    <3>3. \A x \in OfUser(p.who) : rows'[x].enabled => rows[x].enabled
      BY <2>1, <3>2 DEF OfUser
    <3>4. \A x \in OfUser(p.who) : View(p)'[x].enabled => View(p)[x].enabled
      BY <2>1, <3>1, <3>3, ViewFewer
    <3>5. Cardinality(EnabledOf(View(p), p.who) \ p.found) <= MaxDevices
      BY <2>5, <3>1 DEF RankInv
    <3>6. /\ EnabledOf(View(p)', p.who) \ p.found \subseteq EnabledOf(View(p), p.who) \ p.found
          /\ EnabledOf(View(p), p.who) \ p.found \subseteq OfUser(p.who)
      BY <3>4 DEF EnabledOf
    <3> QED BY <3>1, <3>5, <3>6, FewerFit
  <2>6. \A r \in Registrant : r[1] \notin crowded' => Cardinality(EnabledOf(rows', r)) <= MaxDevices
    BY <2>4
  <2>7. \A p \in requests' : p.at = "commit" /\ p.who \in ranked' =>
          Cardinality(EnabledOf(View(p)', p.who) \ p.found) <= MaxDevices
    BY <2>5
  <2> QED BY <2>6, <2>7 DEF RankInv, EnabledOf
<1>7. ASSUME NEW q \in requests, Continue(q) PROVE RankInv'
  <2>1. \A p \in requests' : p \in requests \/ p.at = "begin"
    BY <1>7, ContinueStep DEF Turns
  <2>2. UNCHANGED <<rows, ranked, crowded>>
    BY <1>7, ContinueStep
  <2> QED BY <2>1, <2>2, RankSame
<1>8. ASSUME NEW q \in requests, Fails(q) PROVE RankInv'
  <2>1. requests' \subseteq requests /\ UNCHANGED <<rows, ranked, crowded>>
    BY <1>8 DEF Fails, Answers
  <2> QED BY <2>1, RankSame
<1>9. ASSUME NEW q \in requests, StoreDisabled(q) PROVE RankInv'
  <2>1. requests' = requests \ {q} /\ UNCHANGED <<ranked, crowded>>
    BY <1>9 DEF StoreDisabled, Answers
  <2>2. /\ \A x \in Registrant : rows'[x].enabled => rows[x].enabled
        /\ \A p \in requests \ {q} : \A x \in p.held : rows'[x] = rows[x]
    BY <1>9, StoreDisabledOthers
  <2> QED BY <2>1, <2>2, RankSame
<1> QED BY <1>1, <1>2, <1>3, <1>4, <1>5, <1>6, <1>7, <1>8, <1>9 DEF Next

---------------------------------------------------------------------------
(* A start. *)

\* The stored rows of a user with no more enabled rows than the limit are all
\* loaded, in any order.
LEMMA AllLoaded ==
  ASSUME TypeInv, NEW k \in Kind, NEW order \in Order, NEW x \in Stored(k),
         Cardinality(EnabledOf(rows, x)) <= MaxDevices
  PROVE  x \in Loaded(k, order)
<1> DEFINE S == Stored(k) \cap OfUser(x)
           before == {y \in S : \E z \in S : order[z] > order[y]}
           after == {y \in before : rows[y].seen > rows[x].seen}
<1>1. x \in Registrant
  BY DEF Stored
<1>2. S \subseteq EnabledOf(rows, x) /\ x \in S /\ S \subseteq Registrant
  BY <1>1, OfUserFinite DEF Stored, EnabledOf
<1>3. IsFiniteSet(EnabledOf(rows, x)) /\ IsFiniteSet(S)
  <2>1. EnabledOf(rows, x) \subseteq OfUser(x)
    BY DEF EnabledOf
  <2> QED BY <1>1, <1>2, <2>1, OfUserFinite, FS_Subset
<1>4. Cardinality(S) \in Nat /\ Cardinality(S) <= MaxDevices
  <2>1. Cardinality(S) <= Cardinality(EnabledOf(rows, x)) /\ Cardinality(S) \in Nat
        /\ Cardinality(EnabledOf(rows, x)) \in Nat
    BY <1>2, <1>3, FS_Subset, FS_CardinalityType
  <2> QED BY <2>1, MapsAssumption
<1>5. \A y \in Registrant : order[y] \in Nat
  BY RegistryAssumption
<1>6. PICK z \in S : \A y \in S : order[z] >= order[y]
  <2> DEFINE P == {order[y] : y \in S}
  <2>1. P \in SUBSET Nat /\ P # {} /\ IsFiniteSet(P)
    BY <1>2, <1>3, <1>5, ImageFinite
  <2>2. PICK top \in P : \A y \in P : top >= y
    BY <2>1, Greatest
  <2> QED BY <2>2
<1>7. z \notin before
  <2>1. \A y \in S : ~(order[y] > order[z])
    BY <1>2, <1>5, <1>6
  <2> QED BY <2>1
<1>8. rows[x].seen \in Nat
  BY <1>1 DEF TypeInv, Row
<1>9. ASSUME x \in before PROVE Cardinality(after) < MaxDevices - 1
  <2>1. z # x /\ after \subseteq (S \ {x}) \ {z}
    BY <1>7, <1>8, <1>9
  <2> HIDE DEF after, before, S
  <2> DEFINE A == S \ {x}
             B == A \ {z}
  <2>2. IsFiniteSet(A) /\ Cardinality(A) = Cardinality(S) - 1
    BY <1>2, <1>3, FS_RemoveElement
  <2>3. z \in A
    BY <1>6, <2>1
  <2> HIDE DEF A
  <2>4. IsFiniteSet(B) /\ Cardinality(B) = Cardinality(A) - 1
    BY <2>2, <2>3, FS_RemoveElement
  <2>5. after \subseteq B
    BY <2>1 DEF A
  <2> HIDE DEF B
  <2>6. Cardinality(after) <= Cardinality(B) /\ Cardinality(after) \in Nat
        /\ Cardinality(B) \in Nat
    BY <2>4, <2>5, FS_Subset, FS_CardinalityType
  <2> QED BY <1>4, <2>2, <2>4, <2>6, MapsAssumption
<1>10. x \in before => Cardinality(after) < MaxDevices - 1
  BY <1>9
<1> QED BY <1>10 DEF Loaded

\* A restart enables every token of the enabled rows, whatever overlapped before.
THEOREM LoadKeepsTokens == Spec => LoadLosesNothing
<1> DEFINE Inv == RegistryInv /\ SeenInv /\ RankInv
<1>1. Init => Inv
  <2> SUFFICES ASSUME Init PROVE Inv
    OBVIOUS
  <2>1. RegistryInv
    BY RegistryInit DEF RegistryInv
  <2>2. SeenInv
    BY DEF Init, SeenInv, NoRow
  <2>3. ASSUME NEW r \in Registrant PROVE Cardinality(EnabledOf(rows, r)) <= MaxDevices
    <3>1. EnabledOf(rows, r) = {}
      BY DEF EnabledOf, OfUser, Init, NoRow
    <3> QED BY <3>1, FS_EmptySet, MapsAssumption
  <2>4. RankInv
    BY <2>3 DEF Init, RankInv
  <2> QED BY <2>1, <2>2, <2>4
<1>2. Inv /\ [Next]_vars => Inv'
  <2> SUFFICES ASSUME Inv, [Next]_vars PROVE Inv'
    OBVIOUS
  <2>1. RegistryInv'
    BY RegistryNext
  <2>2. CASE Next
    BY <2>1, <2>2, SeenNext, RankNext DEF RegistryInv
  <2>3. CASE UNCHANGED vars
    <3>1. SeenInv'
      BY <2>1, <2>3, SeenSame DEF RegistryInv, vars
    <3>2. RankInv'
      BY <2>3, RankSame DEF RegistryInv, vars, observed
    <3> QED BY <2>1, <3>1, <3>2
  <2> QED BY <2>2, <2>3
<1>3. Inv /\ [Next]_vars =>
        (restarts' # restarts =>
           \A k \in Kind : \A x \in Stored(k) :
             x[1] \notin crowded =>
               devices'[k][x].enabled /\ devices'[k][x].token = rows[x][k])
  <2> SUFFICES ASSUME Inv, [Next]_vars, restarts' # restarts, NEW k \in Kind, NEW x \in Stored(k),
                      x[1] \notin crowded
               PROVE  devices'[k][x].enabled /\ devices'[k][x].token = rows[x][k]
    OBVIOUS
  <2>1. Restart
    <3>1. Next
      BY DEF vars
    <3>2. \A q \in requests : UNCHANGED restarts \/ ~(Begin(q) \/ Search(q) \/ Clear(q) \/ Insert(q)
            \/ Rank(q) \/ Commit(q) \/ Continue(q) \/ Fails(q) \/ StoreDisabled(q))
      BY DEF Begin, Search, Clear, Insert, Rank, Commit, Continue, Fails, StoreDisabled
    <3>3. \A r \in Registrant, t \in Token, kind \in Kind : Unregister(kind, r, t) => UNCHANGED restarts
      BY DEF Unregister
    <3>4. \A g \in Registration : Register(g[1], g[2], g[3]) => UNCHANGED restarts
      BY DEF Register
    <3> QED BY <3>1, <3>2, <3>3, <3>4 DEF Next
  <2>2. PICK order \in Order : LET loaded == [j \in Kind |-> Loaded(j, order)] IN Starts(loaded)
    BY <2>1, RestartStep DEF RegistryInv
  <2>3. x \in Registrant
    BY DEF Stored
  <2>4. Cardinality(EnabledOf(rows, x)) <= MaxDevices
    BY <2>3 DEF RankInv
  <2>5. x \in Loaded(k, order)
    BY <2>4, AllLoaded DEF RegistryInv
  <2> QED BY <2>2, <2>3, <2>5 DEF Starts
<1>4. Inv /\ [Next]_vars =>
        [restarts' # restarts =>
           \A k \in Kind : \A x \in Stored(k) :
             x[1] \notin crowded =>
               devices'[k][x].enabled /\ devices'[k][x].token = rows[x][k]]_vars
  BY <1>3
<1> QED BY <1>1, <1>2, <1>4, PTL DEF Spec, LoadLosesNothing

---------------------------------------------------------------------------
(* Unregistered devices. *)

\* The call will store a message token.
Tells(q) == q.kind = "message" /\ q.at \in {"begin"} \cup InTransaction

\* A device whose calls did not overlap has the message token of its row, or one
\* that is being stored; one that is unregistering has that of its row.
TokensInv ==
  \A x \in Registrant \ mixed :
    /\ \A p \in requests, q \in requests : p.who = x /\ q.who = x => p = q
    /\ devices["message"][x].known =>
         \/ devices["message"][x].token = rows[x].message
         \/ \E q \in requests : q.who = x /\ Tells(q)
    /\ \A q \in requests : q.who = x =>
         /\ Tells(q) /\ devices["message"][x].known =>
              devices["message"][x].token = q.tokens["message"]
         /\ q.at = "disable" /\ q.kind = "message" =>
              rows[x].message = q.tokens["message"] /\ ~devices["message"][x].enabled

\* Memory that changes no message token that is still known, with the same calls.
LEMMA TokensSame ==
  ASSUME TokensInv, mixed \subseteq mixed',
         \A x \in Registrant :
           /\ rows'[x].message = rows[x].message
           /\ devices'["message"][x].known =>
                devices["message"][x].known /\ devices'["message"][x].token = devices["message"][x].token
           /\ devices'["message"][x].enabled => devices["message"][x].enabled,
         \A p \in requests' : \E q \in requests :
           /\ p.n = q.n /\ p.who = q.who /\ p.tokens = q.tokens
           /\ Tells(p) => Tells(q)
           /\ p.at = "disable" => p = q,
         \A q \in requests : Tells(q) /\ q.who \notin mixed' =>
           \E p \in requests' : p.who = q.who /\ Tells(p),
         \A p \in requests', q \in requests' : p.n = q.n => p = q
  PROVE  TokensInv'
<1> SUFFICES ASSUME NEW x \in Registrant \ mixed'
             PROVE
    /\ \A p \in requests', q \in requests' : p.who = x /\ q.who = x => p = q
    /\ devices'["message"][x].known =>
         \/ devices'["message"][x].token = rows'[x].message
         \/ \E q \in requests' : q.who = x /\ Tells(q)
    /\ \A q \in requests' : q.who = x =>
         /\ Tells(q) /\ devices'["message"][x].known =>
              devices'["message"][x].token = q.tokens["message"]
         /\ q.at = "disable" /\ q.kind = "message" =>
              rows'[x].message = q.tokens["message"] /\ ~devices'["message"][x].enabled
  BY DEF TokensInv, Tells
<1>1. x \in Registrant \ mixed
  OBVIOUS
<1>2. \A p \in requests', q \in requests' : p.who = x /\ q.who = x => p = q
  BY <1>1 DEF TokensInv
<1>3. devices'["message"][x].known =>
         \/ devices'["message"][x].token = rows'[x].message
         \/ \E q \in requests' : q.who = x /\ Tells(q)
  BY <1>1 DEF TokensInv
<1>4. ASSUME NEW q \in requests', q.who = x
      PROVE  /\ Tells(q) /\ devices'["message"][x].known =>
                  devices'["message"][x].token = q.tokens["message"]
             /\ q.at = "disable" /\ q.kind = "message" =>
                  rows'[x].message = q.tokens["message"] /\ ~devices'["message"][x].enabled
  BY <1>1, <1>4 DEF TokensInv
<1> QED BY <1>2, <1>3, <1>4

\* Every step keeps the tokens.
LEMMA TokensNext ==
  ASSUME TypeInv, RequestsInv, TokensInv, Next
  PROVE  TokensInv'
<1>0. TypeInv' /\ RequestsInv'
  BY TypeNext
<1>n. \A p \in requests', q \in requests' : p.n = q.n => p = q
  BY <1>0 DEF RequestsInv
<1>1. ASSUME NEW g \in Registration, Register(g[1], g[2], g[3]) PROVE TokensInv'
  <2> DEFINE r == g[1]
  <2>1. /\ r \in Registrant
        /\ mixed' = IF \E p \in requests : p.who = r THEN mixed \cup {r} ELSE mixed
        /\ UNCHANGED rows
    BY <1>1, RegisterStep
  <2>2. PICK new : /\ requests' = requests \cup {new} /\ new.at = "begin" /\ new.kind = "message"
                   /\ new.who = r /\ new.tokens["message"] = g[2]
    BY <1>1, RegisterStep
  <2>3. PICK e : Registered("message", r, g[2], e)
    BY <1>1, RegisterStep
  <2>4. devices'["message"][r].token = g[2]
    BY <2>3 DEF Registered
  <2>5. ASSUME NEW x \in Registrant, x # r
        PROVE  /\ devices'["message"][x].known =>
                    devices["message"][x].known
                    /\ devices'["message"][x].token = devices["message"][x].token
               /\ devices'["message"][x].enabled => devices["message"][x].enabled
    <3>1. CASE x = e
      BY <2>3, <2>5, <3>1, MapsAssumption DEF Registered, Unknown
    <3>2. CASE x # e
      BY <2>3, <2>5, <3>2 DEF Registered
    <3> QED BY <3>1, <3>2
  <2> SUFFICES ASSUME NEW x \in Registrant \ mixed'
               PROVE
      /\ \A p \in requests', q \in requests' : p.who = x /\ q.who = x => p = q
      /\ devices'["message"][x].known =>
           \/ devices'["message"][x].token = rows'[x].message
           \/ \E q \in requests' : q.who = x /\ Tells(q)
      /\ \A q \in requests' : q.who = x =>
           /\ Tells(q) /\ devices'["message"][x].known =>
                devices'["message"][x].token = q.tokens["message"]
           /\ q.at = "disable" /\ q.kind = "message" =>
                rows'[x].message = q.tokens["message"] /\ ~devices'["message"][x].enabled
    BY DEF TokensInv, Tells
  <2>6. CASE x = r
    <3>1. \A p \in requests : p.who # r
      BY <2>1, <2>6
    <3> QED BY <2>2, <2>4, <2>6, <3>1 DEF Tells
  <2>7. CASE x # r
    <3>1. x \in Registrant \ mixed
      BY <2>1
    <3>2. \A p \in requests' : p.who = x => p \in requests
      BY <2>2, <2>7
    <3> QED BY <2>1, <2>2, <2>5, <2>7, <3>1, <3>2 DEF TokensInv
  <2> QED BY <2>6, <2>7
<1>2. ASSUME NEW kind \in Kind, NEW r \in Registrant, NEW t \in Token, Unregister(kind, r, t)
      PROVE  TokensInv'
  <2>1. /\ mixed' = IF \E p \in requests : p.who = r THEN mixed \cup {r} ELSE mixed
        /\ UNCHANGED rows /\ Unregistered(kind, r, t)
    BY <1>2, UnregisterStep
  <2>2. PICK new : /\ requests' = requests \cup {new} /\ new.at = "disable" /\ new.kind = kind
                   /\ new.who = r /\ new.tokens[kind] = t
    BY <1>2, UnregisterStep
  <2>3. \A x \in Registrant :
          /\ devices'["message"][x].known = devices["message"][x].known
          /\ devices'["message"][x].token = devices["message"][x].token
          /\ devices'["message"][x].enabled =
               (devices["message"][x].enabled /\ ~("message" = kind /\ x = r))
    BY <2>1 DEF Unregistered, Kind
  <2> SUFFICES ASSUME NEW x \in Registrant \ mixed'
               PROVE
      /\ \A p \in requests', q \in requests' : p.who = x /\ q.who = x => p = q
      /\ devices'["message"][x].known =>
           \/ devices'["message"][x].token = rows'[x].message
           \/ \E q \in requests' : q.who = x /\ Tells(q)
      /\ \A q \in requests' : q.who = x =>
           /\ Tells(q) /\ devices'["message"][x].known =>
                devices'["message"][x].token = q.tokens["message"]
           /\ q.at = "disable" /\ q.kind = "message" =>
                rows'[x].message = q.tokens["message"] /\ ~devices'["message"][x].enabled
    BY DEF TokensInv, Tells
  <2>4. x \in Registrant \ mixed
    BY <2>1
  <2>5. CASE x = r
    <3>1. \A p \in requests : p.who # r
      BY <2>1, <2>5
    <3>2. devices["message"][r].known => devices["message"][r].token = rows[r].message
      BY <2>4, <2>5, <3>1 DEF TokensInv
    <3>3. kind = "message" => /\ rows[r].message = t /\ ~devices'["message"][r].enabled
      BY <2>1, <2>3, <3>2 DEF Unregistered
    <3> QED BY <2>1, <2>2, <2>3, <2>5, <3>1, <3>2, <3>3 DEF Tells, InTransaction
  <2>6. CASE x # r
    <3>1. \A p \in requests' : p.who = x => p \in requests
      BY <2>2, <2>6
    <3>2. /\ devices'["message"][x].known => devices["message"][x].known
          /\ devices'["message"][x].token = devices["message"][x].token
          /\ devices'["message"][x].enabled => devices["message"][x].enabled
      BY <2>3
    <3>3. requests \subseteq requests' /\ rows' = rows
      BY <2>1, <2>2
    <3> QED BY <2>4, <3>1, <3>2, <3>3 DEF TokensInv
  <2> QED BY <2>5, <2>6
<1>3. ASSUME Restart PROVE TokensInv'
  <2>1. PICK loaded : Starts(loaded)
    BY <1>3, RestartStep
  <2>2. requests' = {} /\ UNCHANGED rows
    BY <1>3, RestartStep
  <2>3. ASSUME NEW x \in Registrant, devices'["message"][x].known
        PROVE  devices'["message"][x].token = rows[x].message
    BY <2>1, <2>3 DEF Starts, Unknown, Kind
  <2> QED BY <2>2, <2>3 DEF TokensInv
<1>4. ASSUME NEW q \in requests, Begin(q) \/ Search(q) \/ Clear(q) \/ Insert(q) \/ Rank(q)
      PROVE  TokensInv'
  <2>1. PICK new : Turns(q, new) /\ new.kind = q.kind /\ new.at \in InTransaction
    BY <1>4, BeginStep, SearchStep, ClearStep, InsertStep, RankStep DEF InTransaction
  <2>2. q.at \in {"begin"} \cup InTransaction
    BY <1>4, BeginStep, SearchStep, ClearStep, InsertStep, RankStep DEF InTransaction
  <2>3. UNCHANGED <<rows, devices, mixed>>
    BY <1>4, BeginStep, SearchStep, ClearStep, InsertStep, RankStep DEF Quiet
  <2>4. requests' = (requests \ {q}) \cup {new} /\ new.n = q.n /\ new.who = q.who
        /\ new.tokens = q.tokens
    BY <2>1 DEF Turns
  <2>5. Tells(new) <=> Tells(q)
    BY <2>1, <2>2 DEF Tells
  <2>6. \A p \in requests' : \E o \in requests :
           /\ p.n = o.n /\ p.who = o.who /\ p.tokens = o.tokens
           /\ Tells(p) => Tells(o)
           /\ p.at = "disable" => p = o
    BY <2>1, <2>4, <2>5 DEF InTransaction
  <2>7. \A o \in requests : Tells(o) => \E p \in requests' : p.who = o.who /\ Tells(p)
    BY <2>4, <2>5
  <2> QED BY <1>n, <2>3, <2>6, <2>7, TokensSame
<1>5. ASSUME NEW q \in requests, Commit(q) PROVE TokensInv'
  <2>1. q.at = "commit" /\ q.who \in q.held /\ UNCHANGED <<devices, mixed>>
    BY <1>5, CommitStep DEF Quiet
  <2>2. \A p \in requests' :
          p \in requests \ {q} \/ (p.at = "stored" /\ p.who = q.who /\ p.n = q.n)
    BY <1>5, CommitStep DEF Turns
  <2>3. requests \ {q} \subseteq requests'
    BY <1>5, CommitStep DEF Turns
  <2>4. \A x \in Registrant \ {q.who} : rows'[x].message = rows[x].message
    BY <1>5, CommitOthers
  <2>5. q \in Request /\ q.tokens[q.kind] \in Token /\ q.who \in Registrant
    BY DEF TypeInv, Request, RequestsInv, Proper
  <2>6. rows'[q.who].message
          = IF q.kind = "message" THEN q.tokens["message"] ELSE rows[q.who].message
    BY <1>5, <2>1, <2>5, CommitRows, ViewIs, InsertedIs DEF Request, Kind
  <2> SUFFICES ASSUME NEW x \in Registrant \ mixed
               PROVE
      /\ \A p \in requests', o \in requests' : p.who = x /\ o.who = x => p = o
      /\ devices["message"][x].known =>
           \/ devices["message"][x].token = rows'[x].message
           \/ \E o \in requests' : o.who = x /\ Tells(o)
      /\ \A o \in requests' : o.who = x =>
           /\ Tells(o) /\ devices["message"][x].known =>
                devices["message"][x].token = o.tokens["message"]
           /\ o.at = "disable" /\ o.kind = "message" =>
                rows'[x].message = o.tokens["message"] /\ ~devices["message"][x].enabled
    BY <2>1 DEF TokensInv, Tells
  <2>7. CASE x = q.who
    <3>1. \A p \in requests : p.who = x => p = q
      BY <2>7 DEF TokensInv
    <3>2. \A p \in requests' : p.who = x => p.at = "stored" /\ p.n = q.n
      BY <2>2, <3>1
    <3>3. \A p \in requests', o \in requests' : p.who = x /\ o.who = x => p = o
      BY <1>n, <3>2
    <3>4. Tells(q) <=> q.kind = "message"
      BY <2>1 DEF Tells, InTransaction
    <3>5. devices["message"][x].known => devices["message"][x].token = rows'[x].message
      BY <2>6, <2>7, <3>1, <3>4 DEF TokensInv
    <3> QED BY <3>2, <3>3, <3>5 DEF Tells, InTransaction
  <2>8. CASE x # q.who
    <3>1. \A p \in requests' : p.who = x => p \in requests
      BY <2>2, <2>8
    <3>2. \A o \in requests : o.who = x => o \in requests'
      BY <2>3, <2>8
    <3> QED BY <2>4, <2>8, <3>1, <3>2 DEF TokensInv
  <2> QED BY <2>7, <2>8
<1>6. ASSUME NEW q \in requests, Continue(q) PROVE TokensInv'
  <2>1. PICK new : Turns(q, new) /\ new.kind = "voip" /\ new.at = "begin"
    BY <1>6, ContinueStep
  <2>2. q.at = "stored" /\ UNCHANGED <<rows, mixed>>
    BY <1>6, ContinueStep
  <2>3. q.who \in Registrant
    BY DEF TypeInv, Request
  <2>4. PICK e : Registered("voip", q.who, q.tokens["voip"], e)
    BY <1>6, <2>3, ContinueStep, RegisterDevices DEF Kind
  <2>5. devices'["message"] = devices["message"]
    BY <2>4 DEF Registered, Kind
  <2>6. requests' = (requests \ {q}) \cup {new} /\ new.n = q.n /\ new.who = q.who
        /\ new.tokens = q.tokens
    BY <2>1 DEF Turns
  <2>7. ~Tells(new) /\ ~Tells(q)
    BY <2>1, <2>2 DEF Tells, InTransaction
  <2>8. \A p \in requests' : \E o \in requests :
           /\ p.n = o.n /\ p.who = o.who /\ p.tokens = o.tokens
           /\ Tells(p) => Tells(o)
           /\ p.at = "disable" => p = o
    BY <2>1, <2>6, <2>7
  <2>9. \A o \in requests : Tells(o) => \E p \in requests' : p.who = o.who /\ Tells(p)
    BY <2>6, <2>7
  <2> QED BY <1>n, <2>2, <2>5, <2>8, <2>9, TokensSame
<1>7. ASSUME NEW q \in requests, Fails(q) PROVE TokensInv'
  <2>1. requests' = requests \ {q} /\ mixed' = mixed \cup {q.who} /\ UNCHANGED <<rows, devices>>
    BY <1>7 DEF Fails, Answers
  <2>2. \A p \in requests' : \E o \in requests :
           /\ p.n = o.n /\ p.who = o.who /\ p.tokens = o.tokens
           /\ Tells(p) => Tells(o)
           /\ p.at = "disable" => p = o
    BY <2>1
  <2>3. \A o \in requests : Tells(o) /\ o.who \notin mixed' =>
           \E p \in requests' : p.who = o.who /\ Tells(p)
    BY <2>1
  <2> QED BY <1>n, <2>1, <2>2, <2>3, TokensSame
<1>8. ASSUME NEW q \in requests, StoreDisabled(q) PROVE TokensInv'
  <2>1. requests' = requests \ {q} /\ UNCHANGED <<mixed, devices>> /\ q.at = "disable"
    BY <1>8 DEF StoreDisabled, Answers
  <2>2. \A x \in Registrant : rows'[x].message = rows[x].message
    BY <1>8, StoreDisabledOthers
  <2>3. \A p \in requests' : \E o \in requests :
           /\ p.n = o.n /\ p.who = o.who /\ p.tokens = o.tokens
           /\ Tells(p) => Tells(o)
           /\ p.at = "disable" => p = o
    BY <2>1
  <2>4. \A o \in requests : Tells(o) => \E p \in requests' : p.who = o.who /\ Tells(p)
    BY <2>1 DEF Tells, InTransaction
  <2> QED BY <1>n, <2>1, <2>2, <2>3, <2>4, TokensSame
<1> QED BY <1>1, <1>2, <1>3, <1>4, <1>5, <1>6, <1>7, <1>8 DEF Next

\* A device that left stays disabled in its row and in memory, rings only if it
\* did when it left, and has no call but to unregister.
LeftInv ==
  \A r \in left :
    /\ ~rows[r].enabled /\ ~devices["message"][r].enabled
    /\ devices["voip"][r].enabled => r \in ringing
    /\ \A q \in requests : q.who = r => q.at = "disable"

\* Nothing is enabled for those that left, and they call only to unregister.
LEMMA LeftSame ==
  ASSUME LeftInv, left' \subseteq left, ringing \subseteq ringing',
         \A x \in left' :
           /\ rows'[x].enabled => rows[x].enabled
           /\ devices'["message"][x].enabled => devices["message"][x].enabled
           /\ devices'["voip"][x].enabled => devices["voip"][x].enabled
           /\ \A p \in requests' : p.who = x => p.at = "disable" \/ p \in requests
  PROVE  LeftInv'
BY DEF LeftInv

\* Every step keeps those that left disabled.
LEMMA LeftNext ==
  ASSUME TypeInv, RequestsInv, TokensInv, LeftInv, Next
  PROVE  LeftInv'
<1>0. left \subseteq Registrant
  BY DEF TypeInv
<1>1. ASSUME NEW g \in Registration, Register(g[1], g[2], g[3]) PROVE LeftInv'
  <2>1. left' = left \ {g[1]} /\ UNCHANGED <<rows, ringing>>
    BY <1>1, RegisterStep
  <2>2. PICK e : Registered("message", g[1], g[2], e)
    BY <1>1, RegisterStep
  <2>3. devices'["voip"] = devices["voip"]
    BY <2>2 DEF Registered, Kind
  <2>4. ASSUME NEW x \in left' PROVE devices'["message"][x].enabled => devices["message"][x].enabled
    <3>1. CASE x = e
      BY <1>0, <2>1, <2>2, <3>1, MapsAssumption DEF Registered, Unknown
    <3>2. CASE x # e
      BY <1>0, <2>1, <2>2, <3>2 DEF Registered
    <3> QED BY <3>1, <3>2
  <2>5. \A p \in requests' : p.who # g[1] => p \in requests
    BY <1>1, RegisterStep
  <2> QED BY <2>1, <2>3, <2>4, <2>5, LeftSame
<1>2. ASSUME NEW kind \in Kind, NEW r \in Registrant, NEW t \in Token, Unregister(kind, r, t)
      PROVE  LeftInv'
  <2>1. UNCHANGED <<rows, left, ringing>> /\ Unregistered(kind, r, t)
    BY <1>2, UnregisterStep
  <2>2. \A x \in left' : /\ devices'["message"][x].enabled => devices["message"][x].enabled
                         /\ devices'["voip"][x].enabled => devices["voip"][x].enabled
    BY <1>0, <2>1 DEF Unregistered, Kind
  <2>3. \A p \in requests' : p.at = "disable" \/ p \in requests
    BY <1>2, UnregisterStep
  <2> QED BY <2>1, <2>2, <2>3, LeftSame
<1>3. ASSUME Restart PROVE LeftInv'
  <2>1. PICK loaded : Starts(loaded)
    BY <1>3, RestartStep
  <2>2. requests' = {} /\ UNCHANGED <<rows, left>>
    BY <1>3, RestartStep
  <2>3. ASSUME NEW k \in Kind, NEW x \in Registrant, devices'[k][x].enabled PROVE rows[x].enabled
    BY <2>1, <2>3 DEF Starts, Unknown, Stored
  <2> QED BY <1>0, <2>2, <2>3 DEF LeftInv, Kind
<1>4. ASSUME NEW q \in requests, Begin(q) \/ Search(q) \/ Clear(q) \/ Insert(q) \/ Rank(q)
      PROVE  LeftInv'
  <2>1. PICK new : Turns(q, new)
    BY <1>4, BeginStep, SearchStep, ClearStep, InsertStep, RankStep
  <2>2. q.at # "disable" /\ UNCHANGED <<rows, devices, left, ringing>>
    BY <1>4, BeginStep, SearchStep, ClearStep, InsertStep, RankStep DEF Quiet
  <2>3. \A x \in left' : \A p \in requests' : p.who = x => p \in requests
    BY <2>1, <2>2 DEF Turns, LeftInv
  <2> QED BY <2>2, <2>3, LeftSame
<1>5. ASSUME NEW q \in requests, Commit(q) PROVE LeftInv'
  <2>1. q.at = "commit" /\ UNCHANGED <<devices, left, ringing>>
    BY <1>5, CommitStep DEF Quiet
  <2>2. q.who \notin left
    BY <2>1 DEF LeftInv
  <2>3. \A x \in left' : \A p \in requests' : p.who = x => p \in requests
    BY <1>5, <2>1, <2>2, CommitStep DEF Turns
  <2>4. \A x \in left' : rows'[x].enabled => rows[x].enabled
    BY <1>0, <1>5, <2>1, <2>2, CommitOthers
  <2> QED BY <2>1, <2>3, <2>4, LeftSame
<1>6. ASSUME NEW q \in requests, Continue(q) PROVE LeftInv'
  <2>1. q.at = "stored" /\ UNCHANGED <<rows, left, ringing>>
    BY <1>6, ContinueStep
  <2>2. q.who \notin left /\ q.who \in Registrant
    BY <2>1 DEF LeftInv, TypeInv, Request
  <2>3. PICK e : Registered("voip", q.who, q.tokens["voip"], e)
    BY <1>6, <2>2, ContinueStep, RegisterDevices DEF Kind
  <2>4. devices'["message"] = devices["message"]
    BY <2>3 DEF Registered, Kind
  <2>5. ASSUME NEW x \in left' PROVE devices'["voip"][x].enabled => devices["voip"][x].enabled
    <3>1. CASE x = e
      BY <1>0, <2>1, <2>2, <2>3, <3>1, MapsAssumption DEF Registered, Unknown
    <3>2. CASE x # e
      BY <1>0, <2>1, <2>2, <2>3, <3>2 DEF Registered
    <3> QED BY <3>1, <3>2
  <2>6. \A x \in left' : \A p \in requests' : p.who = x => p \in requests
    BY <1>6, <2>1, <2>2, ContinueStep DEF Turns
  <2> QED BY <2>1, <2>4, <2>5, <2>6, LeftSame
<1>7. ASSUME NEW q \in requests, Fails(q) PROVE LeftInv'
  <2>1. requests' \subseteq requests /\ UNCHANGED <<rows, devices, left, ringing>>
    BY <1>7 DEF Fails, Answers
  <2> QED BY <2>1, LeftSame
<1>8. ASSUME NEW q \in requests, StoreDisabled(q) PROVE LeftInv'
  <2>1. requests' = requests \ {q} /\ UNCHANGED devices /\ q.at = "disable"
    BY <1>8 DEF StoreDisabled, Answers
  <2>2. \A x \in Registrant : rows'[x].enabled => rows[x].enabled
    BY <1>8, StoreDisabledOthers
  <2>3. CASE q.kind = "message" /\ q.who \notin mixed
    <3>1. /\ left' = left \cup {q.who}
          /\ ringing' = IF HasActiveVoip(q.who) THEN ringing \cup {q.who} ELSE ringing \ {q.who}
      BY <1>8, <2>3 DEF StoreDisabled, Leaves
    <3>2. q.who \in Registrant /\ rows[q.who] \in Row
      BY DEF TypeInv, Request
    <3>3. /\ rows[q.who].message = q.tokens["message"] /\ ~devices["message"][q.who].enabled
          /\ \A p \in requests : p.who = q.who => p = q
      BY <2>1, <2>3, <3>2 DEF TokensInv
    <3>4. rows'[q.who] = Struck("message", rows[q.who])
      BY <1>8, <2>3, <3>2, <3>3, StoreDisabledRows DEF Matches
    <3>5. ~rows'[q.who].enabled
      BY <3>2, <3>4, StruckIs DEF Kind
    <3>6. devices["voip"][q.who].enabled => q.who \in ringing'
      BY <3>1 DEF HasActiveVoip
    <3>7. ASSUME NEW x \in left, x # q.who
          PROVE  /\ ~rows'[x].enabled /\ ~devices'["message"][x].enabled
                 /\ devices'["voip"][x].enabled => x \in ringing'
                 /\ \A p \in requests' : p.who = x => p.at = "disable"
      BY <1>0, <2>1, <2>2, <3>1, <3>7 DEF LeftInv
    <3> QED BY <2>1, <3>1, <3>3, <3>5, <3>6, <3>7 DEF LeftInv
  <2>4. CASE ~(q.kind = "message" /\ q.who \notin mixed)
    <3>1. UNCHANGED <<left, ringing>>
      BY <1>8, <2>4 DEF StoreDisabled, Leaves
    <3> QED BY <1>0, <2>1, <2>2, <3>1, LeftSame
  <2> QED BY <2>3, <2>4
<1> QED BY <1>1, <1>2, <1>3, <1>4, <1>5, <1>6, <1>7, <1>8 DEF Next

\* A device whose unregister was answered gets no message until it registers
\* again, whatever overlaps, fails or restarts.
THEOREM LeftStaysDisabled == Spec => []UnregisteredStaysDisabled
<1> DEFINE Inv == RegistryInv /\ TokensInv /\ LeftInv
<1>1. Init => Inv
  <2> SUFFICES ASSUME Init PROVE Inv
    OBVIOUS
  <2>1. RegistryInv
    BY RegistryInit DEF RegistryInv
  <2>2. TokensInv /\ LeftInv
    BY DEF Init, TokensInv, LeftInv, Unknown, Kind
  <2> QED BY <2>1, <2>2
<1>2. Inv /\ [Next]_vars => Inv'
  <2> SUFFICES ASSUME Inv, [Next]_vars PROVE Inv'
    OBVIOUS
  <2>1. RegistryInv'
    BY RegistryNext
  <2>2. CASE Next
    BY <2>1, <2>2, TokensNext, LeftNext DEF RegistryInv
  <2>3. CASE UNCHANGED vars
    <3>1. TokensInv' /\ LeftInv'
      BY <2>3 DEF TokensInv, LeftInv, Tells, vars, observed
    <3> QED BY <2>1, <3>1
  <2> QED BY <2>2, <2>3
<1>3. Inv => UnregisteredStaysDisabled
  BY DEF LeftInv, UnregisteredStaysDisabled
<1> QED BY <1>1, <1>2, <1>3, PTL DEF Spec

---------------------------------------------------------------------------
(* Calls one after the other. *)

\* While calm, one call is under way at most.
CalmAlone ==
  calm => mixed = {} /\ \A p \in requests, q \in requests : p = q

\* Every step leaves one call at most, or is not calm any more.
LEMMA CalmAloneNext ==
  ASSUME TypeInv, RequestsInv, CalmAlone, Next
  PROVE  CalmAlone'
<1>1. ASSUME NEW g \in Registration, Register(g[1], g[2], g[3]) PROVE CalmAlone'
  <2>1. PICK new : requests' = requests \cup {new}
    BY <1>1, RegisterStep
  <2>2. /\ calm' = (calm /\ requests = {})
        /\ mixed' = IF \E p \in requests : p.who = g[1] THEN mixed \cup {g[1]} ELSE mixed
    BY <1>1, RegisterStep
  <2> QED BY <2>1, <2>2 DEF CalmAlone
<1>2. ASSUME NEW kind \in Kind, NEW r \in Registrant, NEW t \in Token, Unregister(kind, r, t)
      PROVE  CalmAlone'
  <2>1. PICK new : requests' = requests \cup {new}
    BY <1>2, UnregisterStep
  <2>2. /\ calm' = (calm /\ requests = {})
        /\ mixed' = IF \E p \in requests : p.who = r THEN mixed \cup {r} ELSE mixed
    BY <1>2, UnregisterStep
  <2> QED BY <2>1, <2>2 DEF CalmAlone
<1>3. ASSUME Restart PROVE CalmAlone'
  BY <1>3, RestartStep DEF CalmAlone
<1>4. ASSUME NEW q \in requests, Begin(q) \/ Search(q) \/ Clear(q) \/ Insert(q) \/ Rank(q)
      PROVE  CalmAlone'
  <2>1. PICK new : Turns(q, new)
    BY <1>4, BeginStep, SearchStep, ClearStep, InsertStep, RankStep
  <2>2. UNCHANGED <<calm, mixed>>
    BY <1>4, BeginStep, SearchStep, ClearStep, InsertStep, RankStep DEF Quiet
  <2> QED BY <2>1, <2>2 DEF CalmAlone, Turns
<1>5. ASSUME NEW q \in requests, Commit(q) \/ Continue(q) PROVE CalmAlone'
  <2>1. requests' = requests \ {q} \/ \E new : requests' = (requests \ {q}) \cup {new}
    BY <1>5, CommitStep, ContinueStep DEF Turns
  <2>2. UNCHANGED <<calm, mixed>>
    BY <1>5, CommitStep, ContinueStep DEF Quiet
  <2> QED BY <2>1, <2>2 DEF CalmAlone
<1>6. ASSUME NEW q \in requests, Fails(q) \/ StoreDisabled(q) PROVE CalmAlone'
  BY <1>6 DEF CalmAlone, Fails, StoreDisabled, Answers
<1> QED BY <1>1, <1>2, <1>3, <1>4, <1>5, <1>6 DEF Next

\* While calm, the call that goes on is the only one.
LEMMA CalmCall ==
  ASSUME CalmAlone, calm, NEW q \in requests
  PROVE  requests = {q} /\ mixed = {}
BY DEF CalmAlone

\* A row that is enabled, or whose call has stored its message token, has one.
HaveTokens ==
  /\ \A x \in Registrant : rows[x].enabled => rows[x].message \in Token
  /\ \A q \in requests : q.at # "disable" /\ ~Tells(q) => rows[q.who].message \in Token

\* Every step keeps the tokens of enabled rows.
LEMMA HaveTokensNext ==
  ASSUME TypeInv, RequestsInv, HaveTokens, Next
  PROVE  HaveTokens'
<1>1. ASSUME NEW g \in Registration, Register(g[1], g[2], g[3]) PROVE HaveTokens'
  BY <1>1, RegisterStep DEF HaveTokens, Tells
<1>2. ASSUME NEW kind \in Kind, NEW r \in Registrant, NEW t \in Token, Unregister(kind, r, t)
      PROVE  HaveTokens'
  BY <1>2, UnregisterStep DEF HaveTokens, Tells
<1>3. ASSUME Restart PROVE HaveTokens'
  BY <1>3, RestartStep DEF HaveTokens
<1>4. ASSUME NEW q \in requests, Begin(q) \/ Search(q) \/ Clear(q) \/ Insert(q) \/ Rank(q)
      PROVE  HaveTokens'
  <2>1. PICK new : Turns(q, new) /\ new.kind = q.kind /\ new.at \in InTransaction
    BY <1>4, BeginStep, SearchStep, ClearStep, InsertStep, RankStep DEF InTransaction
  <2>2. q.at \in {"begin"} \cup InTransaction /\ q.at # "disable"
    BY <1>4, BeginStep, SearchStep, ClearStep, InsertStep, RankStep DEF InTransaction
  <2>3. UNCHANGED rows
    BY <1>4, BeginStep, SearchStep, ClearStep, InsertStep, RankStep
  <2>4. requests' = (requests \ {q}) \cup {new} /\ new.who = q.who /\ (Tells(new) <=> Tells(q))
    BY <2>1, <2>2 DEF Turns, Tells
  <2>5. ASSUME NEW p \in requests', p.at # "disable", ~Tells(p)
        PROVE  rows'[p.who].message \in Token
    BY <2>2, <2>3, <2>4, <2>5 DEF HaveTokens
  <2> QED BY <2>3, <2>5 DEF HaveTokens, Tells
<1>5. ASSUME NEW q \in requests, Commit(q) PROVE HaveTokens'
  <2>1. q.at = "commit" /\ q.who \in q.held
    BY <1>5, CommitStep
  <2>2. q \in Request /\ q.tokens[q.kind] \in Token /\ q.who \in Registrant
    BY DEF TypeInv, Request, RequestsInv, Proper
  <2>3. rows'[q.who].message
          = IF q.kind = "message" THEN q.tokens["message"] ELSE rows[q.who].message
    BY <1>5, <2>1, <2>2, CommitRows, ViewIs, InsertedIs DEF Request, Kind
  <2>4. rows'[q.who].message \in Token
    <3>1. q.kind # "message" => rows[q.who].message \in Token
      BY <2>1 DEF HaveTokens, Tells
    <3> QED BY <2>2, <2>3, <3>1
  <2>5. \A x \in Registrant \ {q.who} :
          rows'[x].message = rows[x].message /\ (rows'[x].enabled => rows[x].enabled)
    BY <1>5, CommitOthers
  <2>6. \A p \in requests' : p \in requests \/ p.who = q.who
    BY <1>5, CommitStep DEF Turns
  <2>7. ASSUME NEW p \in requests', p.at # "disable", ~Tells(p)
        PROVE  rows'[p.who].message \in Token
    <3>1. CASE p.who = q.who
      BY <2>4, <3>1
    <3>2. CASE p.who # q.who
      <4>1. p \in requests /\ p.who \in Registrant
        BY <2>6, <3>2 DEF TypeInv, Request
      <4> QED BY <2>5, <2>7, <3>2, <4>1 DEF HaveTokens
    <3> QED BY <3>1, <3>2
  <2> QED BY <2>4, <2>5, <2>7 DEF HaveTokens, Tells
<1>6. ASSUME NEW q \in requests, Continue(q) PROVE HaveTokens'
  <2>1. PICK new : Turns(q, new)
    BY <1>6, ContinueStep
  <2>2. q.at = "stored" /\ UNCHANGED rows
    BY <1>6, ContinueStep
  <2>3. requests' = (requests \ {q}) \cup {new} /\ new.who = q.who /\ ~Tells(q)
    BY <2>1, <2>2 DEF Turns, Tells, InTransaction
  <2>4. ASSUME NEW p \in requests', p.at # "disable", ~Tells(p)
        PROVE  rows'[p.who].message \in Token
    BY <2>2, <2>3, <2>4 DEF HaveTokens
  <2> QED BY <2>2, <2>4 DEF HaveTokens, Tells
<1>7. ASSUME NEW q \in requests, Fails(q) PROVE HaveTokens'
  BY <1>7 DEF HaveTokens, Fails, Answers, Tells
<1>8. ASSUME NEW q \in requests, StoreDisabled(q) PROVE HaveTokens'
  <2>1. requests' \subseteq requests
    BY <1>8 DEF StoreDisabled, Answers
  <2>2. \A x \in Registrant :
          rows'[x].message = rows[x].message /\ (rows'[x].enabled => rows[x].enabled)
    BY <1>8, StoreDisabledOthers
  <2>3. \A p \in requests : p.who \in Registrant
    BY DEF TypeInv, Request
  <2> QED BY <2>1, <2>2, <2>3 DEF HaveTokens, Tells
<1> QED BY <1>1, <1>2, <1>3, <1>4, <1>5, <1>6, <1>7, <1>8 DEF Next

\* While calm, what a transaction has found is still so.
Stage(q) ==
  /\ q.at \in InTransaction => \A x \in OfUser(q.who) : rows[x].seen < q.now
  /\ q.at = "clear" => q.found = {x \in Registrant \ {q.who} : Matches(q, rows[x])}
  /\ q.at \in {"insert", "rank", "commit"} =>
       \A x \in Registrant \ {q.who} : x \in q.held <=> Matches(q, rows[x])
  /\ q.at = "commit" => q.found = Ranked(q)

Stages == calm => \A q \in requests : Stage(q)

\* Every step keeps what its transaction has found so.
LEMMA StagesNext ==
  ASSUME TypeInv, RequestsInv, CalmAlone, Stages, Next
  PROVE  Stages'
<1>1. ASSUME UNCHANGED rows, NEW p, Stage(p) PROVE Stage(p)'
  <2>1. View(p)' = View(p)
    BY <1>1 DEF View, Inserted
  <2> QED BY <1>1, <2>1 DEF Stage, Matches, Ranked
<1>2. ASSUME NEW g \in Registration, Register(g[1], g[2], g[3]) PROVE Stages'
  <2>1. \A p \in requests' : p \in requests \/ p.at = "begin"
    BY <1>2, RegisterStep
  <2>2. UNCHANGED rows /\ (calm' => calm)
    BY <1>2, RegisterStep
  <2>3. \A p \in requests' : calm => Stage(p)
    BY <2>1 DEF Stages, Stage, InTransaction
  <2> QED BY <1>1, <2>2, <2>3 DEF Stages
<1>3. ASSUME NEW kind \in Kind, NEW r \in Registrant, NEW t \in Token, Unregister(kind, r, t)
      PROVE  Stages'
  <2>1. \A p \in requests' : p \in requests \/ p.at = "disable"
    BY <1>3, UnregisterStep
  <2>2. UNCHANGED rows /\ (calm' => calm)
    BY <1>3, UnregisterStep
  <2>3. \A p \in requests' : calm => Stage(p)
    BY <2>1 DEF Stages, Stage, InTransaction
  <2> QED BY <1>1, <2>2, <2>3 DEF Stages
<1>4. ASSUME Restart PROVE Stages'
  BY <1>4, RestartStep DEF Stages
<1>5. ASSUME NEW q \in requests, NEW new, Turns(q, new), UNCHANGED <<rows, calm>>, Stage(q) => Stage(new)
      PROVE  Stages'
  <2>1. \A p \in requests' : calm => Stage(p)
    BY <1>5 DEF Stages, Turns
  <2> QED BY <1>1, <1>5, <2>1 DEF Stages
<1>6. ASSUME NEW q \in requests, Begin(q) PROVE Stages'
  <2>1. PICK new : Turns(q, new) /\ new.at = "search" /\ new.now = Now(q.who)
    BY <1>6, BeginStep
  <2>2. q.who \in Registrant /\ new.who = q.who
    BY <2>1 DEF TypeInv, Request, Turns
  <2>3. Stage(new)
    BY <2>1, <2>2, NowIsLater DEF Stage
  <2> QED BY <1>5, <1>6, <2>1, <2>3, BeginStep DEF Quiet
<1>7. ASSUME NEW q \in requests, Search(q) PROVE Stages'
  <2>1. PICK new : /\ Turns(q, new) /\ new.at = "clear" /\ new.kind = q.kind /\ new.now = q.now
                   /\ new.found = {x \in Registrant \ {q.who} : Matches(q, rows[x])}
    BY <1>7, SearchStep
  <2>2. q.at = "search" /\ new.who = q.who /\ new.tokens = q.tokens
    BY <1>7, <2>1, SearchStep DEF Turns
  <2>3. Stage(q) => Stage(new)
    BY <2>1, <2>2 DEF Stage, Matches, InTransaction
  <2> QED BY <1>5, <1>7, <2>1, <2>3, SearchStep DEF Quiet
<1>8. ASSUME NEW q \in requests, Clear(q) PROVE Stages'
  <2>1. PICK new : /\ Turns(q, new) /\ new.at = "insert" /\ new.kind = q.kind /\ new.now = q.now
                   /\ new.held = {x \in q.found : Matches(q, rows[x])}
    BY <1>8, ClearStep
  <2>2. q.at = "clear" /\ new.who = q.who /\ new.tokens = q.tokens
    BY <1>8, <2>1, ClearStep DEF Turns
  <2>3. Stage(q) => Stage(new)
    BY <2>1, <2>2 DEF Stage, Matches, InTransaction
  <2> QED BY <1>5, <1>8, <2>1, <2>3, ClearStep DEF Quiet
<1>9. ASSUME NEW q \in requests, Insert(q) PROVE Stages'
  <2>1. PICK new : /\ Turns(q, new) /\ new.at = "rank" /\ new.kind = q.kind /\ new.now = q.now
                   /\ new.held = q.held \cup {q.who}
    BY <1>9, InsertStep
  <2>2. q.at = "insert" /\ new.who = q.who /\ new.tokens = q.tokens
    BY <1>9, <2>1, InsertStep DEF Turns
  <2>3. Stage(q) => Stage(new)
    BY <2>1, <2>2 DEF Stage, Matches, InTransaction
  <2> QED BY <1>5, <1>9, <2>1, <2>3, InsertStep DEF Quiet
<1>10. ASSUME NEW q \in requests, Rank(q) PROVE Stages'
  <2>1. PICK new : /\ Turns(q, new) /\ new.at = "commit" /\ new.kind = q.kind /\ new.now = q.now
                   /\ new.held = q.held /\ new.found = Ranked(q)
    BY <1>10, RankStep
  <2>2. q.at = "rank" /\ new.who = q.who /\ new.tokens = q.tokens
    BY <1>10, <2>1, RankStep DEF Turns
  <2>3. View(new) = View(q)
    BY <2>1, <2>2, AlikeView DEF Alike, Turns
  <2>4. Ranked(new) = Ranked(q)
    BY <2>2, <2>3 DEF Ranked
  <2>5. Stage(q) => Stage(new)
    BY <2>1, <2>2, <2>4 DEF Stage, Matches, InTransaction
  <2> QED BY <1>5, <1>10, <2>1, <2>5, RankStep DEF Quiet
<1>11. ASSUME NEW q \in requests, Commit(q) PROVE Stages'
  <2>1. calm' => requests = {q}
    BY <1>11, CommitStep, CalmCall DEF Quiet
  <2>2. calm' => \A p \in requests' : p.at = "stored"
    BY <1>11, <2>1, CommitStep DEF Turns
  <2> QED BY <2>2 DEF Stages, Stage, InTransaction
<1>12. ASSUME NEW q \in requests, Continue(q) PROVE Stages'
  <2>1. PICK new : Turns(q, new) /\ new.at = "begin"
    BY <1>12, ContinueStep
  <2>2. Stage(new)
    BY <2>1 DEF Stage, InTransaction
  <2> QED BY <1>5, <1>12, <2>1, <2>2, ContinueStep
<1>13. ASSUME NEW q \in requests, Fails(q) PROVE Stages'
  BY <1>13 DEF Fails, Stages
<1>14. ASSUME NEW q \in requests, StoreDisabled(q) PROVE Stages'
  <2>1. calm' => requests = {q}
    BY <1>14, CalmCall DEF StoreDisabled
  <2> QED BY <1>14, <2>1 DEF Stages, StoreDisabled, Answers
<1> QED BY <1>2, <1>3, <1>4, <1>6, <1>7, <1>8, <1>9, <1>10, <1>11, <1>12, <1>13, <1>14 DEF Next

\* When every stored row is loaded, no user has more of them than the limit.
LEMMA LoadedFit ==
  ASSUME TypeInv, SeenInv, NEW k \in Kind, NEW order \in Order, NEW r \in Registrant,
         Loaded(k, order) = Stored(k)
  PROVE  Cardinality(Stored(k) \cap OfUser(r)) <= MaxDevices
<1> DEFINE S == Stored(k) \cap OfUser(r)
           before == {y \in S : \E z \in S : order[z] > order[y]}
           seen == [x \in Registrant |-> rows[x].seen]
<1>1. S \subseteq Registrant /\ S \subseteq OfUser(r) /\ IsFiniteSet(S)
  BY OfUserFinite, FS_Subset
<1>2. ASSUME NEW x \in before
      PROVE  Cardinality({y \in before : rows[y].seen > rows[x].seen}) < MaxDevices - 1
  <2>1. OfUser(x) = OfUser(r) /\ x \in Stored(k) /\ x \in Loaded(k, order)
    BY DEF OfUser
  <2>2. Stored(k) \cap OfUser(x) = S
    BY <2>1
  <2> HIDE DEF S
  <2>3. LET b == {y \in S : \E z \in S : order[z] > order[y]}
        IN  x \in b => Cardinality({y \in b : rows[y].seen > rows[x].seen}) < MaxDevices - 1
    BY <2>1, <2>2 DEF Loaded
  <2> QED BY <2>3
<1>3. \A x \in Registrant : seen[x] = rows[x].seen /\ seen[x] \in Nat
  BY DEF TypeInv, Row
<1>4. before \in SUBSET S /\ before \subseteq Registrant /\ IsFiniteSet(before)
  BY <1>1, FS_Subset
<1>5. \A x, y \in before : seen[x] = seen[y] => x = y
  <2> SUFFICES ASSUME NEW x \in before, NEW y \in before, seen[x] = seen[y] PROVE x = y
    OBVIOUS
  <2>1. x \in Registrant /\ y \in OfUser(x) /\ rows[x].enabled /\ y \in Registrant
    BY <1>1 DEF OfUser, Stored
  <2>2. rows[x].seen = rows[y].seen
    BY <1>3, <2>1
  <2> HIDE DEF before, seen
  <2> QED BY <2>1, <2>2 DEF SeenInv
<1>6. Cardinality(before) <= MaxDevices - 1 /\ Cardinality(before) \in Nat
  <2>1. Cardinality(before) \in Nat
    BY <1>4, FS_CardinalityType
  <2>2. CASE before = {}
    BY <2>2, FS_EmptySet, MapsAssumption
  <2>3. CASE before # {}
    <3>1. ASSUME NEW x \in before
          PROVE  /\ {y \in before : seen[y] > seen[x]} = {y \in before : rows[y].seen > rows[x].seen}
                 /\ Cardinality({y \in before : seen[y] > seen[x]}) \in Nat
                 /\ Cardinality({y \in before : seen[y] > seen[x]}) < MaxDevices - 1
      <4>1. {y \in before : seen[y] > seen[x]} = {y \in before : rows[y].seen > rows[x].seen}
        BY <1>3, <1>4
      <4> DEFINE later == {y \in before : seen[y] > seen[x]}
      <4>2. later \subseteq before
        OBVIOUS
      <4>3. Cardinality(later) < MaxDevices - 1
        BY <1>2, <4>1
      <4> HIDE DEF before, later
      <4>4. Cardinality(later) \in Nat
        BY <1>4, <4>2, FS_Subset, FS_CardinalityType
      <4> QED BY <4>1, <4>3, <4>4 DEF later
    <3> DEFINE M == MaxDevices - 1
    <3> HIDE DEF before, seen
    <3>2. PICK b \in before : TRUE
      BY <2>3
    <3> DEFINE n == Cardinality({y \in before : seen[y] > seen[b]})
    <3>3. n \in Nat /\ n < M
      BY <3>1, <3>2
    <3> HIDE DEF n
    <3>4. M \in Nat \ {0}
      BY <3>3, MapsAssumption
    <3>5. \A x \in before : ~(Cardinality({y \in before : seen[y] > seen[x]}) >= M)
      BY <3>1, <3>4
    <3>6. \A x \in before : seen[x] \in Nat
      BY <1>3, <1>4
    <3>7. before \in SUBSET before /\ IsFiniteSet(before)
      BY <1>4
    <3> HIDE DEF M
    <3>8. Cardinality(before) <= M
      BY <1>5, <3>4, <3>5, <3>6, <3>7, FewStay
    <3> QED BY <2>1, <3>8 DEF M
  <2> QED BY <2>2, <2>3
<1>7. CASE S = {}
  BY <1>7, FS_EmptySet, MapsAssumption
<1>8. CASE S # {}
  <2> DEFINE P == {order[y] : y \in S}
  <2>1. \A y \in Registrant : order[y] \in Nat
    BY RegistryAssumption
  <2>2. P \in SUBSET Nat /\ P # {} /\ IsFiniteSet(P)
    BY <1>1, <1>8, <2>1, ImageFinite
  <2>3. PICK top \in P : \A y \in P : top >= y
    BY <2>2, Greatest
  <2>4. PICK z \in S : order[z] = top
    BY <2>3
  <2>5. ASSUME NEW y \in S, y # z PROVE y \in before
    <3>1. y \in Registrant /\ z \in Registrant /\ y[1] = z[1]
      BY <1>1 DEF OfUser
    <3>2. order[y] # order[z]
      BY <2>5, <3>1, RegistryAssumption
    <3>3. order[z] >= order[y] /\ order[z] \in Nat /\ order[y] \in Nat
      BY <2>1, <2>3, <2>4, <3>1
    <3> QED BY <3>2, <3>3
  <2> HIDE DEF S, before
  <2>6. S \subseteq before \cup {z}
    BY <2>5
  <2>7. IsFiniteSet(before \cup {z}) /\ Cardinality(before \cup {z}) <= Cardinality(before) + 1
        /\ Cardinality(before \cup {z}) \in Nat
    <3>1. /\ IsFiniteSet(before \cup {z})
          /\ \/ Cardinality(before \cup {z}) = Cardinality(before)
             \/ Cardinality(before \cup {z}) = Cardinality(before) + 1
      BY <1>4, FS_AddElement
    <3>2. Cardinality(before \cup {z}) \in Nat
      BY <3>1, FS_CardinalityType
    <3> QED BY <1>6, <3>1, <3>2
  <2>8. Cardinality(S) <= Cardinality(before \cup {z}) /\ Cardinality(S) \in Nat
    BY <1>1, <2>6, <2>7, FS_Subset, FS_CardinalityType
  <2> QED BY <1>6, <2>7, <2>8, MapsAssumption DEF S
<1> QED BY <1>7, <1>8

---------------------------------------------------------------------------
(* The order of a user's devices. *)

\* No call is storing the device's message token.
Settled(x) == \A q \in requests : q.who = x => ~Tells(q)

\* Of two devices of a user, of which x is in memory: the other is there too if
\* its row is enabled and was seen later, and then memory has them in the order
\* of their rows.
Ordered(x, y) ==
  /\ rows[y].enabled /\ rows[y].seen > rows[x].seen => devices["message"][y].known
  /\ devices["message"][y].known =>
       (devices["message"][x].seen < devices["message"][y].seen <=> rows[x].seen < rows[y].seen)

\* The device of the call that is under way was seen last.
Latest(q) ==
  /\ devices["message"][q.who].known /\ devices["message"][q.who].enabled
  /\ \A x \in OfUser(q.who) \ {q.who} :
       /\ devices["message"][x].known => devices["message"][x].seen < devices["message"][q.who].seen
       /\ ~Tells(q) => rows[x].seen < rows[q.who].seen

OrderInv ==
  calm =>
    /\ \A r \in Registrant : Cardinality(KnownIn("message", r)) <= MaxDevices
    /\ \A x \in Registrant : devices["message"][x].known /\ Settled(x) =>
         \A y \in OfUser(x) : Settled(y) => Ordered(x, y)
    /\ \A q \in requests : q.at # "disable" => Latest(q)

\* The order stays when memory and the rows keep theirs.
LEMMA OrderSame ==
  ASSUME OrderInv, calm' => calm,
         \A x \in Registrant :
           /\ devices'["message"][x].known = devices["message"][x].known
           /\ devices'["message"][x].seen = devices["message"][x].seen
           /\ rows'[x].seen = rows[x].seen
           /\ rows'[x].enabled => rows[x].enabled,
         calm' => \A p \in requests' : p.at # "disable" =>
           /\ p.who \in Registrant
           /\ devices["message"][p.who].enabled => devices'["message"][p.who].enabled
           /\ \E q \in requests : q.at # "disable" /\ q.who = p.who /\ (Tells(q) <=> Tells(p)),
         calm' => \A q \in requests : Tells(q) => \E p \in requests' : p.who = q.who /\ Tells(p)
  PROVE  OrderInv'
<1> SUFFICES ASSUME calm' PROVE
    /\ \A r \in Registrant : Cardinality(KnownIn("message", r)') <= MaxDevices
    /\ \A x \in Registrant : devices'["message"][x].known /\ Settled(x)' =>
         \A y \in OfUser(x) : Settled(y)' => Ordered(x, y)'
    /\ \A q \in requests' : q.at # "disable" => Latest(q)'
  BY DEF OrderInv
<1>1. ASSUME NEW r \in Registrant PROVE Cardinality(KnownIn("message", r)') <= MaxDevices
  <2>1. KnownIn("message", r)' = KnownIn("message", r)
    BY DEF KnownIn, OfUser
  <2> QED BY <2>1 DEF OrderInv
<1>2. ASSUME NEW x \in Registrant PROVE Settled(x)' => Settled(x)
  BY DEF Settled, Tells
<1>3. ASSUME NEW x \in Registrant, devices'["message"][x].known, Settled(x)',
             NEW y \in OfUser(x), Settled(y)'
      PROVE  Ordered(x, y)'
  <2>1. y \in Registrant
    BY DEF OfUser
  <2>2. Settled(x) /\ Settled(y)
    BY <1>2, <1>3, <2>1
  <2>3. Ordered(x, y)
    BY <1>3, <2>2 DEF OrderInv
  <2> QED BY <2>1, <2>3 DEF Ordered
<1>4. ASSUME NEW p \in requests', p.at # "disable" PROVE Latest(p)'
  <2>1. PICK q \in requests : q.at # "disable" /\ q.who = p.who /\ (Tells(q) <=> Tells(p))
    BY <1>4
  <2>2. Latest(q)
    BY <2>1 DEF OrderInv
  <2>3. p.who \in Registrant /\ (devices["message"][p.who].enabled => devices'["message"][p.who].enabled)
    BY <1>4
  <2>4. \A x \in OfUser(p.who) : x \in Registrant
    BY DEF OfUser
  <2> QED BY <2>1, <2>2, <2>3, <2>4 DEF Latest, Tells
<1> QED BY <1>1, <1>3, <1>4

\* A registration that evicts the device seen longest ago keeps the order.
LEMMA OrderRegister ==
  ASSUME TypeInv, RequestsInv, CalmAlone, OrderInv, NEW g \in Registration,
         Register(g[1], g[2], g[3])
  PROVE  OrderInv'
<1> DEFINE r == g[1]
<1> SUFFICES ASSUME calm' PROVE
    /\ \A u \in Registrant : Cardinality(KnownIn("message", u)') <= MaxDevices
    /\ \A x \in Registrant : devices'["message"][x].known /\ Settled(x)' =>
         \A y \in OfUser(x) : Settled(y)' => Ordered(x, y)'
    /\ \A q \in requests' : q.at # "disable" => Latest(q)'
  BY DEF OrderInv
<1>1. /\ r \in Registrant /\ UNCHANGED rows
      /\ calm' = (calm /\ requests = {})
  BY RegisterStep
<1>2. calm /\ requests = {}
  BY <1>1
<1>3. PICK new : /\ requests' = requests \cup {new} /\ new.at = "begin" /\ new.kind = "message"
                 /\ new.who = r
  BY RegisterStep
<1>4. requests' = {new} /\ Tells(new)
  BY <1>2, <1>3 DEF Tells
<1>5. PICK e : Registered("message", r, g[2], e)
  BY RegisterStep
<1>6. /\ e = Nobody \/ (e \in KnownIn("message", r) \ {r} /\ devices'["message"][e] = Unknown)
      /\ devices["message"][r].known \/ Cardinality(KnownIn("message", r)) < MaxDevices <=> e = Nobody
  BY <1>5, MapsAssumption DEF Registered, KnownIn, OfUser
<1>7. ASSUME NEW x \in Registrant, x # r
      PROVE  /\ devices'["message"][x].known <=> devices["message"][x].known /\ x # e
             /\ devices'["message"][x].known => devices'["message"][x].seen = devices["message"][x].seen
  <2>1. CASE x = e
    BY <1>6, <1>7, <2>1, MapsAssumption DEF Unknown
  <2>2. CASE x # e
    BY <1>5, <1>7, <2>2 DEF Registered
  <2> QED BY <2>1, <2>2
<1>8. devices'["message"][r].known /\ devices'["message"][r].enabled
      /\ \A x \in OfUser(r) : devices["message"][x].seen < devices'["message"][r].seen
  BY <1>5 DEF Registered
<1>9. ASSUME NEW u \in Registrant PROVE Cardinality(KnownIn("message", u)') <= MaxDevices
  <2> DEFINE old == KnownIn("message", u)
             now == KnownIn("message", u)'
  <2>1. IsFiniteSet(old) /\ Cardinality(old) \in Nat /\ Cardinality(old) <= MaxDevices
        /\ MaxDevices \in Nat
    <3>1. old \subseteq OfUser(u)
      BY DEF KnownIn
    <3> QED BY <1>2, <3>1, OfUserFinite, FS_Subset, FS_CardinalityType, MapsAssumption DEF OrderInv
  <2>2. CASE u[1] # r[1]
    <3>1. now \subseteq old
      BY <1>7, <2>2 DEF KnownIn, OfUser
    <3> HIDE DEF now, old
    <3>2. Cardinality(now) \in Nat /\ Cardinality(now) <= Cardinality(old)
      BY <2>1, <3>1, FS_Subset, FS_CardinalityType
    <3> QED BY <2>1, <3>2 DEF now
  <2>3. CASE u[1] = r[1]
    <3>1. old = KnownIn("message", r) /\ now = (old \ {e}) \cup {r}
      BY <1>1, <1>6, <1>7, <1>8, <2>3 DEF KnownIn, OfUser
    <3> HIDE DEF now
    <3>2. CASE e = Nobody /\ devices["message"][r].known
      <4>1. now \subseteq old
        BY <1>1, <3>1, <3>2, OfUserFinite DEF KnownIn
      <4> HIDE DEF old
      <4>2. Cardinality(now) \in Nat /\ Cardinality(now) <= Cardinality(old)
        BY <2>1, <4>1, FS_Subset, FS_CardinalityType
      <4> QED BY <2>1, <4>2 DEF now
    <3>3. CASE e = Nobody /\ ~devices["message"][r].known
      <4>1. Cardinality(old) < MaxDevices
        BY <1>6, <3>1, <3>3
      <4>2. now = old \cup {r}
        <5>1. Nobody \notin old
          BY MapsAssumption DEF KnownIn, OfUser
        <5> QED BY <3>1, <3>3, <5>1
      <4> HIDE DEF old
      <4>3. Cardinality(now) = Cardinality(old) \/ Cardinality(now) = Cardinality(old) + 1
        BY <2>1, <4>2, FS_AddElement
      <4>4. Cardinality(now) <= MaxDevices
        BY <2>1, <4>1, <4>3
      <4> QED BY <4>4 DEF now
    <3>4. CASE e # Nobody
      <4>1. e \in old
        BY <1>6, <3>1, <3>4
      <4> DEFINE rest == old \ {e}
      <4> HIDE DEF old
      <4>2. IsFiniteSet(rest) /\ Cardinality(rest) = Cardinality(old) - 1
        BY <2>1, <4>1, FS_RemoveElement
      <4>3. now = rest \cup {r}
        BY <3>1
      <4> HIDE DEF rest
      <4>4. Cardinality(now) = Cardinality(rest) \/ Cardinality(now) = Cardinality(rest) + 1
        BY <4>2, <4>3, FS_AddElement
      <4>5. Cardinality(now) <= MaxDevices
        BY <2>1, <4>2, <4>4
      <4> QED BY <4>5 DEF now
    <3> QED BY <1>6, <3>2, <3>3, <3>4
  <2> QED BY <2>2, <2>3
<1>10. ASSUME NEW x \in Registrant, devices'["message"][x].known, Settled(x)',
              NEW y \in OfUser(x), Settled(y)'
       PROVE  Ordered(x, y)'
  <2>1. x # r /\ y # r /\ y \in Registrant
    BY <1>3, <1>4, <1>10 DEF Settled, Tells, OfUser
  <2>2. devices["message"][x].known /\ x # e
        /\ devices'["message"][x].seen = devices["message"][x].seen
    BY <1>7, <1>10, <2>1
  <2>3. Ordered(x, y)
    BY <1>2, <2>1, <2>2 DEF OrderInv, Settled
  <2>4. CASE y # e
    <3>1. /\ devices'["message"][y].known <=> devices["message"][y].known
          /\ devices'["message"][y].known => devices'["message"][y].seen = devices["message"][y].seen
      BY <1>7, <2>1, <2>4
    <3> QED BY <1>1, <2>2, <2>3, <3>1 DEF Ordered
  <2>5. CASE y = e
    <3>1. e \in KnownIn("message", r) /\ ~devices'["message"][y].known
      BY <1>6, <2>1, <2>5, MapsAssumption DEF Unknown
    <3>2. x \in KnownIn("message", r)
      BY <2>2, <2>5, <3>1 DEF KnownIn, OfUser
    <3>3. devices["message"][e].seen <= devices["message"][x].seen
      BY <1>5, <1>6, <2>1, <2>5, <3>2, MapsAssumption DEF Registered
    <3>4. devices["message"][e].seen \in Nat /\ devices["message"][x].seen \in Nat
      BY <2>1, <2>5 DEF TypeInv, Device, Kind
    <3>5. ~(rows[y].seen > rows[x].seen)
      <4>1. rows[y].seen \in Nat /\ rows[x].seen \in Nat
        BY <2>1 DEF TypeInv, Row
      <4> QED BY <2>3, <2>5, <3>1, <3>3, <3>4, <4>1 DEF Ordered, KnownIn
    <3> QED BY <1>1, <3>1, <3>5 DEF Ordered
  <2> QED BY <2>4, <2>5
<1>11. Latest(new)'
  <2>1. ASSUME NEW x \in OfUser(r) \ {r}, devices'["message"][x].known
        PROVE  devices'["message"][x].seen < devices'["message"][r].seen
    BY <1>7, <1>8, <2>1 DEF OfUser
  <2> QED BY <1>3, <1>4, <1>8, <2>1 DEF Latest, Tells
<1> QED BY <1>4, <1>9, <1>10, <1>11

\* A commit puts its device last in the table, as it is in memory.
LEMMA OrderCommit ==
  ASSUME TypeInv, RequestsInv, CalmAlone, Stages, OrderInv, NEW q \in requests, Commit(q)
  PROVE  OrderInv'
<1> SUFFICES ASSUME calm' PROVE
    /\ \A u \in Registrant : Cardinality(KnownIn("message", u)') <= MaxDevices
    /\ \A x \in Registrant : devices'["message"][x].known /\ Settled(x)' =>
         \A y \in OfUser(x) : Settled(y)' => Ordered(x, y)'
    /\ \A p \in requests' : p.at # "disable" => Latest(p)'
  BY DEF OrderInv
<1>1. q.at = "commit" /\ UNCHANGED devices /\ calm
  BY CommitStep DEF Quiet
<1>2. requests = {q} /\ q.who \in Registrant
  BY <1>1, CalmCall DEF TypeInv, Request
<1>3. Latest(q) /\ Stage(q)
  BY <1>1 DEF OrderInv, Stages
<1>4. /\ rows'[q.who].seen = q.now /\ q.now \in Nat
      /\ \A x \in Registrant \ {q.who} :
           rows'[x].seen = rows[x].seen /\ (rows'[x].enabled => rows[x].enabled)
  BY CommitOthers
<1>5. \A x \in OfUser(q.who) \ {q.who} :
        /\ rows'[x].seen < q.now /\ rows'[x].seen \in Nat
        /\ devices["message"][x].known => devices["message"][x].seen < devices["message"][q.who].seen
        /\ devices["message"][x].seen \in Nat
  BY <1>1, <1>3, <1>4 DEF Stage, InTransaction, Latest, OfUser, TypeInv, Row, Device, Kind
<1>6. devices["message"][q.who].known /\ devices["message"][q.who].enabled
      /\ devices["message"][q.who].seen \in Nat
  BY <1>2, <1>3 DEF Latest, TypeInv, Device, Kind
<1>7. \A u \in Registrant : Cardinality(KnownIn("message", u)') <= MaxDevices
  BY <1>1 DEF OrderInv, KnownIn
<1>8. ASSUME NEW x \in Registrant, devices["message"][x].known, NEW y \in OfUser(x)
      PROVE  Ordered(x, y)'
  <2>1. y \in Registrant /\ y[1] = x[1]
    BY DEF OfUser
  <2>2. CASE x = q.who /\ y = q.who
    BY <1>1, <1>4, <1>6, <2>2 DEF Ordered
  <2>3. CASE x = q.who /\ y # q.who
    <3>1. y \in OfUser(q.who) \ {q.who}
      BY <2>3
    <3> QED BY <1>1, <1>4, <1>5, <1>6, <2>3, <3>1 DEF Ordered
  <2>4. CASE x # q.who /\ y = q.who
    <3>1. x \in OfUser(q.who) \ {q.who}
      BY <2>1, <2>4 DEF OfUser
    <3> QED BY <1>1, <1>4, <1>5, <1>6, <1>8, <2>4, <3>1 DEF Ordered
  <2>5. CASE x # q.who /\ y # q.who
    <3>1. Ordered(x, y)
      BY <1>1, <1>2, <1>8, <2>5 DEF OrderInv, Settled
    <3> QED BY <1>1, <1>4, <2>1, <2>5, <3>1 DEF Ordered
  <2> QED BY <2>2, <2>3, <2>4, <2>5
<1>9. ASSUME NEW p \in requests' PROVE Latest(p)'
  <2>1. p.who = q.who
    BY <1>2, CommitStep DEF Turns
  <2> QED BY <1>1, <1>4, <1>5, <1>6, <2>1 DEF Latest
<1> QED BY <1>1, <1>7, <1>8, <1>9

\* A start that loads every stored row loads them in their order.
LEMMA OrderRestart ==
  ASSUME TypeInv, SeenInv, HaveTokens, Restart
  PROVE  OrderInv'
<1> SUFFICES ASSUME calm' PROVE
    /\ \A u \in Registrant : Cardinality(KnownIn("message", u)') <= MaxDevices
    /\ \A x \in Registrant : devices'["message"][x].known /\ Settled(x)' =>
         \A y \in OfUser(x) : Settled(y)' => Ordered(x, y)'
    /\ \A q \in requests' : q.at # "disable" => Latest(q)'
  BY DEF OrderInv
<1>1. PICK order \in Order : LET loaded == [k \in Kind |-> Loaded(k, order)] IN
        Starts(loaded) /\ calm' = \A k \in Kind : loaded[k] = Stored(k)
  BY RestartStep
<1>2. Loaded("message", order) = Stored("message")
  BY <1>1 DEF Kind
<1>3. requests' = {} /\ UNCHANGED rows
  BY RestartStep
<1>4. ASSUME NEW x \in Registrant
      PROVE  /\ devices'["message"][x].known <=> x \in Stored("message")
             /\ x \in Stored("message") => devices'["message"][x].seen = rows[x].seen
  BY <1>1, <1>2 DEF Starts, Unknown, Kind
<1>5. ASSUME NEW u \in Registrant PROVE Cardinality(KnownIn("message", u)') <= MaxDevices
  <2>1. KnownIn("message", u)' = Stored("message") \cap OfUser(u)
    BY <1>4 DEF KnownIn, OfUser
  <2>2. Cardinality(Stored("message") \cap OfUser(u)) <= MaxDevices
    BY <1>2, LoadedFit DEF Kind
  <2> QED BY <2>1, <2>2
<1>6. ASSUME NEW x \in Registrant, devices'["message"][x].known, NEW y \in OfUser(x)
      PROVE  Ordered(x, y)'
  <2>1. y \in Registrant
    BY DEF OfUser
  <2>2. rows[y].enabled => y \in Stored("message")
    BY <2>1, MapsAssumption DEF HaveTokens, Stored
  <2> QED BY <1>3, <1>4, <1>6, <2>1, <2>2 DEF Ordered
<1> QED BY <1>3, <1>5, <1>6

\* Every step keeps the order.
LEMMA OrderNext ==
  ASSUME TypeInv, RequestsInv, SeenInv, HaveTokens, CalmAlone, Stages, OrderInv, Next
  PROVE  OrderInv'
<1>1. ASSUME NEW g \in Registration, Register(g[1], g[2], g[3]) PROVE OrderInv'
  BY <1>1, OrderRegister
<1>2. ASSUME NEW kind \in Kind, NEW r \in Registrant, NEW t \in Token, Unregister(kind, r, t)
      PROVE  OrderInv'
  <2>1. Unregistered(kind, r, t) /\ UNCHANGED rows /\ calm' = (calm /\ requests = {})
    BY <1>2, UnregisterStep
  <2>2. \A p \in requests' : p \in requests \/ p.at = "disable"
    BY <1>2, UnregisterStep
  <2>3. \A x \in Registrant :
           /\ devices'["message"][x].known = devices["message"][x].known
           /\ devices'["message"][x].seen = devices["message"][x].seen
    BY <2>1 DEF Unregistered, Kind
  <2>4. calm' => \A p \in requests' : p.at = "disable"
    BY <2>1, <2>2
  <2> QED BY <2>1, <2>3, <2>4, OrderSame
<1>3. ASSUME Restart PROVE OrderInv'
  BY <1>3, OrderRestart
<1>4. ASSUME NEW q \in requests, Begin(q) \/ Search(q) \/ Clear(q) \/ Insert(q) \/ Rank(q)
      PROVE  OrderInv'
  <2>1. PICK new : Turns(q, new) /\ new.kind = q.kind /\ new.at \in InTransaction
    BY <1>4, BeginStep, SearchStep, ClearStep, InsertStep, RankStep DEF InTransaction
  <2>2. q.at \in {"begin"} \cup InTransaction /\ q.at # "disable"
    BY <1>4, BeginStep, SearchStep, ClearStep, InsertStep, RankStep DEF InTransaction
  <2>3. UNCHANGED <<rows, devices, calm>>
    BY <1>4, BeginStep, SearchStep, ClearStep, InsertStep, RankStep DEF Quiet
  <2>4. requests' = (requests \ {q}) \cup {new} /\ new.who = q.who /\ (Tells(new) <=> Tells(q))
    BY <2>1, <2>2 DEF Turns, Tells
  <2>5. \A p \in requests' : p.at # "disable" =>
          \E o \in requests : o.at # "disable" /\ o.who = p.who /\ (Tells(o) <=> Tells(p))
    BY <2>2, <2>4
  <2>6. \A o \in requests : Tells(o) => \E p \in requests' : p.who = o.who /\ Tells(p)
    BY <2>4
  <2>7. \A p \in requests' : p.who \in Registrant
    BY <2>4 DEF TypeInv, Request
  <2> QED BY <2>3, <2>5, <2>6, <2>7, OrderSame
<1>5. ASSUME NEW q \in requests, Commit(q) PROVE OrderInv'
  BY <1>5, OrderCommit
<1>6. ASSUME NEW q \in requests, Continue(q) PROVE OrderInv'
  <2>1. PICK new : Turns(q, new) /\ new.kind = "voip"
    BY <1>6, ContinueStep
  <2>2. q.at = "stored" /\ UNCHANGED <<rows, calm>>
    BY <1>6, ContinueStep
  <2>3. q.who \in Registrant
    BY DEF TypeInv, Request
  <2>4. PICK e : Registered("voip", q.who, q.tokens["voip"], e)
    BY <1>6, <2>3, ContinueStep, RegisterDevices DEF Kind
  <2>5. devices'["message"] = devices["message"]
    BY <2>4 DEF Registered, Kind
  <2>6. requests' = (requests \ {q}) \cup {new} /\ new.who = q.who /\ ~Tells(new) /\ ~Tells(q)
    BY <2>1, <2>2 DEF Turns, Tells, InTransaction
  <2>7. \A p \in requests' : p.at # "disable" =>
          \E o \in requests : o.at # "disable" /\ o.who = p.who /\ (Tells(o) <=> Tells(p))
    BY <2>2, <2>6
  <2>8. \A o \in requests : Tells(o) => \E p \in requests' : p.who = o.who /\ Tells(p)
    BY <2>6
  <2>9. \A p \in requests' : p.who \in Registrant
    BY <2>6 DEF TypeInv, Request
  <2> QED BY <2>2, <2>5, <2>7, <2>8, <2>9, OrderSame
<1>7. ASSUME NEW q \in requests, Fails(q) PROVE OrderInv'
  BY <1>7 DEF Fails, OrderInv
<1>8. ASSUME NEW q \in requests, StoreDisabled(q) PROVE OrderInv'
  <2>1. requests' = requests \ {q} /\ UNCHANGED <<devices, calm>> /\ q.at = "disable"
    BY <1>8 DEF StoreDisabled, Answers
  <2>2. calm' => requests = {q}
    BY <2>1, CalmCall
  <2>3. \A x \in Registrant : rows'[x].seen = rows[x].seen /\ (rows'[x].enabled => rows[x].enabled)
    BY <1>8, StoreDisabledOthers
  <2>4. ~Tells(q)
    BY <2>1 DEF Tells, InTransaction
  <2> QED BY <2>1, <2>2, <2>3, <2>4, OrderSame
<1> QED BY <1>1, <1>2, <1>3, <1>4, <1>5, <1>6, <1>7, <1>8 DEF Next

---------------------------------------------------------------------------
(* Memory and the table. *)

\* A calm commit disables no device of the user that memory has: those that
\* were seen later are in memory too, and memory has no more than the limit.
LEMMA RankedKnown ==
  ASSUME TypeInv, RequestsInv, CalmAlone, Stages, OrderInv, calm,
         NEW q \in requests, q.at = "commit",
         NEW x \in Registrant, devices["message"][x].known
  PROVE  x \notin q.found
<1>1. requests = {q} /\ q.who \in Registrant /\ q.kind \in Kind /\ q \in Request
  BY CalmCall DEF TypeInv, Request
<1>2. Stage(q) /\ Latest(q) /\ Proper(q) /\ q.who \in q.held /\ q.now \in Nat
  BY <1>1 DEF Stages, OrderInv, RequestsInv, Proper, Request
<1> DEFINE enabled == {y \in OfUser(q.who) : View(q)[y].enabled}
           later == {y \in enabled : View(q)[y].seen > View(q)[x].seen}
<1> SUFFICES ASSUME x \in OfUser(q.who) PROVE ~(Cardinality(later) >= MaxDevices)
  BY <1>2 DEF Stage, Ranked
<1>3. View(q)[q.who].seen = q.now
  BY <1>1, <1>2, ViewIs, InsertedIs DEF Proper
<1>4. ASSUME NEW y \in OfUser(q.who), y # q.who
      PROVE  /\ View(q)[y].enabled => rows[y].enabled
             /\ View(q)[y].seen = rows[y].seen /\ rows[y].seen \in Nat /\ rows[y].seen < q.now
  <2>1. y \in Registrant /\ rows[y] \in Row
    BY DEF OfUser, TypeInv
  <2>2. Struck(q.kind, rows[y]).seen = rows[y].seen
        /\ (Struck(q.kind, rows[y]).enabled => rows[y].enabled)
    BY <1>1, <2>1, StruckIs DEF Kind
  <2>3. View(q)[y] = rows[y] \/ View(q)[y] = Struck(q.kind, rows[y])
    BY <1>4, <2>1, ViewIs
  <2>4. rows[y].seen \in Nat /\ rows[y].seen < q.now
    BY <1>2, <2>1 DEF Stage, InTransaction, Row
  <2> QED BY <2>2, <2>3, <2>4
<1>5. CASE x = q.who
  <2>1. later = {}
    BY <1>2, <1>3, <1>4, <1>5
  <2>2. Cardinality(later) = 0
    BY <2>1, FS_EmptySet
  <2> HIDE DEF later
  <2> QED BY <2>2, MapsAssumption
<1>6. CASE x # q.who
  <2> DEFINE known == KnownIn("message", q.who)
  <2>1. IsFiniteSet(known) /\ Cardinality(known) \in Nat /\ Cardinality(known) <= MaxDevices
        /\ x \in known
    <3>1. known \subseteq OfUser(q.who)
      BY DEF KnownIn
    <3>2. IsFiniteSet(known) /\ Cardinality(known) \in Nat
      BY <1>1, <3>1, OfUserFinite, FS_Subset, FS_CardinalityType
    <3> QED BY <1>1, <3>2 DEF OrderInv, KnownIn
  <2>2. ASSUME NEW y \in later PROVE y \in known \ {x}
    <3>1. y # x /\ y \in Registrant /\ y \in OfUser(q.who) /\ y \in OfUser(x)
      BY <1>3, <1>4, <1>6 DEF OfUser
    <3>2. CASE y = q.who
      BY <1>2, <3>1, <3>2 DEF Latest, KnownIn
    <3>3. CASE y # q.who
      <4>1. rows[y].enabled /\ rows[y].seen > rows[x].seen
        BY <1>4, <1>6, <3>1, <3>3
      <4>2. Settled(x) /\ Settled(y)
        BY <1>1, <1>6, <3>3 DEF Settled
      <4>3. Ordered(x, y)
        BY <3>1, <4>2 DEF OrderInv
      <4> QED BY <3>1, <4>1, <4>3 DEF Ordered, KnownIn
    <3> QED BY <3>2, <3>3
  <2> DEFINE rest == known \ {x}
  <2> HIDE DEF known, later
  <2>3. IsFiniteSet(rest) /\ Cardinality(rest) = Cardinality(known) - 1
    BY <2>1, FS_RemoveElement
  <2>4. later \subseteq rest
    BY <2>2
  <2> HIDE DEF rest
  <2>5. Cardinality(later) \in Nat /\ Cardinality(later) <= Cardinality(rest)
    BY <2>3, <2>4, FS_Subset, FS_CardinalityType
  <2> QED BY <2>1, <2>3, <2>5, MapsAssumption
<1> QED BY <1>5, <1>6

\* A call that is changing the message device, or is about to store it.
OfMessage(q, x) == q.who = x /\ (Tells(q) \/ (q.at = "disable" /\ q.kind = "message"))

\* While calm, a message device is enabled if its row is, but for the device of
\* a call that has not got to the row and those whose token a call is taking.
MessageAgrees ==
  calm => \A x \in Registrant : Remembered("message", x) =>
    \/ \E q \in requests : OfMessage(q, x)
    \/ devices["message"][x].enabled <=>
         rows[x].enabled /\ ~\E q \in requests : Tells(q) /\ Matches(q, rows[x])

\* A registration takes the token from the device that has it.
LEMMA MessageRegister ==
  ASSUME TypeInv, RequestsInv, CalmAlone, MemoryInv, TokensInv, MessageAgrees,
         NEW g \in Registration, Register(g[1], g[2], g[3])
  PROVE  MessageAgrees'
<1> DEFINE r == g[1]
           t == g[2]
<1> SUFFICES ASSUME calm', NEW x \in Registrant, Remembered("message", x)'
             PROVE  \/ \E q \in requests' : OfMessage(q, x)
                    \/ devices'["message"][x].enabled <=>
                         rows[x].enabled /\ ~\E q \in requests' : Tells(q) /\ Matches(q, rows[x])
  <2>1. UNCHANGED rows
    BY RegisterStep
  <2> QED BY <2>1 DEF MessageAgrees, OfMessage, Tells, Matches
<1>1. /\ r \in Registrant /\ t \in Token /\ calm /\ requests = {} /\ mixed = {}
      /\ orphaned' = orphaned \cup Orphans("message")
  BY RegisterStep DEF CalmAlone
<1>2. PICK new : /\ requests' = requests \cup {new} /\ new.at = "begin" /\ new.kind = "message"
                 /\ new.who = r /\ new.tokens["message"] = t
  BY RegisterStep
<1>3. PICK e : Registered("message", r, t, e)
  BY RegisterStep
<1>4. CASE x = r
  BY <1>2, <1>4 DEF OfMessage, Tells
<1>5. CASE x # r
  <2>1. x # e
    BY <1>3, <1>5, MapsAssumption DEF Registered, Remembered, Unknown
  <2>2. /\ devices'["message"][x].known = devices["message"][x].known
        /\ devices'["message"][x].token = devices["message"][x].token
        /\ devices'["message"][x].enabled =
             (devices["message"][x].enabled
               /\ ~(x = owner["message"][t] /\ devices["message"][x].known
                      /\ devices["message"][x].token = t))
    BY <1>3, <1>5, <2>1 DEF Registered
  <2>3. Remembered("message", x)
    BY <1>1, <2>2 DEF Remembered
  <2>4. devices["message"][x].enabled <=> rows[x].enabled
    BY <1>1, <2>3 DEF MessageAgrees
  <2>5. devices["message"][x].token = rows[x].message
    BY <1>1, <2>3 DEF TokensInv, Remembered
  <2>6. devices["message"][x].enabled /\ devices["message"][x].token = t => owner["message"][t] = x
    BY <2>3 DEF MemoryInv, Remembered, Kind
  <2>7. (\E q \in requests' : Tells(q) /\ Matches(q, rows[x])) <=> rows[x].message = t
    BY <1>1, <1>2 DEF Tells, Matches
  <2>8. devices["message"][x].known
    BY <2>3 DEF Remembered
  <2>9. devices'["message"][x].enabled <=>
          devices["message"][x].enabled /\ devices["message"][x].token # t
    BY <2>2, <2>6, <2>8
  <2> QED BY <2>4, <2>5, <2>7, <2>9
<1> QED BY <1>4, <1>5

\* A commit makes the row what memory already is.
LEMMA MessageCommit ==
  ASSUME TypeInv, RequestsInv, CalmAlone, Stages, OrderInv, MessageAgrees,
         NEW q \in requests, Commit(q)
  PROVE  MessageAgrees'
<1>1. q.at = "commit" /\ UNCHANGED <<devices, calm, orphaned>>
  BY CommitStep DEF Quiet
<1> SUFFICES ASSUME calm, NEW x \in Registrant, Remembered("message", x)
             PROVE  devices["message"][x].enabled <=> rows'[x].enabled
  <2>1. \A p \in requests' : p \in requests \ {q} \/ p.at = "stored"
    BY CommitStep DEF Turns
  <2>2. calm => \A p \in requests' : p.at = "stored"
    BY <2>1, CalmCall
  <2>3. calm => \A p \in requests' : ~Tells(p)
    BY <2>2 DEF Tells, InTransaction
  <2> QED BY <1>1, <2>3 DEF MessageAgrees, Remembered, Tells, Matches
<1>2. requests = {q} /\ q \in Request /\ q.who \in Registrant /\ q.kind \in Kind
  BY CalmCall DEF TypeInv, Request
<1>3. Stage(q) /\ Latest(q) /\ Proper(q) /\ q.who \in q.held
  BY <1>1, <1>2 DEF Stages, OrderInv, RequestsInv, Proper
<1>4. x \notin q.found
  BY <1>1, RankedKnown DEF Remembered
<1>5. rows'[x] = View(q)[x]
  BY <1>4, CommitRows
<1>6. CASE x = q.who
  <2>1. View(q)[x].enabled
    BY <1>2, <1>3, <1>6, ViewIs, InsertedIs DEF Proper
  <2> QED BY <1>3, <1>5, <1>6, <2>1 DEF Latest
<1>7. CASE x # q.who
  <2>1. rows[x] \in Row
    BY DEF TypeInv
  <2>2. devices["message"][x].enabled <=>
          rows[x].enabled /\ ~(Tells(q) /\ Matches(q, rows[x]))
    BY <1>2, <1>7 DEF MessageAgrees, OfMessage
  <2>3. x \in q.held <=> Matches(q, rows[x])
    BY <1>1, <1>3, <1>7 DEF Stage
  <2>4. Tells(q) <=> q.kind = "message"
    BY <1>1 DEF Tells, InTransaction
  <2>5. CASE x \notin q.held
    <3>1. View(q)[x] = rows[x]
      BY <2>5, ViewIs
    <3> QED BY <1>5, <2>2, <2>3, <2>5, <3>1
  <2>6. CASE x \in q.held
    <3>1. View(q)[x] = Struck(q.kind, rows[x])
      BY <1>7, <2>6, ViewIs
    <3>2. CASE q.kind = "message"
      BY <1>5, <2>1, <2>2, <2>3, <2>4, <2>6, <3>1, <3>2, StruckIs DEF Kind
    <3>3. CASE q.kind = "voip"
      BY <1>5, <2>1, <2>2, <2>4, <3>1, <3>3, StruckIs DEF Kind
    <3> QED BY <1>2, <3>2, <3>3 DEF Kind
  <2> QED BY <2>5, <2>6
<1> QED BY <1>6, <1>7

\* Every step keeps the agreement.
LEMMA MessageNext ==
  ASSUME TypeInv, RequestsInv, CalmAlone, MemoryInv, TokensInv, Stages, OrderInv,
         MessageAgrees, Next
  PROVE  MessageAgrees'
<1>1. ASSUME NEW g \in Registration, Register(g[1], g[2], g[3]) PROVE MessageAgrees'
  BY <1>1, MessageRegister
<1>2. ASSUME NEW kind \in Kind, NEW r \in Registrant, NEW t \in Token, Unregister(kind, r, t)
      PROVE  MessageAgrees'
  <2>1. Unregistered(kind, r, t) /\ UNCHANGED <<rows, orphaned>> /\ calm' = (calm /\ requests = {})
    BY <1>2, UnregisterStep
  <2>2. PICK new : /\ requests' = requests \cup {new} /\ new.at = "disable" /\ new.kind = kind
                   /\ new.who = r
    BY <1>2, UnregisterStep
  <2>3. ~Tells(new)
    BY <2>2 DEF Tells, InTransaction
  <2> SUFFICES ASSUME calm', NEW x \in Registrant, Remembered("message", x)'
               PROVE  \/ \E q \in requests' : OfMessage(q, x)
                      \/ devices'["message"][x].enabled <=>
                           rows[x].enabled /\ ~\E q \in requests' : Tells(q) /\ Matches(q, rows[x])
    BY <2>1 DEF MessageAgrees, OfMessage, Tells, Matches
  <2>4. CASE kind = "message" /\ x = r
    BY <2>2, <2>4 DEF OfMessage
  <2>5. CASE ~(kind = "message" /\ x = r)
    <3>1. /\ devices'["message"][x].known = devices["message"][x].known
          /\ devices'["message"][x].token = devices["message"][x].token
          /\ devices'["message"][x].enabled <=> devices["message"][x].enabled
      <4>1. "message" \in Kind
        BY DEF Kind
      <4>2. devices'["message"][x].enabled =
              (devices["message"][x].enabled /\ ~("message" = kind /\ x = r))
        BY <2>1, <4>1 DEF Unregistered
      <4> QED BY <2>1, <2>5, <4>1, <4>2 DEF Unregistered
    <3>2. Remembered("message", x) /\ calm /\ requests = {}
      BY <2>1, <3>1 DEF Remembered
    <3>3. devices["message"][x].enabled <=> rows[x].enabled
      BY <3>2 DEF MessageAgrees
    <3> QED BY <2>2, <2>3, <3>1, <3>2, <3>3
  <2> QED BY <2>4, <2>5
<1>3. ASSUME Restart PROVE MessageAgrees'
  <2>1. PICK order \in Order : LET loaded == [k \in Kind |-> Loaded(k, order)] IN
          Starts(loaded) /\ calm' = \A k \in Kind : loaded[k] = Stored(k)
    BY <1>3, RestartStep
  <2>2. requests' = {} /\ UNCHANGED rows
    BY <1>3, RestartStep
  <2> SUFFICES ASSUME calm', NEW x \in Registrant, devices'["message"][x].known
               PROVE  devices'["message"][x].enabled /\ rows[x].enabled
    BY <2>2 DEF MessageAgrees, Remembered
  <2>3. Loaded("message", order) = Stored("message")
    BY <2>1 DEF Kind
  <2>4. x \in Stored("message") /\ devices'["message"][x].enabled
    BY <2>1, <2>3 DEF Starts, Unknown, Kind
  <2> QED BY <2>4 DEF Stored
<1>4. ASSUME NEW q \in requests, Begin(q) \/ Search(q) \/ Clear(q) \/ Insert(q) \/ Rank(q)
      PROVE  MessageAgrees'
  <2>1. PICK new : Turns(q, new) /\ new.kind = q.kind /\ new.at \in InTransaction
    BY <1>4, BeginStep, SearchStep, ClearStep, InsertStep, RankStep DEF InTransaction
  <2>2. q.at \in {"begin"} \cup InTransaction /\ q.at # "disable" /\ new.at # "disable"
    BY <1>4, <2>1, BeginStep, SearchStep, ClearStep, InsertStep, RankStep DEF InTransaction
  <2>3. UNCHANGED <<rows, devices, calm, orphaned>>
    BY <1>4, BeginStep, SearchStep, ClearStep, InsertStep, RankStep DEF Quiet
  <2>4. requests' = (requests \ {q}) \cup {new} /\ new.who = q.who /\ new.tokens = q.tokens
        /\ (Tells(new) <=> Tells(q))
    BY <2>1, <2>2 DEF Turns, Tells
  <2> SUFFICES ASSUME calm, NEW x \in Registrant, Remembered("message", x)
               PROVE  \/ \E p \in requests' : OfMessage(p, x)
                      \/ devices["message"][x].enabled <=>
                           rows[x].enabled /\ ~\E p \in requests' : Tells(p) /\ Matches(p, rows[x])
    BY <2>3 DEF MessageAgrees, Remembered, OfMessage, Tells, Matches
  <2>5. requests = {q} /\ requests' = {new}
    BY <2>4, CalmCall
  <2>6. (OfMessage(new, x) <=> OfMessage(q, x)) /\ (Matches(new, rows[x]) <=> Matches(q, rows[x]))
    BY <2>1, <2>2, <2>4 DEF OfMessage, Matches
  <2>7. OfMessage(q, x)
        \/ (devices["message"][x].enabled <=> rows[x].enabled /\ ~(Tells(q) /\ Matches(q, rows[x])))
    BY <2>5 DEF MessageAgrees
  <2> QED BY <2>4, <2>5, <2>6, <2>7
<1>5. ASSUME NEW q \in requests, Commit(q) PROVE MessageAgrees'
  BY <1>5, MessageCommit
<1>6. ASSUME NEW q \in requests, Continue(q) PROVE MessageAgrees'
  <2>1. PICK new : Turns(q, new) /\ new.kind = "voip"
    BY <1>6, ContinueStep
  <2>2. q.at = "stored" /\ UNCHANGED <<rows, calm>> /\ orphaned' = orphaned \cup Orphans("voip")
    BY <1>6, ContinueStep
  <2>3. q.who \in Registrant
    BY DEF TypeInv, Request
  <2>4. PICK e : Registered("voip", q.who, q.tokens["voip"], e)
    BY <1>6, <2>3, ContinueStep, RegisterDevices DEF Kind
  <2>5. devices'["message"] = devices["message"]
    BY <2>4 DEF Registered, Kind
  <2>6. requests' = (requests \ {q}) \cup {new} /\ ~Tells(new) /\ ~Tells(q) /\ q.at # "disable"
    BY <2>1, <2>2 DEF Turns, Tells, InTransaction
  <2> SUFFICES ASSUME calm, NEW x \in Registrant, Remembered("message", x)
               PROVE  devices["message"][x].enabled <=>
                        rows[x].enabled /\ ~\E p \in requests' : Tells(p) /\ Matches(p, rows[x])
    BY <2>2, <2>5 DEF MessageAgrees, Remembered, Tells, Matches
  <2>7. requests = {q} /\ requests' = {new}
    BY <2>6, CalmCall
  <2>8. devices["message"][x].enabled <=> rows[x].enabled
    BY <2>6, <2>7 DEF MessageAgrees, OfMessage
  <2> QED BY <2>6, <2>7, <2>8
<1>7. ASSUME NEW q \in requests, Fails(q) PROVE MessageAgrees'
  BY <1>7 DEF Fails, MessageAgrees
<1>8. ASSUME NEW q \in requests, StoreDisabled(q) PROVE MessageAgrees'
  <2>1. requests' = requests \ {q} /\ UNCHANGED <<devices, calm, orphaned>> /\ q.at = "disable"
    BY <1>8 DEF StoreDisabled, Answers
  <2> SUFFICES ASSUME calm, NEW x \in Registrant, Remembered("message", x)
               PROVE  devices["message"][x].enabled <=> rows'[x].enabled
    <3>1. calm => requests' = {}
      BY <2>1, CalmCall
    <3> QED BY <2>1, <3>1 DEF MessageAgrees, Remembered
  <2>2. requests = {q} /\ mixed = {} /\ q.kind \in Kind /\ rows[x] \in Row
    BY CalmCall DEF TypeInv, Request
  <2>3. ~Tells(q)
    BY <2>1 DEF Tells, InTransaction
  <2>4. IF x = q.who /\ Matches(q, rows[x]) THEN rows'[x] = Struck(q.kind, rows[x])
        ELSE rows'[x] = rows[x]
    BY <1>8, StoreDisabledRows
  <2>5. CASE q.kind = "message" /\ x = q.who
    <3>1. rows[x].message = q.tokens["message"] /\ ~devices["message"][x].enabled
      BY <2>1, <2>2, <2>5 DEF TokensInv
    <3>2. rows'[x] = Struck("message", rows[x])
      BY <2>4, <2>5, <3>1 DEF Matches
    <3> QED BY <2>2, <3>1, <3>2, StruckIs DEF Kind
  <2>6. CASE ~(q.kind = "message" /\ x = q.who)
    <3>1. devices["message"][x].enabled <=> rows[x].enabled
      BY <2>2, <2>3, <2>6 DEF MessageAgrees, OfMessage
    <3>2. rows'[x].enabled <=> rows[x].enabled
      BY <2>2, <2>4, <2>6, StruckIs DEF Kind
    <3> QED BY <3>1, <3>2
  <2> QED BY <2>5, <2>6
<1> QED BY <1>1, <1>2, <1>3, <1>4, <1>5, <1>6, <1>7, <1>8 DEF Next

\* While calm, a VoIP device has the token of its row, and is disabled if its
\* row has none, but for the device of a VoIP call that is under way; one whose
\* token such a call is taking is disabled.
VoipAgrees ==
  calm => \A x \in Registrant : Remembered("voip", x) =>
    \/ \E q \in requests : q.who = x /\ q.kind = "voip"
    \/ /\ (\E q \in requests : q.kind = "voip" /\ q.at # "disable" /\ Matches(q, rows[x]))
          => ~devices["voip"][x].enabled
       /\ (~\E q \in requests : q.kind = "voip" /\ q.at # "disable" /\ Matches(q, rows[x]))
          => rows[x].voip = IF devices["voip"][x].enabled THEN devices["voip"][x].token ELSE NoToken

\* While calm, the device of a VoIP call is what the call makes of it.
VoipCall ==
  calm => \A q \in requests : q.kind = "voip" /\ Remembered("voip", q.who) =>
    /\ q.at # "disable" =>
         devices["voip"][q.who].enabled /\ devices["voip"][q.who].token = q.tokens["voip"]
    /\ q.at = "disable" =>
         ~devices["voip"][q.who].enabled /\ rows[q.who].voip \in {NoToken, q.tokens["voip"]}

\* What it says when no VoIP call is about to store a token.
LEMMA VoipPlain ==
  ASSUME calm, \A q \in requests : q.kind # "voip" \/ q.at = "disable", VoipAgrees,
         NEW x \in Registrant, Remembered("voip", x),
         \A q \in requests : ~(q.who = x /\ q.kind = "voip")
  PROVE  rows[x].voip = IF devices["voip"][x].enabled THEN devices["voip"][x].token ELSE NoToken
BY DEF VoipAgrees

\* Memory and rows that keep what is said of VoIP, when no call is a VoIP call.
LEMMA VoipSame ==
  ASSUME VoipAgrees, calm, calm', \A q \in requests : q.kind # "voip",
         \A q \in requests' : q.kind # "voip",
         devices'["voip"] = devices["voip"], orphaned \subseteq orphaned',
         \A x \in Registrant : rows'[x].voip = rows[x].voip
  PROVE  VoipAgrees' /\ VoipCall'
<1>1. ASSUME NEW x \in Registrant, Remembered("voip", x)'
      PROVE  rows'[x].voip = IF devices'["voip"][x].enabled THEN devices'["voip"][x].token ELSE NoToken
  <2>1. Remembered("voip", x)
    BY <1>1 DEF Remembered
  <2> QED BY <2>1, VoipPlain
<1> QED BY <1>1 DEF VoipAgrees, VoipCall

\* The second half of a registration takes the VoIP token from its device.
LEMMA VoipContinue ==
  ASSUME TypeInv, RequestsInv, CalmAlone, MemoryInv, VoipAgrees, NEW q \in requests, Continue(q)
  PROVE  VoipAgrees' /\ VoipCall'
<1> DEFINE r == q.who
           t == q.tokens["voip"]
<1>1. /\ q.kind = "message" /\ t \in Token /\ UNCHANGED <<rows, calm>>
      /\ orphaned' = orphaned \cup Orphans("voip")
  BY ContinueStep
<1>2. PICK new : Turns(q, new) /\ new.at = "begin" /\ new.kind = "voip"
  BY ContinueStep
<1>3. r \in Registrant /\ new.who = r /\ new.tokens["voip"] = t
  BY <1>2 DEF TypeInv, Request, Turns
<1>4. PICK e : Registered("voip", r, t, e)
  BY <1>1, <1>3, ContinueStep, RegisterDevices DEF Kind
<1>5. calm => requests = {q} /\ requests' = {new}
  BY <1>2, CalmCall DEF Turns
<1>6. VoipCall'
  <2>1. devices'["voip"][r].enabled /\ devices'["voip"][r].token = t
    BY <1>4 DEF Registered
  <2> QED BY <1>1, <1>2, <1>3, <1>5, <2>1 DEF VoipCall
<1>7. ASSUME calm, NEW x \in Registrant, Remembered("voip", x)', x # r
      PROVE  /\ Matches(new, rows[x]) => ~devices'["voip"][x].enabled
             /\ ~Matches(new, rows[x]) =>
                  rows[x].voip = IF devices'["voip"][x].enabled THEN devices'["voip"][x].token ELSE NoToken
  <2>1. x # e
    BY <1>4, <1>7, MapsAssumption DEF Registered, Remembered, Unknown
  <2>2. /\ devices'["voip"][x].known = devices["voip"][x].known
        /\ devices'["voip"][x].token = devices["voip"][x].token
        /\ devices'["voip"][x].enabled =
             (devices["voip"][x].enabled
               /\ ~(x = owner["voip"][t] /\ devices["voip"][x].known
                      /\ devices["voip"][x].token = t))
    BY <1>4, <1>7, <2>1 DEF Registered
  <2>3. Remembered("voip", x)
    BY <1>1, <1>7, <2>2 DEF Remembered
  <2>4. rows[x].voip = IF devices["voip"][x].enabled THEN devices["voip"][x].token ELSE NoToken
    BY <1>1, <1>5, <1>7, <2>3, VoipPlain
  <2>5. devices["voip"][x].enabled /\ devices["voip"][x].token = t => owner["voip"][t] = x
    BY <2>3 DEF MemoryInv, Remembered, Kind
  <2>6. Matches(new, rows[x]) <=> rows[x].voip = t
    BY <1>2, <1>3 DEF Matches
  <2>7. devices["voip"][x].known
    BY <2>3 DEF Remembered
  <2>8. devices'["voip"][x].enabled <=>
          devices["voip"][x].enabled /\ devices["voip"][x].token # t
    BY <2>2, <2>5, <2>7
  <2>9. t # NoToken
    BY <1>1, MapsAssumption
  <2>10. CASE devices["voip"][x].enabled
    BY <2>2, <2>4, <2>6, <2>8, <2>10
  <2>11. CASE ~devices["voip"][x].enabled
    BY <2>4, <2>6, <2>8, <2>9, <2>11
  <2> QED BY <2>10, <2>11
<1>8. ASSUME calm', NEW x \in Registrant, Remembered("voip", x)'
      PROVE  \/ \E p \in requests' : p.who = x /\ p.kind = "voip"
             \/ /\ (\E p \in requests' : p.kind = "voip" /\ p.at # "disable" /\ Matches(p, rows[x]))
                   => ~devices'["voip"][x].enabled
                /\ (~\E p \in requests' : p.kind = "voip" /\ p.at # "disable" /\ Matches(p, rows[x]))
                   => rows[x].voip = IF devices'["voip"][x].enabled THEN devices'["voip"][x].token ELSE NoToken
  <2>1. requests' = {new} /\ calm
    BY <1>1, <1>5, <1>8
  <2>2. CASE x = r
    BY <1>2, <1>3, <2>1, <2>2
  <2>3. CASE x # r
    BY <1>2, <1>7, <1>8, <2>1, <2>3
  <2> QED BY <2>2, <2>3
<1>9. VoipAgrees'
  BY <1>1, <1>8 DEF VoipAgrees, Matches
<1> QED BY <1>6, <1>9

\* A commit makes the row's VoIP token what memory already has.
LEMMA VoipCommit ==
  ASSUME TypeInv, RequestsInv, CalmAlone, Stages, VoipAgrees, VoipCall, NEW q \in requests, Commit(q)
  PROVE  VoipAgrees' /\ VoipCall'
<1>1. q.at = "commit" /\ UNCHANGED <<devices, calm, orphaned>> /\ q.who \in q.held
  BY CommitStep DEF Quiet
<1> SUFFICES ASSUME calm PROVE VoipAgrees' /\ VoipCall'
  BY <1>1 DEF VoipAgrees, VoipCall
<1>2. requests = {q} /\ q \in Request /\ q.who \in Registrant /\ q.kind \in Kind
  BY CalmCall DEF TypeInv, Request
<1>3. Stage(q) /\ Proper(q)
  BY <1>2 DEF Stages, RequestsInv
<1>4. \A p \in requests' : p.kind # "voip"
  BY <1>2, CommitStep DEF Turns
<1>5. ASSUME NEW x \in Registrant, Remembered("voip", x)
      PROVE  rows'[x].voip = IF devices["voip"][x].enabled THEN devices["voip"][x].token ELSE NoToken
  <2>1. rows'[x].voip = View(q)[x].voip /\ rows[x] \in Row
    BY CommitRows DEF TypeInv
  <2>2. CASE q.kind = "message"
    <3>1. rows[x].voip = IF devices["voip"][x].enabled THEN devices["voip"][x].token ELSE NoToken
      BY <1>2, <1>5, <2>2, VoipPlain
    <3>2. CASE x = q.who
      BY <1>1, <1>2, <1>3, <2>1, <2>2, <3>1, <3>2, ViewIs, InsertedIs DEF Proper
    <3>3. CASE x \in q.held /\ x # q.who
      <4>1. View(q)[x] = Struck("message", rows[x])
        BY <2>2, <3>3, ViewIs
      <4>2. View(q)[x].voip = rows[x].voip
        BY <2>1, <4>1, StruckIs DEF Kind
      <4> QED BY <2>1, <3>1, <4>2
    <3>4. CASE x \notin q.held
      BY <2>1, <3>1, <3>4, ViewIs
    <3> QED BY <3>2, <3>3, <3>4
  <2>3. CASE q.kind = "voip"
    <3>1. CASE x = q.who
      <4>1. devices["voip"][x].enabled /\ devices["voip"][x].token = q.tokens["voip"]
        BY <1>1, <1>5, <2>3, <3>1 DEF VoipCall
      <4>2. View(q)[x].voip = q.tokens["voip"]
        BY <1>1, <1>2, <1>3, <2>3, <3>1, ViewIs, InsertedIs DEF Proper
      <4> QED BY <2>1, <4>1, <4>2
    <3>2. CASE x # q.who
      <4>1. x \in q.held <=> Matches(q, rows[x])
        BY <1>1, <1>3, <3>2 DEF Stage
      <4>2. /\ Matches(q, rows[x]) => ~devices["voip"][x].enabled
            /\ ~Matches(q, rows[x]) =>
                 rows[x].voip = IF devices["voip"][x].enabled THEN devices["voip"][x].token ELSE NoToken
        BY <1>1, <1>2, <1>5, <2>3, <3>2 DEF VoipAgrees
      <4>3. CASE x \in q.held
        <5>1. View(q)[x] = Struck("voip", rows[x])
          BY <2>3, <3>2, <4>3, ViewIs
        <5>2. View(q)[x].voip = NoToken
          BY <2>1, <5>1, StruckIs DEF Kind
        <5> QED BY <2>1, <4>1, <4>2, <4>3, <5>2
      <4>4. CASE x \notin q.held
        <5>1. View(q)[x] = rows[x]
          BY <4>4, ViewIs
        <5> QED BY <2>1, <4>1, <4>2, <4>4, <5>1
      <4> QED BY <4>3, <4>4
    <3> QED BY <3>1, <3>2
  <2> QED BY <1>2, <2>2, <2>3 DEF Kind
<1> QED BY <1>1, <1>4, <1>5 DEF VoipAgrees, VoipCall, Remembered

\* Every step keeps what is said of VoIP.
LEMMA VoipNext ==
  ASSUME TypeInv, RequestsInv, CalmAlone, MemoryInv, Stages, VoipAgrees, VoipCall, Next
  PROVE  VoipAgrees' /\ VoipCall'
<1>1. ASSUME NEW g \in Registration, Register(g[1], g[2], g[3]) PROVE VoipAgrees' /\ VoipCall'
  <2>1. UNCHANGED rows /\ calm' = (calm /\ requests = {})
        /\ orphaned' = orphaned \cup Orphans("message")
    BY <1>1, RegisterStep
  <2>2. PICK new : requests' = requests \cup {new} /\ new.kind = "message"
    BY <1>1, RegisterStep
  <2>3. PICK e : Registered("message", g[1], g[2], e)
    BY <1>1, RegisterStep
  <2>4. devices'["voip"] = devices["voip"]
    BY <2>3 DEF Registered, Kind
  <2>5. CASE calm'
    BY <2>1, <2>2, <2>4, <2>5, VoipSame
  <2>6. CASE ~calm'
    BY <2>6 DEF VoipAgrees, VoipCall
  <2> QED BY <2>5, <2>6
<1>2. ASSUME NEW kind \in Kind, NEW r \in Registrant, NEW t \in Token, Unregister(kind, r, t)
      PROVE  VoipAgrees' /\ VoipCall'
  <2>1. Unregistered(kind, r, t) /\ UNCHANGED <<rows, orphaned>> /\ calm' = (calm /\ requests = {})
    BY <1>2, UnregisterStep
  <2>2. PICK new : /\ requests' = requests \cup {new} /\ new.at = "disable" /\ new.kind = kind
                   /\ new.who = r /\ new.tokens[kind] = t
    BY <1>2, UnregisterStep
  <2> SUFFICES ASSUME calm' PROVE VoipAgrees' /\ VoipCall'
    BY DEF VoipAgrees, VoipCall
  <2>3. requests' = {new} /\ calm /\ requests = {}
    BY <2>1, <2>2
  <2>4. ASSUME NEW x \in Registrant, Remembered("voip", x)'
        PROVE  /\ devices'["voip"][x].token = devices["voip"][x].token
               /\ devices'["voip"][x].enabled <=>
                    devices["voip"][x].enabled /\ ~(kind = "voip" /\ x = r)
               /\ rows[x].voip = IF devices["voip"][x].enabled THEN devices["voip"][x].token ELSE NoToken
    <3>1. "voip" \in Kind
      BY DEF Kind
    <3>2. /\ devices'["voip"][x].known = devices["voip"][x].known
          /\ devices'["voip"][x].token = devices["voip"][x].token
          /\ devices'["voip"][x].enabled = (devices["voip"][x].enabled /\ ~("voip" = kind /\ x = r))
      BY <2>1, <3>1 DEF Unregistered
    <3>3. Remembered("voip", x)
      BY <2>1, <2>4, <3>2 DEF Remembered
    <3> QED BY <2>3, <3>2, <3>3, VoipPlain
  <2>5. VoipCall'
    <3>1. ASSUME kind = "voip", Remembered("voip", r)'
          PROVE  ~devices'["voip"][r].enabled /\ rows'[r].voip \in {NoToken, t}
      <4>1. devices["voip"][r].token = t
        BY <2>1, <3>1 DEF Unregistered
      <4> QED BY <2>1, <2>4, <3>1, <4>1
    <3> QED BY <2>2, <2>3, <3>1 DEF VoipCall
  <2>6. ASSUME NEW x \in Registrant, Remembered("voip", x)'
        PROVE  \/ \E q \in requests' : q.who = x /\ q.kind = "voip"
               \/ rows[x].voip = IF devices'["voip"][x].enabled THEN devices'["voip"][x].token ELSE NoToken
    <3>1. CASE kind = "voip" /\ x = r
      BY <2>2, <2>3, <3>1
    <3>2. CASE ~(kind = "voip" /\ x = r)
      BY <2>4, <2>6, <3>2
    <3> QED BY <3>1, <3>2
  <2>7. VoipAgrees'
    <3>1. \A q \in requests' : q.at = "disable"
      BY <2>2, <2>3
    <3> QED BY <2>1, <2>6, <3>1 DEF VoipAgrees
  <2> QED BY <2>5, <2>7
<1>3. ASSUME Restart PROVE VoipAgrees' /\ VoipCall'
  <2>1. PICK order \in Order : LET loaded == [k \in Kind |-> Loaded(k, order)] IN
          Starts(loaded) /\ calm' = \A k \in Kind : loaded[k] = Stored(k)
    BY <1>3, RestartStep
  <2>2. requests' = {} /\ UNCHANGED rows
    BY <1>3, RestartStep
  <2>3. ASSUME NEW x \in Registrant, Remembered("voip", x)'
        PROVE  devices'["voip"][x].enabled /\ devices'["voip"][x].token = rows[x].voip
    <3>1. devices'["voip"][x].known
      BY <2>3 DEF Remembered
    <3> QED BY <2>1, <3>1 DEF Starts, Unknown, Kind
  <2> QED BY <2>2, <2>3 DEF VoipAgrees, VoipCall
<1>4. ASSUME NEW q \in requests, Begin(q) \/ Search(q) \/ Clear(q) \/ Insert(q) \/ Rank(q)
      PROVE  VoipAgrees' /\ VoipCall'
  <2>1. PICK new : Turns(q, new) /\ new.kind = q.kind /\ new.at \in InTransaction
    BY <1>4, BeginStep, SearchStep, ClearStep, InsertStep, RankStep DEF InTransaction
  <2>2. q.at # "disable" /\ new.at # "disable"
    BY <1>4, <2>1, BeginStep, SearchStep, ClearStep, InsertStep, RankStep DEF InTransaction
  <2>3. UNCHANGED <<rows, devices, calm, orphaned>>
    BY <1>4, BeginStep, SearchStep, ClearStep, InsertStep, RankStep DEF Quiet
  <2>4. requests' = (requests \ {q}) \cup {new} /\ new.who = q.who /\ new.tokens = q.tokens
    BY <2>1 DEF Turns
  <2> SUFFICES ASSUME calm PROVE VoipAgrees' /\ VoipCall'
    BY <2>3 DEF VoipAgrees, VoipCall
  <2>5. requests = {q} /\ requests' = {new}
    BY <2>4, CalmCall
  <2>6. \A x \in Registrant : Matches(new, rows[x]) <=> Matches(q, rows[x])
    BY <2>1, <2>4 DEF Matches
  <2>7. VoipCall'
    BY <2>1, <2>2, <2>3, <2>4, <2>5 DEF VoipCall, Remembered
  <2>8. ASSUME NEW x \in Registrant, Remembered("voip", x)
        PROVE  \/ new.who = x /\ new.kind = "voip"
               \/ /\ new.kind = "voip" /\ Matches(new, rows[x]) => ~devices["voip"][x].enabled
                  /\ ~(new.kind = "voip" /\ Matches(new, rows[x])) =>
                       rows[x].voip = IF devices["voip"][x].enabled THEN devices["voip"][x].token ELSE NoToken
    BY <2>1, <2>2, <2>4, <2>5, <2>6, <2>8 DEF VoipAgrees
  <2>9. VoipAgrees'
    <3> SUFFICES ASSUME NEW x \in Registrant, Remembered("voip", x)
                 PROVE  \/ \E p \in requests' : p.who = x /\ p.kind = "voip"
                        \/ /\ (\E p \in requests' : p.kind = "voip" /\ p.at # "disable" /\ Matches(p, rows[x]))
                              => ~devices["voip"][x].enabled
                           /\ (~\E p \in requests' : p.kind = "voip" /\ p.at # "disable" /\ Matches(p, rows[x]))
                              => rows[x].voip = IF devices["voip"][x].enabled THEN devices["voip"][x].token ELSE NoToken
      BY <2>3 DEF VoipAgrees, Remembered, Matches
    <3> QED BY <2>2, <2>5, <2>8
  <2> QED BY <2>7, <2>9
<1>5. ASSUME NEW q \in requests, Commit(q) PROVE VoipAgrees' /\ VoipCall'
  BY <1>5, VoipCommit
<1>6. ASSUME NEW q \in requests, Continue(q) PROVE VoipAgrees' /\ VoipCall'
  BY <1>6, VoipContinue
<1>7. ASSUME NEW q \in requests, Fails(q) PROVE VoipAgrees' /\ VoipCall'
  BY <1>7 DEF Fails, VoipAgrees, VoipCall
<1>8. ASSUME NEW q \in requests, StoreDisabled(q) PROVE VoipAgrees' /\ VoipCall'
  <2>1. requests' = requests \ {q} /\ UNCHANGED <<devices, calm, orphaned>> /\ q.at = "disable"
    BY <1>8 DEF StoreDisabled, Answers
  <2> SUFFICES ASSUME calm PROVE VoipAgrees' /\ VoipCall'
    BY <2>1 DEF VoipAgrees, VoipCall
  <2>2. requests = {q} /\ requests' = {} /\ q.kind \in Kind
    BY <2>1, CalmCall DEF TypeInv, Request
  <2>3. ASSUME NEW x \in Registrant, Remembered("voip", x)
        PROVE  rows'[x].voip = IF devices["voip"][x].enabled THEN devices["voip"][x].token ELSE NoToken
    <3>1. rows[x] \in Row
      BY DEF TypeInv
    <3>2. IF x = q.who /\ Matches(q, rows[x]) THEN rows'[x] = Struck(q.kind, rows[x])
          ELSE rows'[x] = rows[x]
      BY <1>8, StoreDisabledRows
    <3>3. CASE q.kind = "voip" /\ x = q.who
      <4>1. ~devices["voip"][x].enabled /\ rows[x].voip \in {NoToken, q.tokens["voip"]}
        BY <2>1, <2>3, <3>3 DEF VoipCall
      <4>2. CASE rows[x].voip = q.tokens["voip"]
        <5>1. rows'[x] = Struck("voip", rows[x])
          BY <3>2, <3>3, <4>2 DEF Matches
        <5> QED BY <3>1, <4>1, <5>1, StruckIs DEF Kind
      <4>3. CASE rows[x].voip # q.tokens["voip"]
        BY <3>2, <3>3, <4>1, <4>3 DEF Matches
      <4> QED BY <4>2, <4>3
    <3>4. CASE ~(q.kind = "voip" /\ x = q.who)
      <4>1. rows[x].voip = IF devices["voip"][x].enabled THEN devices["voip"][x].token ELSE NoToken
        BY <2>1, <2>2, <2>3, <3>4, VoipPlain
      <4>2. rows'[x].voip = rows[x].voip
        <5>1. CASE q.kind = "message" /\ rows'[x] = Struck("message", rows[x])
          BY <3>1, <5>1, StruckIs DEF Kind
        <5> QED BY <2>2, <3>2, <3>4, <5>1 DEF Kind
      <4> QED BY <4>1, <4>2
    <3> QED BY <3>3, <3>4
  <2> QED BY <2>1, <2>2, <2>3 DEF VoipAgrees, VoipCall, Remembered
<1> QED BY <1>1, <1>2, <1>3, <1>4, <1>5, <1>6, <1>7, <1>8 DEF Next

\* As long as calls come one after the other and none fails, memory says of the
\* devices it knows what the table says.
THEOREM CacheIsTable == Spec => []CacheAgrees
<1> DEFINE Calls == CalmAlone /\ Stages /\ HaveTokens
           Agrees == OrderInv /\ MessageAgrees /\ VoipAgrees /\ VoipCall
           Inv == RegistryInv /\ SeenInv /\ TokensInv /\ Calls /\ Agrees
<1>1. Init => Inv
  <2> SUFFICES ASSUME Init PROVE Inv
    OBVIOUS
  <2>1. RegistryInv
    BY RegistryInit DEF RegistryInv
  <2>2. SeenInv /\ TokensInv /\ Calls
    BY DEF Init, SeenInv, TokensInv, CalmAlone, Stages, HaveTokens, NoRow, Unknown, Kind
  <2>3. \A k \in Kind, x \in Registrant : ~devices[k][x].known
    BY DEF Init, Unknown
  <2>4. MessageAgrees /\ VoipAgrees /\ VoipCall
    BY <2>3 DEF Init, MessageAgrees, VoipAgrees, VoipCall, Remembered, Kind
  <2>5. ASSUME NEW r \in Registrant PROVE Cardinality(KnownIn("message", r)) <= MaxDevices
    <3>1. KnownIn("message", r) = {}
      BY <2>3 DEF KnownIn, OfUser, Kind
    <3> QED BY <3>1, FS_EmptySet, MapsAssumption
  <2>6. OrderInv
    BY <2>3, <2>5 DEF Init, OrderInv, Kind
  <2> QED BY <2>1, <2>2, <2>4, <2>6
<1>2. Inv /\ [Next]_vars => Inv'
  <2> SUFFICES ASSUME Inv, [Next]_vars PROVE Inv'
    OBVIOUS
  <2>1. RegistryInv'
    BY RegistryNext
  <2>2. CASE Next
    <3>1. SeenInv' /\ TokensInv' /\ Calls'
      BY <2>1, <2>2, SeenNext, TokensNext, CalmAloneNext, StagesNext, HaveTokensNext
         DEF RegistryInv
    <3>2. OrderInv' /\ MessageAgrees' /\ VoipAgrees' /\ VoipCall'
      BY <2>2, OrderNext, MessageNext, VoipNext DEF RegistryInv
    <3> QED BY <2>1, <3>1, <3>2
  <2>3. CASE UNCHANGED vars
    <3>1. SeenInv'
      BY <2>1, <2>3, SeenSame DEF RegistryInv, vars
    <3>2. TokensInv' /\ CalmAlone' /\ HaveTokens'
      BY <2>3 DEF TokensInv, CalmAlone, HaveTokens, Tells, vars, observed
    <3>3. Stages'
      <4>1. ASSUME NEW q PROVE View(q)' = View(q)
        BY <2>3 DEF View, Inserted, vars
      <4>2. ASSUME NEW q, Stage(q) PROVE Stage(q)'
        <5>1. View(q)' = View(q)
          BY <4>1
        <5> QED BY <2>3, <4>2, <5>1 DEF Stage, Matches, Ranked, vars
      <4> QED BY <2>3, <4>2 DEF Stages, vars, observed
    <3>4. OrderInv'
      <4>1. ASSUME NEW x \in Registrant, NEW y \in Registrant PROVE Ordered(x, y)' <=> Ordered(x, y)
        BY <2>3 DEF Ordered, vars
      <4>2. ASSUME NEW x \in Registrant
            PROVE (Settled(x)' <=> Settled(x)) /\ KnownIn("message", x)' = KnownIn("message", x)
        BY <2>3 DEF Settled, Tells, KnownIn, vars
      <4>3. ASSUME NEW q PROVE Latest(q)' <=> Latest(q)
        BY <2>3 DEF Latest, Tells, vars
      <4>4. \A x \in Registrant : OfUser(x) \subseteq Registrant
        BY DEF OfUser
      <4> QED BY <2>3, <4>1, <4>2, <4>3, <4>4 DEF OrderInv, vars, observed
    <3>5. MessageAgrees' /\ VoipAgrees' /\ VoipCall'
      BY <2>3 DEF MessageAgrees, VoipAgrees, VoipCall, OfMessage, Tells, Matches, Remembered,
                  vars, observed
    <3> QED BY <2>1, <3>1, <3>2, <3>3, <3>4, <3>5
  <2> QED BY <2>2, <2>3
<1>3. Inv => CacheAgrees
  <2> SUFFICES ASSUME Inv, calm, requests = {}, NEW x \in Registrant
               PROVE  /\ Remembered("message", x) =>
                           /\ devices["message"][x].enabled = rows[x].enabled
                           /\ devices["message"][x].token = rows[x].message
                      /\ Remembered("voip", x) =>
                           rows[x].voip = IF devices["voip"][x].enabled
                                          THEN devices["voip"][x].token ELSE NoToken
    BY DEF CacheAgrees
  <2>1. devices["message"][x].enabled \in BOOLEAN /\ rows[x].enabled \in BOOLEAN
    BY DEF RegistryInv, TypeInv, Device, Row, Kind
  <2>2. Remembered("message", x) => devices["message"][x].token = rows[x].message
    BY DEF CalmAlone, TokensInv, Remembered
  <2>3. Remembered("message", x) => (devices["message"][x].enabled <=> rows[x].enabled)
    BY DEF MessageAgrees
  <2>4. Remembered("voip", x) =>
          rows[x].voip = IF devices["voip"][x].enabled THEN devices["voip"][x].token ELSE NoToken
    BY VoipPlain
  <2> QED BY <2>1, <2>2, <2>3, <2>4
<1> QED BY <1>1, <1>2, <1>3, PTL DEF Spec
============================================================================
