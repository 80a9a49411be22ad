-------------------------- MODULE ModerationProofs -------------------------
(***************************************************************************)
(* Proofs about moderation, for any number of peers, reports, appeals and  *)
(* overlapping transactions, any pool, and any number of crashes.          *)
(***************************************************************************)
EXTENDS Moderation, FiniteSetTheorems, TLAPS

RowState == {NoRow} \cup [status : {"open"} \cup Decided, peer : Peer]

\* Everything a count can be, so that counts have a type.
CountValue == {Nothing} \cup {Tally(table, p) : table \in [Row -> RowState], p \in Peer}

Transaction ==
  [at : InTransaction \cup {"connect"} \cup Ended, op : Op, row : Row \cup {Nobody}, peer : Peer,
   action : {"none", "dismiss", "warn", "ban", "unban", "reject"},
   mark : {"same", "open"} \cup Decided, counts : CountValue, policy : {"same"} \cup Policy]

Types ==
  /\ rows \in [Row -> RowState]
  /\ scores \in [Peer -> [counts : CountValue, policy : Policy]]
  /\ lock \in [Row \cup Peer -> Call \cup {Nobody}]
  /\ tx \in [Call -> {Idle} \cup Transaction]

Deciding(c) == tx[c].op \in {"decide", "resolve"}

\* How far a transaction is: it has its row, it has marked it, it has locked
\* the peer, it has counted, it has set the policy.
HasRow(c) == tx[c].at \in {"mark", "lock", "count", "policy", "commit"}
HasMarked(c) ==
  \/ tx[c].at = "commit"
  \/ tx[c].op = "decide" /\ tx[c].at \in {"lock", "count", "policy"}
HasPeer(c) ==
  \/ tx[c].at \in {"count", "policy", "commit"}
  \/ tx[c].op = "resolve" /\ tx[c].at = "mark"
HasCounted(c) == HasPeer(c) /\ tx[c].at # "count"
HasPolicy(c) == HasCounted(c) /\ tx[c].at # "policy"

\* The policy that goes with the action of a call.
Due(c) == [ban |-> "banned", warn |-> "warning", unban |-> "clear", dismiss |-> "same",
           reject |-> "same", none |-> "same"][tx[c].action]

\* A call does what its request asks for, in the order of its handler.
Script(c) ==
  tx[c] # Idle =>
    /\ tx[c].op \in {"report", "appeal"} =>
         /\ tx[c].row \in Row /\ tx[c].action = "none"
         /\ tx[c].at \notin {"select", "mark"} /\ tx[c].mark \in {"same", "open"}
         /\ tx[c].at \in {"connect", "insert"} => tx[c].mark = "same"
    /\ tx[c].op \in {"policy", "status"} =>
         /\ tx[c].at \notin {"insert", "select", "mark"} /\ tx[c].mark = "same"
    /\ tx[c].op = "decide" => tx[c].row \in Report /\ tx[c].action \in {"dismiss", "warn", "ban"}
    /\ tx[c].op = "resolve" => tx[c].row \in Appeal /\ tx[c].action \in {"unban", "reject"}
    /\ tx[c].at = "policy" => tx[c].action \in {"warn", "ban", "unban"}
    /\ Deciding(c) =>
         /\ tx[c].at # "insert"
         /\ tx[c].at \in InTransaction \cup {"connect"} =>
              tx[c].mark = IF HasMarked(c) THEN Outcome(c) ELSE "same"
    /\ tx[c].at \in InTransaction \cup {"connect"} =>
         tx[c].policy = IF HasPolicy(c) THEN Due(c) ELSE "same"

\* What a transaction has locked is its own, and nobody has changed it since.
Holds(c) ==
  tx[c] # Idle =>
    /\ Deciding(c) /\ HasRow(c) =>
         /\ lock[tx[c].row] = c
         /\ rows[tx[c].row].status = "open" /\ rows[tx[c].row].peer = tx[c].peer
    /\ ~Deciding(c) /\ tx[c].mark # "same" /\ tx[c].at \in InTransaction =>
         lock[tx[c].row] = c /\ rows[tx[c].row] = NoRow
    /\ HasPeer(c) => lock[tx[c].peer] = c

\* What a transaction has counted is what will be there when it commits.
Counted(c) == tx[c] # Idle /\ HasCounted(c) => tx[c].counts = Tally(View(c), tx[c].peer)

\* What a call has decided stays decided.
Stands(c) ==
  tx[c] # Idle /\ Deciding(c) /\ tx[c].at = "done" => rows[tx[c].row].status \in Decided

CallInv(c) == Script(c) /\ Holds(c) /\ Counted(c) /\ Stands(c)

ModerationInv == Types /\ (\A c \in Call : CallInv(c)) /\ ScoresExact /\ DecidedOnce

---------------------------------------------------------------------------
\* A row that counts for a peer.
Of(row, p) == row.status \in {"open"} \cup Decided /\ row.peer = p

\* Two tables with the same rows of a peer, but for the status of an appeal,
\* have the same counts.
LEMMA TallySame ==
  ASSUME NEW t, NEW u, NEW p,
         \A x \in Report : t[x] = u[x] \/ (~Of(t[x], p) /\ ~Of(u[x], p)),
         \A x \in Appeal : Of(t[x], p) <=> Of(u[x], p)
  PROVE  Tally(t, p) = Tally(u, p)
<1>1. {x \in Report : t[x].status \in {"open"} \cup Decided /\ t[x].peer = p}
        = {x \in Report : u[x].status \in {"open"} \cup Decided /\ u[x].peer = p}
  BY DEF Of
<1>2. {x \in Report : t[x].status \in {"open"} /\ t[x].peer = p}
        = {x \in Report : u[x].status \in {"open"} /\ u[x].peer = p}
  BY DEF Of
<1>3. {x \in Report : t[x].status \in Decided /\ t[x].peer = p}
        = {x \in Report : u[x].status \in Decided /\ u[x].peer = p}
  BY DEF Of
<1>4. {x \in Appeal : t[x].status \in {"open"} \cup Decided /\ t[x].peer = p}
        = {x \in Appeal : u[x].status \in {"open"} \cup Decided /\ u[x].peer = p}
  BY DEF Of
<1> QED  BY <1>1, <1>2, <1>3, <1>4 DEF Tally

\* The tables as a transaction sees them have the type of the tables.
LEMMA ViewType ==
  ASSUME Types, NEW c \in Call, tx[c] # Idle
  PROVE  /\ View(c) \in [Row -> RowState]
         /\ Tally(View(c), tx[c].peer) \in CountValue
<1>1. tx[c] \in Transaction
  BY DEF Types
<1>2. View(c) \in [Row -> RowState]
  BY <1>1 DEF View, Types, Transaction, RowState
<1> QED  BY <1>1, <1>2 DEF CountValue, Transaction

\* The initial state satisfies the invariant.
LEMMA InitInv == Init => ModerationInv
<1> SUFFICES ASSUME Init PROVE ModerationInv
  OBVIOUS
<1>1. Types
  BY DEF Init, Types, RowState, CountValue, Policy
<1>2. \A c \in Call : CallInv(c)
  BY DEF Init, CallInv, Script, Holds, Counted, Stands
<1>3. ScoresExact
  <2> SUFFICES ASSUME NEW p \in Peer PROVE scores[p].counts = Tally(rows, p)
    BY DEF ScoresExact
  <2>1. \A S \in {Report, Appeal} : \A x \in S : rows[x].status = "none"
    BY DEF Init, NoRow, Row
  <2>2. /\ {x \in Report : rows[x].status \in {"open"} \cup Decided /\ rows[x].peer = p} = {}
        /\ {x \in Report : rows[x].status \in {"open"} /\ rows[x].peer = p} = {}
        /\ {x \in Report : rows[x].status \in Decided /\ rows[x].peer = p} = {}
        /\ {x \in Appeal : rows[x].status \in {"open"} \cup Decided /\ rows[x].peer = p} = {}
    BY <2>1 DEF Decided
  <2>3. Cardinality({}) = 0
    BY FS_EmptySet
  <2>4. Tally(rows, p) = Nothing
    BY <2>2, <2>3 DEF Tally, Nothing
  <2> QED  BY <2>4 DEF Init
<1>4. DecidedOnce
  BY DEF Init, DecidedOnce, Idle
<1> QED  BY <1>1, <1>2, <1>3, <1>4 DEF ModerationInv

---------------------------------------------------------------------------
(* Steps of one call that commit nothing. *)

\* A call keeps its invariant while others change neither its rows nor its locks.
LEMMA OthersKeep ==
  ASSUME NEW d \in Call, Types, CallInv(d), tx'[d] = tx[d], rows' = rows,
         \A x \in Row \cup Peer : lock[x] = d => lock'[x] = d
  PROVE  CallInv(d)'
<1>1. Script(d)' /\ Stands(d)'
  BY DEF CallInv, Script, Stands, Deciding, HasMarked, HasPolicy, HasCounted, HasPeer, Outcome, Due
<1>2. Counted(d)'
  BY DEF CallInv, Counted, View, HasCounted, HasPeer
<1>3. Holds(d)'
  <2>1. tx[d] # Idle => tx[d].peer \in Peer
    BY DEF Types, Transaction
  <2>2. tx[d] # Idle /\ (Deciding(d) \/ tx[d].mark # "same") => tx[d].row \in Row
    BY DEF Types, Transaction, Op, CallInv, Script, Deciding, Row
  <2> QED  BY <2>1, <2>2 DEF CallInv, Holds, Deciding, HasRow, HasPeer
<1> QED  BY <1>1, <1>2, <1>3 DEF CallInv

\* A step of one call that commits nothing has to keep that call's invariant.
LEMMA LocalStep ==
  ASSUME ModerationInv, NEW c \in Call, NEW new \in Transaction, Goes(c, new), new.at # "done",
         rows' = rows, scores' = scores, lock' \in [Row \cup Peer -> Call \cup {Nobody}],
         \A x \in Row \cup Peer : lock[x] \notin {c, Nobody} => lock'[x] = lock[x],
         CallInv(c)'
  PROVE  ModerationInv'
<1>1. tx' = [tx EXCEPT ![c] = new] /\ Types
  BY DEF Goes, ModerationInv
<1>2. Types'
  BY <1>1 DEF Types, ModerationInv
<1>3. ASSUME NEW d \in Call PROVE CallInv(d)'
  <2>1. CASE d = c
    BY <2>1
  <2>2. CASE d # c
    <3>1. tx'[d] = tx[d]
      BY <1>1, <2>2 DEF Types
    <3>2. \A x \in Row \cup Peer : lock[x] = d => lock'[x] = d
      BY <2>2, ModerationAssumption
    <3>3. CallInv(d)
      BY DEF ModerationInv
    <3> QED  BY <1>1, <3>1, <3>2, <3>3, OthersKeep
  <2> QED  BY <2>1, <2>2
<1>4. ScoresExact'
  BY DEF ModerationInv, ScoresExact
<1>5. DecidedOnce'
  BY <1>1 DEF Types, ModerationInv, DecidedOnce
<1> QED  BY <1>2, <1>3, <1>4, <1>5 DEF ModerationInv

\* What the invariant says of one call that has begun.
LEMMA Begun ==
  ASSUME ModerationInv, NEW c \in Call, tx[c] # Idle
  PROVE  Types /\ tx[c] \in Transaction /\ CallInv(c)
BY DEF ModerationInv, Types

\* A request arrives: it has written and locked nothing.
LEMMA ArriveKeeps ==
  ASSUME ModerationInv, NEW c \in Call, NEW q \in Request, Arrive(c, q)
  PROVE  ModerationInv'
<1> DEFINE new == [at |-> "connect", op |-> q.op, action |-> q.action, row |-> q.row,
                   peer |-> q.peer, mark |-> "same", counts |-> Nothing, policy |-> "same"]
<1>1. new \in Transaction
  BY ModerationAssumption DEF Transaction, CountValue
<1>2. Goes(c, new) /\ rows' = rows /\ scores' = scores /\ lock' = lock
  BY DEF Arrive
<1>3. tx'[c] = new
  BY <1>2 DEF Goes, ModerationInv, Types
<1>4. CallInv(c)'
  BY <1>3, ModerationAssumption
  DEF CallInv, Script, Holds, Counted, Stands, Deciding, HasRow, HasMarked, HasPeer, HasCounted,
      HasPolicy, InTransaction, Row
<1> QED  BY <1>1, <1>2, <1>4, LocalStep DEF ModerationInv, Types

\* A connection: the transaction has written and locked nothing.
LEMMA ConnectKeeps ==
  ASSUME ModerationInv, NEW c \in Call, Connect(c)
  PROVE  ModerationInv'
<1> DEFINE new == [tx[c] EXCEPT !.at = First[tx[c].op]]
<1>1. Types /\ tx[c] \in Transaction /\ CallInv(c)
  BY Begun DEF Connect, Idle
<1>2. new \in Transaction /\ new.at \notin Ended
  BY <1>1 DEF Transaction, InTransaction, Op, First, Ended
<1>3. Goes(c, new) /\ rows' = rows /\ scores' = scores /\ lock' = lock /\ tx[c].at = "connect"
  BY DEF Connect
<1>4. tx'[c] = new
  BY <1>1, <1>3 DEF Goes, Types
<1>5. CallInv(c)'
  BY <1>1, <1>3, <1>4
  DEF CallInv, Script, Holds, Counted, Stands, Deciding, HasRow, HasMarked, HasPeer, HasCounted,
      HasPolicy, InTransaction, Row, Transaction, Op, Idle, First
<1> QED  BY <1>1, <1>2, <1>3, <1>5, LocalStep DEF Types, Ended

\* Ending without a commit gives back what the call has locked.
LEMMA RollbackKeeps ==
  ASSUME ModerationInv, NEW c \in Call, NEW at \in Ended \ {"done"}, tx[c] # Idle, Rollback(c, at)
  PROVE  ModerationInv'
<1> DEFINE new == [tx[c] EXCEPT !.at = at]
<1>1. Types /\ tx[c] \in Transaction /\ CallInv(c)
  BY Begun
<1>2. new \in Transaction /\ new.at \in Ended \ {"done"}
  BY <1>1 DEF Transaction
<1>3. Goes(c, new) /\ rows' = rows /\ scores' = scores /\ lock' = Released(c)
  BY DEF Rollback
<1>4. tx'[c] = new
  BY <1>1, <1>3 DEF Goes, Types
<1>5. CallInv(c)'
  BY <1>1, <1>2, <1>4
  DEF CallInv, Script, Holds, Counted, Stands, Deciding, HasRow, HasMarked, HasPeer, HasCounted,
      HasPolicy, InTransaction, Transaction, Idle, Ended
<1>6. /\ lock' \in [Row \cup Peer -> Call \cup {Nobody}]
      /\ \A x \in Row \cup Peer : lock[x] \notin {c, Nobody} => lock'[x] = lock[x]
  BY <1>1, <1>3 DEF Released, Types
<1> QED  BY <1>2, <1>3, <1>5, <1>6, LocalStep

\* A new row is locked before it is written; an old one is left alone.
LEMMA InsertKeeps ==
  ASSUME ModerationInv, NEW c \in Call, Insert(c)
  PROVE  ModerationInv'
<1> DEFINE x == tx[c].row
<1>1. Types /\ tx[c] \in Transaction /\ CallInv(c) /\ tx[c].at = "insert"
  BY Begun DEF Insert, Idle
<1>2. x \in Row /\ tx[c].op \in {"report", "appeal"} /\ ~Deciding(c)
  BY <1>1 DEF CallInv, Script, Deciding, Transaction, Op, Idle, Row
<1>3. rows' = rows /\ scores' = scores
  BY DEF Insert
<1>4. CASE /\ rows[x] = NoRow /\ lock[x] = Nobody /\ lock' = [lock EXCEPT ![x] = c]
           /\ Goes(c, [tx[c] EXCEPT !.at = "lock", !.mark = "open"])
  <2> DEFINE new == [tx[c] EXCEPT !.at = "lock", !.mark = "open"]
  <2>1. new \in Transaction /\ new.at # "done"
    BY <1>1 DEF Transaction, InTransaction
  <2>2. tx'[c] = new /\ lock'[x] = c
    BY <1>1, <1>2, <1>4 DEF Goes, Types
  <2>3. CallInv(c)'
    BY <1>1, <1>2, <1>3, <1>4, <2>2
    DEF CallInv, Script, Holds, Counted, Stands, Deciding, HasRow, HasMarked, HasPeer, HasCounted,
        HasPolicy, InTransaction, Transaction, Idle
  <2>4. /\ lock' \in [Row \cup Peer -> Call \cup {Nobody}]
        /\ \A y \in Row \cup Peer : lock[y] \notin {c, Nobody} => lock'[y] = lock[y]
    BY <1>1, <1>4 DEF Types
  <2> QED  BY <1>3, <1>4, <2>1, <2>3, <2>4, LocalStep
<1>5. CASE lock' = lock /\ Goes(c, [tx[c] EXCEPT !.at = "lock"])
  <2> DEFINE new == [tx[c] EXCEPT !.at = "lock"]
  <2>1. new \in Transaction /\ new.at # "done"
    BY <1>1 DEF Transaction, InTransaction
  <2>2. tx'[c] = new
    BY <1>1, <1>5 DEF Goes, Types
  <2>3. CallInv(c)'
    BY <1>1, <1>2, <1>3, <1>5, <2>2
    DEF CallInv, Script, Holds, Counted, Stands, Deciding, HasRow, HasMarked, HasPeer, HasCounted,
        HasPolicy, InTransaction, Transaction, Idle
  <2> QED  BY <1>1, <1>3, <1>5, <2>1, <2>3, LocalStep DEF Types
<1> QED  BY <1>4, <1>5 DEF Insert

\* A transaction that goes on holds its row, which is open.
LEMMA SelectKeeps ==
  ASSUME ModerationInv, NEW c \in Call, Select(c)
  PROVE  ModerationInv'
<1> DEFINE x == tx[c].row
<1>1. Types /\ tx[c] \in Transaction /\ CallInv(c) /\ tx[c].at = "select" /\ tx[c] # Idle
  BY Begun DEF Select, Idle
<1>2. x \in Row /\ Deciding(c)
  BY <1>1 DEF CallInv, Script, Deciding, Transaction, Op, Row
<1>3. ASSUME NEW at \in {"missing", "refused"}, Rollback(c, at) PROVE ModerationInv'
  BY <1>1, <1>3, RollbackKeeps DEF Ended
<1>4. CASE /\ rows[x].status = "open" /\ lock[x] = Nobody /\ lock' = [lock EXCEPT ![x] = c]
           /\ Goes(c, [tx[c] EXCEPT !.peer = rows[x].peer,
                                    !.at = IF tx[c].op = "decide" THEN "mark" ELSE "lock"])
           /\ UNCHANGED <<rows, scores>>
  <2> DEFINE new == [tx[c] EXCEPT !.peer = rows[x].peer,
                                  !.at = IF tx[c].op = "decide" THEN "mark" ELSE "lock"]
  <2>1. rows[x] \in [status : {"open"} \cup Decided, peer : Peer]
    BY <1>1, <1>2, <1>4 DEF Types, RowState, NoRow
  <2>2. new \in Transaction /\ new.at # "done"
    BY <1>1, <2>1 DEF Transaction, InTransaction
  <2>3. tx'[c] = new /\ lock'[x] = c
    BY <1>1, <1>2, <1>4 DEF Goes, Types
  <2>4. CallInv(c)'
    BY <1>1, <1>2, <1>4, <2>3
    DEF CallInv, Script, Holds, Counted, Stands, Deciding, HasRow, HasMarked, HasPeer, HasCounted,
        HasPolicy, InTransaction, Transaction, Idle
  <2>5. /\ lock' \in [Row \cup Peer -> Call \cup {Nobody}]
        /\ \A y \in Row \cup Peer : lock[y] \notin {c, Nobody} => lock'[y] = lock[y]
    BY <1>1, <1>4 DEF Types
  <2> QED  BY <1>4, <2>2, <2>4, <2>5, LocalStep
<1> QED  BY <1>3, <1>4 DEF Select

\* The update is the transaction's own, of a row it holds.
LEMMA MarkKeeps ==
  ASSUME ModerationInv, NEW c \in Call, Mark(c)
  PROVE  ModerationInv'
<1> DEFINE new == [tx[c] EXCEPT !.mark = Outcome(c),
                                !.at = IF tx[c].op = "decide" THEN "lock" ELSE "commit"]
           x == tx[c].row
           p == tx[c].peer
<1>1. Types /\ tx[c] \in Transaction /\ CallInv(c) /\ tx[c].at = "mark" /\ tx[c] # Idle
  BY Begun DEF Mark, Idle
<1>2. Deciding(c) /\ x \in Row
  BY <1>1 DEF CallInv, Script, Deciding, Transaction, Op, Row
<1>3. Outcome(c) \in Decided
  BY <1>1, <1>2 DEF CallInv, Script, Deciding, Outcome, Decided
<1>4. new \in Transaction /\ new.at # "done"
  BY <1>1, <1>3 DEF Transaction, InTransaction
<1>5. Goes(c, new) /\ rows' = rows /\ scores' = scores /\ lock' = lock
  BY DEF Mark
<1>6. tx'[c] = new
  BY <1>1, <1>5 DEF Goes, Types
<1>7. Script(c)' /\ Holds(c)' /\ Stands(c)'
  BY <1>1, <1>2, <1>3, <1>5, <1>6
  DEF CallInv, Script, Holds, Stands, Deciding, HasRow, HasMarked, HasPeer, HasCounted,
      HasPolicy, InTransaction, Transaction, Idle, Outcome, Due
<1>8. Counted(c)'
  <2>1. CASE tx[c].op = "decide"
    BY <1>6, <2>1 DEF Counted, HasCounted, HasPeer
  <2>2. CASE tx[c].op = "resolve"
    <3>1. View(c) = rows /\ tx[c].counts = Tally(rows, p)
      BY <1>1, <1>2, <2>2 DEF CallInv, Script, Counted, View, HasCounted, HasPeer, HasMarked,
                              InTransaction, Deciding
    <3>2. View(c)' = [rows EXCEPT ![x] = [status |-> Outcome(c), peer |-> p]]
      BY <1>1, <1>3, <1>5, <1>6 DEF View, Decided, Transaction
    <3>3. x \in Appeal /\ x \notin Report /\ rows[x].status = "open" /\ rows[x].peer = p
      BY <1>1, <1>2, <2>2, ModerationAssumption DEF CallInv, Script, Holds, HasRow
    <3>4. \A y \in Report : View(c)'[y] = rows[y]
      BY <1>1, <3>2, <3>3 DEF Types, Row
    <3>5. \A y \in Appeal : Of(rows[y], p) <=> Of(View(c)'[y], p)
      BY <1>1, <1>2, <1>3, <3>2, <3>3 DEF Types, Row, Of
    <3>6. Tally(rows, p) = Tally(View(c)', p)
      BY <3>4, <3>5, TallySame
    <3>7. tx'[c].counts = tx[c].counts /\ tx'[c].peer = p
      BY <1>1, <1>6 DEF Transaction
    <3> QED  BY <3>1, <3>6, <3>7 DEF Counted
  <2> QED  BY <1>2, <2>1, <2>2 DEF Deciding
<1>9. CallInv(c)'
  BY <1>7, <1>8 DEF CallInv
<1> QED  BY <1>1, <1>4, <1>5, <1>9, LocalStep DEF Types

\* From here on nobody else counts or commits for the peer.
LEMMA LockKeeps ==
  ASSUME ModerationInv, NEW c \in Call, Lock(c)
  PROVE  ModerationInv'
<1> DEFINE new == [tx[c] EXCEPT !.at = "count"]
<1>1. Types /\ tx[c] \in Transaction /\ CallInv(c) /\ tx[c].at = "lock" /\ tx[c] # Idle
  BY Begun DEF Lock, Idle
<1>2. new \in Transaction /\ new.at # "done"
  BY <1>1 DEF Transaction, InTransaction
<1>3. /\ Goes(c, new) /\ rows' = rows /\ scores' = scores
      /\ lock[tx[c].peer] = Nobody /\ lock' = [lock EXCEPT ![tx[c].peer] = c]
  BY DEF Lock
<1>4. tx'[c] = new /\ tx[c].peer \in Peer /\ lock'[tx[c].peer] = c
  BY <1>1, <1>3 DEF Goes, Types, Transaction
<1>5. /\ lock' \in [Row \cup Peer -> Call \cup {Nobody}]
      /\ \A y \in Row \cup Peer : lock[y] # Nobody => lock'[y] = lock[y]
  BY <1>1, <1>3 DEF Types
<1>6. Script(c)' /\ Counted(c)' /\ Stands(c)'
  BY <1>1, <1>3, <1>4
  DEF CallInv, Script, Counted, Stands, Deciding, HasRow, HasMarked, HasPeer, HasCounted,
      HasPolicy, InTransaction, Transaction, Idle, Outcome, Due
<1>7. Holds(c)'
  <2>1. Deciding(c) \/ tx[c].mark # "same" => tx[c].row \in Row
    BY <1>1 DEF CallInv, Script, Deciding, Transaction, Op, Row
  <2>2. c # Nobody
    BY ModerationAssumption
  <2> QED  BY <1>1, <1>3, <1>4, <1>5, <2>1, <2>2
           DEF CallInv, Holds, Deciding, HasRow, HasPeer, InTransaction, Transaction
<1>8. CallInv(c)'
  BY <1>6, <1>7 DEF CallInv
<1> QED  BY <1>2, <1>3, <1>5, <1>8, LocalStep

\* The counts are the tally of what the commit will leave.
LEMMA CountKeeps ==
  ASSUME ModerationInv, NEW c \in Call, Count(c)
  PROVE  ModerationInv'
<1> DEFINE new == [tx[c] EXCEPT !.counts = Tally(View(c), tx[c].peer), !.at = AfterCount(c)]
<1>1. Types /\ tx[c] \in Transaction /\ CallInv(c) /\ tx[c].at = "count" /\ tx[c] # Idle
  BY Begun DEF Count, Idle
<1>2. AfterCount(c) \in {"policy", "mark", "commit"}
  BY DEF AfterCount
<1>3. new \in Transaction /\ new.at # "done"
  BY <1>1, <1>2, ViewType DEF Transaction, InTransaction
<1>4. Goes(c, new) /\ rows' = rows /\ scores' = scores /\ lock' = lock
  BY DEF Count
<1>5. tx'[c] = new
  BY <1>1, <1>4 DEF Goes, Types
<1>6. /\ tx'[c].at = AfterCount(c) /\ tx'[c].counts = Tally(View(c), tx[c].peer)
      /\ tx'[c].op = tx[c].op /\ tx'[c].row = tx[c].row /\ tx'[c].peer = tx[c].peer
      /\ tx'[c].mark = tx[c].mark /\ tx'[c].action = tx[c].action /\ tx'[c].policy = tx[c].policy
      /\ tx'[c] # Idle
  BY <1>1, <1>3, <1>5 DEF Transaction, Idle, InTransaction, Ended
<1>7. Script(c)'
  BY <1>1, <1>6
  DEF CallInv, Script, Deciding, HasMarked, HasPeer, HasCounted, HasPolicy, InTransaction,
      Transaction, Op, Outcome, Due, AfterCount
<1>8. Holds(c)' /\ Stands(c)'
  BY <1>1, <1>2, <1>4, <1>6
  DEF CallInv, Holds, Stands, Deciding, HasRow, HasPeer, InTransaction, AfterCount
<1>9. Counted(c)'
  BY <1>4, <1>6 DEF Counted, View
<1>10. CallInv(c)'
  BY <1>7, <1>8, <1>9 DEF CallInv
<1> QED  BY <1>1, <1>3, <1>4, <1>10, LocalStep DEF Types

\* The policy is the one the outcome of the row calls for.
LEMMA SetPolicyKeeps ==
  ASSUME ModerationInv, NEW c \in Call, SetPolicy(c)
  PROVE  ModerationInv'
<1> DEFINE to == [warn |-> "warning", ban |-> "banned", unban |-> "clear"][tx[c].action]
           new == [tx[c] EXCEPT !.policy = to,
                                !.at = IF tx[c].op = "resolve" THEN "mark" ELSE "commit"]
<1>1. Types /\ tx[c] \in Transaction /\ CallInv(c) /\ tx[c].at = "policy" /\ tx[c] # Idle
  BY Begun DEF SetPolicy, Idle
<1>2. tx[c].action \in {"warn", "ban", "unban"}
  BY <1>1 DEF CallInv, Script
<1>3. to = Due(c) /\ to \in Policy
  BY <1>2 DEF Due, Policy
<1>4. new \in Transaction /\ new.at # "done"
  BY <1>1, <1>3 DEF Transaction, InTransaction
<1>5. Goes(c, new) /\ rows' = rows /\ scores' = scores /\ lock' = lock
  BY DEF SetPolicy
<1>6. tx'[c] = new
  BY <1>1, <1>5 DEF Goes, Types
<1>7. CallInv(c)'
  BY <1>1, <1>2, <1>3, <1>5, <1>6
  DEF CallInv, Script, Holds, Counted, Stands, View, Deciding, HasRow, HasMarked, HasPeer,
      HasCounted, HasPolicy, InTransaction, Transaction, Idle, Outcome, Due
<1> QED  BY <1>1, <1>4, <1>5, <1>7, LocalStep DEF Types

---------------------------------------------------------------------------
(* Commits and crashes. *)

\* What a transaction that commits changes: at most its own row, which it has
\* locked and which was new or open, and which is about its own peer.
CommitsOwn(c) ==
  /\ Types /\ tx[c] \in Transaction /\ CallInv(c) /\ tx[c].at = "commit" /\ tx[c] # Idle
  /\ lock[tx[c].peer] = c /\ tx[c].peer \in Peer
  /\ \/ tx[c].mark = "same" /\ ~Deciding(c) /\ rows' = rows
     \/ /\ tx[c].mark \in {"open"} \cup Decided /\ tx[c].row \in Row
        /\ lock[tx[c].row] = c
        /\ rows' = [rows EXCEPT ![tx[c].row] = [status |-> tx[c].mark, peer |-> tx[c].peer]]
        /\ \/ rows[tx[c].row] = NoRow /\ ~Deciding(c)
           \/ /\ rows[tx[c].row].status = "open" /\ rows[tx[c].row].peer = tx[c].peer
              /\ Deciding(c) /\ tx[c].mark = Outcome(c) /\ tx[c].mark \in Decided

\* Every commit is of this kind.
LEMMA CommitRows ==
  ASSUME ModerationInv, NEW c \in Call, Commit(c)
  PROVE  CommitsOwn(c)
<1>1. Types /\ tx[c] \in Transaction /\ CallInv(c) /\ tx[c].at = "commit" /\ tx[c] # Idle
  BY Begun DEF Commit, Idle
<1>2. lock[tx[c].peer] = c /\ tx[c].peer \in Peer
  BY <1>1 DEF CallInv, Holds, HasPeer, Transaction
<1>3. rows' = View(c)
  BY DEF Commit
<1>4. CASE Deciding(c)
  <2>1. tx[c].mark = Outcome(c) /\ Outcome(c) \in Decided /\ tx[c].row \in Row
    BY <1>1, <1>4 DEF CallInv, Script, Deciding, HasMarked, InTransaction, Outcome, Decided, Row
  <2>2. /\ lock[tx[c].row] = c
        /\ rows[tx[c].row].status = "open" /\ rows[tx[c].row].peer = tx[c].peer
    BY <1>1, <1>4 DEF CallInv, Holds, HasRow
  <2> QED  BY <1>1, <1>2, <1>3, <1>4, <2>1, <2>2 DEF CommitsOwn, View, Decided
<1>5. CASE ~Deciding(c) /\ tx[c].mark = "same"
  BY <1>1, <1>2, <1>3, <1>5 DEF CommitsOwn, View
<1>6. CASE ~Deciding(c) /\ tx[c].mark # "same"
  <2>1. lock[tx[c].row] = c /\ rows[tx[c].row] = NoRow
    BY <1>1, <1>6 DEF CallInv, Holds, InTransaction
  <2>2. tx[c].row \in Row /\ tx[c].mark \in {"open"} \cup Decided
    BY <1>1, <1>6 DEF CallInv, Script, Deciding, Transaction, Op
  <2> QED  BY <1>1, <1>2, <1>3, <1>6, <2>1, <2>2 DEF CommitsOwn, View
<1> QED  BY <1>4, <1>5, <1>6

\* The rows of the other peers stay.
LEMMA CommitOthers ==
  ASSUME ModerationInv, NEW c \in Call, Commit(c), NEW p, p # tx[c].peer, NEW y \in Row
  PROVE  rows'[y] = rows[y] \/ (~Of(rows[y], p) /\ ~Of(rows'[y], p))
<1>1. CommitsOwn(c)
  BY CommitRows
<1> QED  BY <1>1 DEF CommitsOwn, Of, Types, NoRow, Decided

\* The counts were taken under the peer's lock, and every other transaction
\* that holds counts is about another peer.
LEMMA CommitKeeps ==
  ASSUME ModerationInv, NEW c \in Call, Commit(c)
  PROVE  ModerationInv'
<1> DEFINE new == [tx[c] EXCEPT !.at = "done"]
           p == tx[c].peer
<1>0. CommitsOwn(c)
  BY CommitRows
<1>1. Types /\ tx[c] \in Transaction /\ CallInv(c) /\ tx[c].at = "commit" /\ tx[c] # Idle
  BY <1>0 DEF CommitsOwn
<1>2. new \in Transaction
  BY <1>1 DEF Transaction, Ended
<1>3. tx' = [tx EXCEPT ![c] = new] /\ lock' = Released(c) /\ rows' = View(c)
  BY DEF Commit, Goes
<1>4. rows' \in [Row -> RowState]
  BY <1>1, <1>3, ViewType
<1>5. scores' \in [Peer -> [counts : CountValue, policy : Policy]]
  BY <1>1 DEF Commit, Types, Transaction
<1>6. Types'
  <2>1. lock' \in [Row \cup Peer -> Call \cup {Nobody}]
    BY <1>1, <1>3 DEF Types, Released
  <2>2. tx' \in [Call -> {Idle} \cup Transaction]
    BY <1>1, <1>2, <1>3 DEF Types
  <2> QED  BY <1>4, <1>5, <2>1, <2>2 DEF Types
<1>7. CallInv(c)'
  <2>1. tx'[c] = new
    BY <1>1, <1>3 DEF Types
  <2>2. Deciding(c) => rows'[tx[c].row].status \in Decided
    BY <1>0 DEF CommitsOwn, Types
  <2> QED  BY <1>1, <2>1, <2>2
           DEF CallInv, Script, Holds, Counted, Stands, Deciding, HasRow, HasMarked, HasPeer,
               HasCounted, HasPolicy, InTransaction, Transaction, Idle
<1>8. ASSUME NEW d \in Call, d # c PROVE CallInv(d)'
  <2>1. tx'[d] = tx[d] /\ CallInv(d) /\ (tx[d] = Idle \/ tx[d] \in Transaction)
    BY <1>1, <1>3, <1>8 DEF Types, ModerationInv
  <2>2. \A y \in Row \cup Peer : lock[y] = d => lock'[y] = d
    BY <1>1, <1>3, <1>8 DEF Released, Types
  <2>3. \A y \in Row : lock[y] = d \/ rows[y].status \in Decided => rows'[y] = rows[y]
    BY <1>0, <1>8 DEF CommitsOwn, Types, NoRow, Decided
  <2>4. tx[d] # Idle => tx[d].peer \in Peer
    BY <2>1 DEF Transaction
  <2>5. tx[d] # Idle /\ (Deciding(d) \/ tx[d].mark # "same") => tx[d].row \in Row
    BY <2>1 DEF Transaction, Op, CallInv, Script, Deciding, Row
  <2>6. Script(d)'
    BY <2>1 DEF CallInv, Script, Deciding, HasMarked, HasPolicy, HasCounted, HasPeer, Outcome, Due
  <2>7. Holds(d)'
    BY <2>1, <2>2, <2>3, <2>4, <2>5 DEF CallInv, Holds, Deciding, HasRow, HasPeer
  <2>8. Stands(d)'
    BY <2>1, <2>3, <2>5 DEF CallInv, Stands, Deciding
  <2>9. Counted(d)'
    <3> SUFFICES ASSUME tx[d] # Idle, HasCounted(d)
                 PROVE  tx[d].counts = Tally(View(d)', tx[d].peer)
      BY <2>1 DEF Counted, HasCounted, HasPeer
    <3>1. tx[d].counts = Tally(View(d), tx[d].peer) /\ lock[tx[d].peer] = d
      BY <2>1 DEF CallInv, Counted, Holds, HasCounted
    <3>2. tx[d].peer # p
      BY <1>0, <1>8, <3>1 DEF CommitsOwn
    <3>3. \A y \in Row : \/ View(d)'[y] = View(d)[y]
                         \/ ~Of(View(d)[y], tx[d].peer) /\ ~Of(View(d)'[y], tx[d].peer)
      <4> TAKE y \in Row
      <4>1. rows'[y] = rows[y] \/ (~Of(rows[y], tx[d].peer) /\ ~Of(rows'[y], tx[d].peer))
        BY <3>2, CommitOthers
      <4> QED  BY <1>1, <1>4, <2>1, <2>5, <4>1 DEF View, Types
    <3>4. Tally(View(d), tx[d].peer) = Tally(View(d)', tx[d].peer)
      BY <3>3, TallySame DEF Row
    <3> QED  BY <3>1, <3>4
  <2> QED  BY <2>6, <2>7, <2>8, <2>9 DEF CallInv
<1>9. ScoresExact'
  <2> SUFFICES ASSUME NEW q \in Peer PROVE scores'[q].counts = Tally(rows', q)
    BY DEF ScoresExact
  <2>1. CASE q = p
    BY <1>1, <1>3, <2>1 DEF Commit, Types, CallInv, Counted, HasCounted, HasPeer
  <2>2. CASE q # p
    <3>1. scores'[q] = scores[q]
      BY <1>1, <2>2 DEF Commit, Types
    <3>2. \A y \in Row : rows'[y] = rows[y] \/ (~Of(rows[y], q) /\ ~Of(rows'[y], q))
      BY <2>2, CommitOthers
    <3>3. Tally(rows, q) = Tally(rows', q)
      BY <3>2, TallySame DEF Row
    <3> QED  BY <3>1, <3>3 DEF ModerationInv, ScoresExact
  <2> QED  BY <2>1, <2>2
<1>10. DecidedOnce'
  <2>1. \A d \in Call : d # c => tx'[d] = tx[d]
    BY <1>1, <1>3 DEF Types
  <2>2. tx'[c].op = tx[c].op /\ tx'[c].row = tx[c].row
    BY <1>1, <1>3 DEF Types, Transaction
  <2>3. ASSUME NEW d \in Call, d # c, tx[d].at = "done", Deciding(d), Deciding(c)
        PROVE  tx[d].row # tx[c].row
    <3>1. rows[tx[d].row].status \in Decided
      BY <2>3 DEF ModerationInv, CallInv, Stands, Idle
    <3>2. rows[tx[c].row].status = "open"
      BY <1>1, <2>3 DEF CallInv, Holds, HasRow
    <3> QED  BY <3>1, <3>2 DEF Decided
  <2> QED  BY <2>1, <2>2, <2>3 DEF DecidedOnce, Deciding, ModerationInv
<1> QED  BY <1>6, <1>7, <1>8, <1>9, <1>10 DEF ModerationInv

\* A restart ends every transaction and frees every lock.
LEMMA CrashKeeps ==
  ASSUME ModerationInv, Crash
  PROVE  ModerationInv'
<1>1. Types /\ rows' = rows /\ scores' = scores /\ lock' = [x \in DOMAIN lock |-> Nobody]
  BY DEF ModerationInv, Crash
<1>2. ASSUME NEW c \in Call
      PROVE  \/ /\ tx[c] \in Transaction /\ tx[c] # Idle
                /\ tx'[c] = [tx[c] EXCEPT !.at = "lost"]
             \/ tx'[c] = tx[c] /\ (tx[c] = Idle \/ tx[c].at \in Ended)
  BY <1>1 DEF Crash, Types, Idle, InTransaction, Transaction
<1>3. Types'
  <2>1. ASSUME NEW c \in Call PROVE tx'[c] \in {Idle} \cup Transaction
    <3>1. CASE tx'[c] = tx[c]
      BY <1>1, <3>1 DEF Types
    <3>2. CASE tx[c] \in Transaction /\ tx'[c] = [tx[c] EXCEPT !.at = "lost"]
      BY <3>2 DEF Transaction, Ended
    <3> QED  BY <1>2, <3>1, <3>2
  <2>2. tx' \in [Call -> {Idle} \cup Transaction]
    BY <2>1 DEF Crash
  <2> QED  BY <1>1, <2>2 DEF Types
<1>4. ASSUME NEW c \in Call PROVE CallInv(c)'
  <2>1. CallInv(c) /\ (tx[c] = Idle \/ tx[c] \in Transaction)
    BY DEF ModerationInv, Types
  <2>2. CASE tx[c] \in Transaction /\ tx[c] # Idle /\ tx'[c] = [tx[c] EXCEPT !.at = "lost"]
    BY <2>1, <2>2
    DEF CallInv, Script, Holds, Counted, Stands, Deciding, HasRow, HasMarked, HasPeer, HasCounted,
        HasPolicy, InTransaction, Transaction
  <2>3. CASE tx'[c] = tx[c] /\ (tx[c] = Idle \/ tx[c].at \in Ended)
    <3>1. Script(c)' /\ Stands(c)'
      BY <1>1, <2>1, <2>3
      DEF CallInv, Script, Stands, Deciding, HasMarked, HasPolicy, HasCounted, HasPeer, Outcome, Due
    <3>2. Holds(c)' /\ Counted(c)'
      BY <2>3 DEF Holds, Counted, HasRow, HasPeer, HasCounted, InTransaction, Ended
    <3> QED  BY <3>1, <3>2 DEF CallInv
  <2> QED  BY <1>2, <2>2, <2>3
<1>5. ScoresExact'
  BY <1>1 DEF ModerationInv, ScoresExact
<1>6. DecidedOnce'
  <2>1. \A c \in Call : tx'[c].at = "done" => tx'[c] = tx[c]
    BY <1>2 DEF Transaction
  <2> QED  BY <2>1 DEF ModerationInv, DecidedOnce
<1> QED  BY <1>3, <1>4, <1>5, <1>6 DEF ModerationInv

---------------------------------------------------------------------------
\* Every step keeps the invariant.
LEMMA NextKeeps == ModerationInv /\ [Next]_vars => ModerationInv'
<1> SUFFICES ASSUME ModerationInv, [Next]_vars PROVE ModerationInv'
  OBVIOUS
<1>1. ASSUME NEW c \in Call, NEW q \in Request, Arrive(c, q) PROVE ModerationInv'
  BY <1>1, ArriveKeeps
<1>2. ASSUME NEW c \in Call, Statement(c) PROVE ModerationInv'
  BY <1>2, ConnectKeeps, InsertKeeps, SelectKeeps, MarkKeeps, LockKeeps, CountKeeps,
     SetPolicyKeeps, CommitKeeps DEF Statement
<1>3. ASSUME NEW c \in Call, Fails(c) PROVE ModerationInv'
  BY <1>3, RollbackKeeps DEF Fails, InTransaction, Idle, Ended
<1>4. CASE Crash
  BY <1>4, CrashKeeps
<1>5. CASE UNCHANGED vars
  BY <1>5 DEF vars, ModerationInv, Types, CallInv, Script, Holds, Counted, Stands, View, Deciding,
              HasRow, HasMarked, HasPeer, HasCounted, HasPolicy, Outcome, Due, ScoresExact,
              DecidedOnce
<1> QED  BY <1>1, <1>2, <1>3, <1>4, <1>5 DEF Next

\* The invariant holds in every behaviour.
LEMMA Invariant == Spec => []ModerationInv
BY InitInv, NextKeeps, PTL DEF Spec

\* A peer's score is what the rows about it add up to, whatever overlaps.
THEOREM CountsAreExact == Spec => []ScoresExact
<1>1. ModerationInv => ScoresExact
  BY DEF ModerationInv
<1> QED  BY <1>1, Invariant, PTL

\* One moderator at most is answered that a report or an appeal is decided.
THEOREM DecisionsAreSingle == Spec => []DecidedOnce
<1>1. ModerationInv => DecidedOnce
  BY DEF ModerationInv
<1> QED  BY <1>1, Invariant, PTL

\* A row is decided in the step that sets its policy.
THEOREM DecisionsTakeEffect == Spec => TakesEffect
<1>1. ModerationInv /\ [Next]_vars => [DecidesWithPolicy]_vars
  <2> SUFFICES ASSUME ModerationInv, Next PROVE DecidesWithPolicy
    OBVIOUS
  <2>1. ASSUME rows' = rows PROVE DecidesWithPolicy
    BY <2>1 DEF DecidesWithPolicy
  <2>2. ASSUME NEW c \in Call, Commit(c) PROVE DecidesWithPolicy
    <3> SUFFICES ASSUME NEW x \in Row, rows'[x].status \in Decided, rows[x].status \notin Decided
                 PROVE  scores'[rows'[x].peer].policy =
                          [banned |-> "banned", warned |-> "warning", accepted |-> "clear",
                           dismissed |-> scores[rows'[x].peer].policy,
                           rejected |-> scores[rows'[x].peer].policy][rows'[x].status]
      BY DEF DecidesWithPolicy
    <3>1. CommitsOwn(c)
      BY <2>2, CommitRows
    <3>2. /\ x = tx[c].row /\ Deciding(c) /\ tx[c].mark = Outcome(c)
          /\ rows'[x].status = Outcome(c) /\ rows'[x].peer = tx[c].peer
      <4>1. x = tx[c].row /\ rows'[x].status = tx[c].mark /\ rows'[x].peer = tx[c].peer
        BY <2>2, <3>1 DEF CommitsOwn, Types
      <4>2. ~Deciding(c) => tx[c].mark \in {"same", "open"}
        BY <3>1 DEF CommitsOwn, CallInv, Script, Deciding, Transaction, Op
      <4> QED  BY <3>1, <4>1, <4>2 DEF CommitsOwn, Decided
    <3>3. /\ tx[c].policy = Due(c)
          /\ tx[c].action \in {"dismiss", "warn", "ban", "unban", "reject"}
      BY <3>1, <3>2 DEF CommitsOwn, CallInv, Script, Deciding, HasPolicy, HasCounted, HasPeer,
                        InTransaction
    <3>4. scores'[tx[c].peer].policy =
            IF tx[c].policy = "same" THEN scores[tx[c].peer].policy ELSE tx[c].policy
      BY <2>2, <3>1 DEF Commit, CommitsOwn, Types
    <3> QED  BY <3>2, <3>3, <3>4 DEF Outcome, Due
  <2>3. ASSUME NEW c \in Call, Statement(c), ~Commit(c) PROVE rows' = rows
    BY <2>3 DEF Statement, Connect, Insert, Select, Rollback, Mark, Lock, Count, SetPolicy
  <2>4. ASSUME NEW c \in Call, (\E q \in Request : Arrive(c, q)) \/ Fails(c) PROVE rows' = rows
    BY <2>4 DEF Arrive, Fails, Rollback
  <2>5. CASE Crash
    BY <2>1, <2>5 DEF Crash
  <2> QED  BY <2>1, <2>2, <2>3, <2>4, <2>5 DEF Next
<1> QED  BY <1>1, Invariant, PTL DEF Spec, TakesEffect
============================================================================
