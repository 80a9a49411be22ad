----------------------------- MODULE Moderation ----------------------------
(***************************************************************************)
(* Reports, appeals and decisions about peers, as transactions of the      *)
(* database.  A handler takes a connection, inserts or locks its row,      *)
(* locks the peer, counts the peer's rows into its score, sets the policy, *)
(* and commits; it awaits every statement, any statement may throw, and    *)
(* the transactions of other requests go on in between.  A statement sees  *)
(* what is committed when it starts and what its own transaction wrote.    *)
(***************************************************************************)
EXTENDS Naturals, FiniteSets

CONSTANTS
  Peer, Report, Appeal,
  Nobody,
  Request,    \* the requests clients and moderators send
  Call,       \* bound: the requests that arrive
  PoolSize,   \* connections of the pool
  MaxCrashes  \* bound: restarts of the service

Row == Report \cup Appeal

Op == {"report", "decide", "policy", "appeal", "resolve", "status"}

\* Only the requests that insert a row or name a peer use the field peer.
ASSUME ModerationAssumption ==
  /\ Report \cap Appeal = {} /\ Row \cap Peer = {} /\ Nobody \notin Call
  /\ IsFiniteSet(Call) /\ PoolSize \in Nat \ {0} /\ MaxCrashes \in Nat
  /\ Request \subseteq [op : Op, row : Row \cup {Nobody}, peer : Peer,
                        action : {"none", "dismiss", "warn", "ban", "unban", "reject"}]
  /\ \A q \in Request :
       /\ q.op \in {"report", "decide"} => q.row \in Report
       /\ q.op \in {"appeal", "resolve"} => q.row \in Appeal
       /\ q.op = "decide" => q.action \in {"dismiss", "warn", "ban"}
       /\ q.op = "policy" => q.action \in {"warn", "ban", "unban"}
       /\ q.op = "resolve" => q.action \in {"unban", "reject"}
       /\ q.op \in {"report", "appeal", "status"} => q.action = "none"

VARIABLES
  rows,    \* moderation_reports and moderation_appeals, as committed
  scores,  \* moderation_peer_scores, as committed
  lock,    \* who has locked each row, and each peer (the advisory lock)
  out,     \* the calls that have a connection of the pool
  tx,      \* the calls
  crashes

vars == <<rows, scores, lock, out, tx, crashes>>

---------------------------------------------------------------------------
\* A row's status; a decided report's is named for its action.
Undecided == {"none", "open"}
Decided == {"dismissed", "warned", "banned", "accepted", "rejected"}
NoRow == [status |-> "none"]

Policy == {"clear", "warning", "banned"}

\* What the aggregate of refreshModerationPeerScore returns.
Tally(table, p) ==
  LET Of(set, status) ==
        Cardinality({x \in set : table[x].status \in status /\ table[x].peer = p})
  IN  [reports |-> Of(Report, {"open"} \cup Decided), pending |-> Of(Report, {"open"}),
       processed |-> Of(Report, Decided), appealed |-> Of(Appeal, {"open"} \cup Decided)]

Nothing == [reports |-> 0, pending |-> 0, processed |-> 0, appealed |-> 0]

Idle == [at |-> "idle"]
InTransaction == {"insert", "select", "mark", "lock", "count", "policy", "commit"}
Ended == {"done", "missing", "refused", "failed", "lost"}

\* The tables as call c sees them.
View(c) ==
  IF tx[c].mark = "same" THEN rows
  ELSE [rows EXCEPT ![tx[c].row] = [status |-> tx[c].mark, peer |-> tx[c].peer]]

Goes(c, new) == tx' = [tx EXCEPT ![c] = new]

---------------------------------------------------------------------------
\* mark, counts and policy are what the transaction has written so far.
Arrive(c, q) ==
  /\ tx[c] = Idle
  /\ q.op = "appeal" => \* a fresh id
       rows[q.row] = NoRow /\ \A d \in Call : tx[d] # Idle => tx[d].row # q.row
  /\ Goes(c, [at |-> "connect", op |-> q.op, action |-> q.action, row |-> q.row,
              peer |-> q.peer, mark |-> "same", counts |-> Nothing, policy |-> "same"])
  /\ UNCHANGED <<rows, scores, lock, out, crashes>>

\* The first statement of each handler.
First == [report |-> "insert", appeal |-> "insert", decide |-> "select", resolve |-> "select",
          policy |-> "lock", status |-> "lock"]

\* pool.connect, which waits for a connection, and begin.
Connect(c) ==
  /\ tx[c].at = "connect"
  /\ Cardinality(out) < PoolSize
  /\ out' = out \cup {c}
  /\ Goes(c, [tx[c] EXCEPT !.at = First[tx[c].op]])
  /\ UNCHANGED <<rows, scores, lock, crashes>>

Released(c) == [x \in DOMAIN lock |-> IF lock[x] = c THEN Nobody ELSE lock[x]]

\* Mutant: the connection is given back only after a commit.
RollbackLeaking(c, at) ==
  /\ lock' = Released(c)
  /\ UNCHANGED out
  /\ Goes(c, [tx[c] EXCEPT !.at = at])
  /\ UNCHANGED <<rows, scores, crashes>>

\* rollback, and the release of the connection in finally.
Rollback(c, at) ==
  /\ lock' = Released(c)
  /\ out' = out \ {c}
  /\ Goes(c, [tx[c] EXCEPT !.at = at])
  /\ UNCHANGED <<rows, scores, crashes>>

\* The insert of a report, which does nothing if its id is there, or of an
\* appeal; it waits for a transaction that has inserted the same id.
Insert(c) ==
  LET x == tx[c].row
  IN  /\ tx[c].at = "insert"
      /\ \/ /\ rows[x] = NoRow /\ lock[x] = Nobody
            /\ lock' = [lock EXCEPT ![x] = c]
            /\ Goes(c, [tx[c] EXCEPT !.at = "lock", !.mark = "open"])
         \/ /\ rows[x] # NoRow
            /\ Goes(c, [tx[c] EXCEPT !.at = "lock"])
            /\ UNCHANGED lock
      /\ UNCHANGED <<rows, scores, out, crashes>>

\* Mutant: select without for update.
SelectUnlocked(c) ==
  LET x == tx[c].row
  IN  /\ tx[c].at = "select"
      /\ \/ rows[x] = NoRow /\ Rollback(c, "missing")
         \/ rows[x].status \in Decided /\ Rollback(c, "refused")
         \/ /\ rows[x].status = "open"
            /\ Goes(c, [tx[c] EXCEPT !.peer = rows[x].peer,
                                     !.at = IF tx[c].op = "decide" THEN "mark" ELSE "lock"])
            /\ UNCHANGED <<rows, scores, lock, out, crashes>>

\* select for update of the report or the appeal that is decided: 404 if it
\* is not there, 409 if it is no longer open when its lock is free.
Select(c) ==
  LET x == tx[c].row
  IN  /\ tx[c].at = "select"
      /\ \/ rows[x] = NoRow /\ Rollback(c, "missing")
         \/ rows[x].status \in Decided /\ lock[x] = Nobody /\ Rollback(c, "refused")
         \/ /\ rows[x].status = "open" /\ lock[x] = Nobody
            /\ lock' = [lock EXCEPT ![x] = c]
            /\ Goes(c, [tx[c] EXCEPT !.peer = rows[x].peer,
                                     !.at = IF tx[c].op = "decide" THEN "mark" ELSE "lock"])
            /\ UNCHANGED <<rows, scores, out, crashes>>

Outcome(c) == [dismiss |-> "dismissed", warn |-> "warned", ban |-> "banned",
               unban |-> "accepted", reject |-> "rejected"][tx[c].action]

\* Mutant: the update goes to the pool instead of the transaction.
MarkOutside(c) ==
  /\ tx[c].at = "mark"
  /\ Goes(c, [tx[c] EXCEPT !.at = IF tx[c].op = "decide" THEN "lock" ELSE "commit"])
  /\ rows' = [rows EXCEPT ![tx[c].row].status = Outcome(c)]
  /\ UNCHANGED <<scores, lock, out, crashes>>

\* The update of the row: of a report before the score, of an appeal after.
Mark(c) ==
  /\ tx[c].at = "mark"
  /\ Goes(c, [tx[c] EXCEPT !.mark = Outcome(c),
                           !.at = IF tx[c].op = "decide" THEN "lock" ELSE "commit"])
  /\ UNCHANGED <<rows, scores, lock, out, crashes>>

\* Mutant: the peer is not locked.
LockNot(c) ==
  /\ tx[c].at = "lock"
  /\ Goes(c, [tx[c] EXCEPT !.at = "count"])
  /\ UNCHANGED <<rows, scores, lock, out, crashes>>

\* refreshModerationPeerScore: the advisory lock of the peer.
Lock(c) ==
  /\ tx[c].at = "lock" /\ lock[tx[c].peer] = Nobody
  /\ lock' = [lock EXCEPT ![tx[c].peer] = c]
  /\ Goes(c, [tx[c] EXCEPT !.at = "count"])
  /\ UNCHANGED <<rows, scores, out, crashes>>

\* Where a transaction goes with its score.
AfterCount(c) ==
  IF tx[c].action \in {"warn", "ban", "unban"} THEN "policy"
  ELSE IF tx[c].op = "resolve" THEN "mark" ELSE "commit"

\* refreshModerationPeerScore: the aggregate and its upsert.
Count(c) ==
  /\ tx[c].at = "count"
  /\ Goes(c, [tx[c] EXCEPT !.counts = Tally(View(c), tx[c].peer), !.at = AfterCount(c)])
  /\ UNCHANGED <<rows, scores, lock, out, crashes>>

\* setModerationPeerPolicy: under the lock its own refresh counts the same
\* again.  The policy's audit is inserted with it.
SetPolicy(c) ==
  /\ tx[c].at = "policy"
  /\ Goes(c, [tx[c] EXCEPT
       !.policy = [warn |-> "warning", ban |-> "banned", unban |-> "clear"][tx[c].action],
       !.at = IF tx[c].op = "resolve" THEN "mark" ELSE "commit"])
  /\ UNCHANGED <<rows, scores, lock, out, crashes>>

Commit(c) ==
  LET p == tx[c].peer
  IN  /\ tx[c].at = "commit"
      /\ rows' = View(c)
      /\ scores' = [scores EXCEPT ![p] =
           [counts |-> tx[c].counts,
            policy |-> IF tx[c].policy = "same" THEN @.policy ELSE tx[c].policy]]
      /\ lock' = Released(c)
      /\ out' = out \ {c}
      /\ Goes(c, [tx[c] EXCEPT !.at = "done"])
      /\ UNCHANGED crashes

\* A statement throws, or no connection can be made: 503.
Fails(c) == tx[c].at \in InTransaction \cup {"connect"} /\ Rollback(c, "failed")

\* The service restarts: its connections close and the database rolls back.
Crash ==
  /\ crashes < MaxCrashes
  /\ crashes' = crashes + 1
  /\ lock' = [x \in DOMAIN lock |-> Nobody]
  /\ out' = {}
  /\ tx' = [c \in Call |-> IF tx[c].at \in InTransaction \cup {"connect"}
                           THEN [tx[c] EXCEPT !.at = "lost"] ELSE tx[c]]
  /\ UNCHANGED <<rows, scores>>

Init ==
  /\ rows = [x \in Row |-> NoRow]
  /\ scores = [p \in Peer |-> [counts |-> Nothing, policy |-> "clear"]]
  /\ lock = [x \in Row \cup Peer |-> Nobody]
  /\ out = {}
  /\ tx = [c \in Call |-> Idle]
  /\ crashes = 0

Statement(c) ==
  \/ Connect(c) \/ Insert(c) \/ Select(c) \/ Mark(c) \/ Lock(c) \/ Count(c)
  \/ SetPolicy(c) \/ Commit(c)

Next ==
  \/ \E c \in Call : \/ \E q \in Request : Arrive(c, q)
                     \/ Statement(c) \/ Fails(c)
  \/ Crash

\* The database answers every statement that does not wait for a lock, and the
\* pool hands out its connections.
Fairness == \A c \in Call : WF_vars(Statement(c))

Spec == Init /\ [][Next]_vars /\ Fairness

---------------------------------------------------------------------------
(* Properties. *)

\* The score of a peer is, whenever it can be read, what the reports and the
\* appeals that can be read add up to, whatever transactions about the peer
\* overlapped and whichever of them were rolled back.
ScoresExact == \A p \in Peer : scores[p].counts = Tally(rows, p)

\* Of the moderators that decide one report or one appeal at a time, one is
\* answered that it is decided; the others are told that it was before.
DecidedOnce ==
  \A c, d \in Call :
    /\ c # d /\ tx[c].at = "done" /\ tx[d].at = "done"
    /\ tx[c].op \in {"decide", "resolve"} /\ tx[d].op \in {"decide", "resolve"}
    => tx[c].row # tx[d].row

\* What a step that decides a row does to the policy of its peer.
DecidesWithPolicy ==
  \A x \in Row :
    rows'[x].status \in Decided /\ rows[x].status \notin Decided =>
      LET p == rows'[x].peer
      IN  scores'[p].policy =
            [banned |-> "banned", warned |-> "warning", accepted |-> "clear",
             dismissed |-> scores[p].policy, rejected |-> scores[p].policy][rows'[x].status]

\* A report is never recorded as decided, nor an appeal as accepted, without
\* the policy that goes with it, nor does a dismissal or a rejection change a
\* policy: both are there or neither, whatever fails in between.
TakesEffect == [][DecidesWithPolicy]_vars

\* Every request ends, although transactions wait for each other's rows and
\* peers and for the connections of the pool: no two wait for each other, and
\* every connection is given back.
EveryCallEnds == \A c \in Call : tx[c] # Idle ~> tx[c].at \in Ended
============================================================================
