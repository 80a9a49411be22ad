--------------------------- MODULE RelayDelivery --------------------------
(***************************************************************************)
(* The relay queues together with the clients that drain them: a client    *)
(* polls GET /relay/fetch with the cursor of its last page, acknowledges   *)
(* what it has received, may lose an answer and may forget its cursor.     *)
(* The clients are not part of the repository; they are modelled from what *)
(* the two routes answer.                                                  *)
(***************************************************************************)
EXTENDS RelayQueue

CONSTANTS
  NoId,       \* no cursor
  Limits,     \* what parseInt makes of the limit parameter
  Default,    \* the limit of a request without one (50)
  MaxLimit    \* the largest page (500)

ASSUME PagingAssumption ==
  /\ NoId \notin Id
  /\ Limits \subseteq Int /\ Default \in Limits
  /\ MaxLimit \in Nat \ {0} /\ Default \in 1..MaxLimit

VARIABLES
  cursor,    \* cursor of each client
  mark,      \* observation: number of the entry the cursor stands for
  received,  \* observation: ids each client has received
  clean      \* observation: no poll of this pass over the queue has followed
             \* a cursor whose message had been stored again in the meantime

clientVars == <<cursor, mark, received, clean>>
allVars == <<vars, clientVars>>

---------------------------------------------------------------------------
(* GET /relay/fetch *)

\* Math.min(parseInt(limit) || 50, 500)
Limit(parsed) ==
  IF parsed = 0 THEN Default ELSE IF parsed < MaxLimit THEN parsed ELSE MaxLimit

\* Index of an entry in its queue.
Index(queue, x) == Cardinality({y \in queue : y.n < x.n})

\* Mutant: the page starts one entry further.
StartIndexSkipping(queue, from) ==
  IF \E x \in queue : x.id = from
  THEN Index(queue, CHOOSE x \in queue : x.id = from) + 2
  ELSE 0

\* Mutant: a cursor that is not in the queue any more means "nothing new".
StartIndexAtEnd(queue, from) ==
  IF from = NoId THEN 0
  ELSE IF \E x \in queue : x.id = from
  THEN Index(queue, CHOOSE x \in queue : x.id = from) + 1
  ELSE Cardinality(queue)

\* The page starts after the cursor's entry, or at the head of the queue when
\* there is none.
StartIndex(queue, from) ==
  IF \E x \in queue : x.id = from
  THEN Index(queue, CHOOSE x \in queue : x.id = from) + 1
  ELSE 0

\* Array.slice(start, start + limit): a negative end counts from the end of
\* the array.
Page(queue, from, limit) ==
  LET start == StartIndex(queue, from)
      end == IF start + limit < 0 THEN Cardinality(queue) + start + limit
             ELSE start + limit
  IN  {x \in queue : start <= Index(queue, x) /\ Index(queue, x) < end}

Latest(page) == CHOOSE x \in page : \A y \in page : y.n <= x.n

\* A poll whose answer reaches the client.
Poll(to, parsed) ==
  /\ up
  /\ \E run \in PruneRecipient(Begin(mem, disk), to) :
        LET page == Page(run.mem.store[to], cursor[to], Limit(parsed))
        IN  /\ Serves(run, {})
            /\ IF ~run.ok \/ page = {} THEN UNCHANGED clientVars
               ELSE /\ cursor' = [cursor EXCEPT ![to] = Latest(page).id]
                    /\ mark' = [mark EXCEPT ![to] = Latest(page).n]
                    /\ received' = [received EXCEPT ![to] = @ \cup {x.id : x \in page}]
                    /\ clean' = [clean EXCEPT ![to] =
                         IF \E x \in run.mem.store[to] : x.id = cursor[to]
                         THEN @ /\ \E x \in run.mem.store[to] : x.id = cursor[to] /\ x.n = mark[to]
                         ELSE TRUE]
  /\ UNCHANGED <<now, arrivals, owed, confirmed, refused>>

\* A client acknowledges a message it has received and that is still queued.
AckReceived(to, id) ==
  /\ id \in received[to] /\ Queued(Begin(mem, disk), to, id)
  /\ Ack(to, id)
  /\ UNCHANGED clientVars

\* A client starts anew, without its cursor.
Forget(to) ==
  /\ cursor[to] # NoId
  /\ cursor' = [cursor EXCEPT ![to] = NoId]
  /\ UNCHANGED <<vars, mark, received, clean>>

DeliveryInit ==
  /\ Init
  /\ cursor = [to \in Peer |-> NoId]
  /\ mark = [to \in Peer |-> 0]
  /\ received = [to \in Peer |-> {}]
  /\ clean = [to \in Peer |-> TRUE]

\* Fetch(to) is a poll whose answer is lost.
DeliveryNext ==
  \/ \E to \in Peer, parsed \in Limits : Poll(to, parsed)
  \/ \E to \in Peer, id \in Id : AckReceived(to, id)
  \/ \E to \in Peer : Forget(to)
  \/ /\ \/ \E to \in Peer, id \in Id : Store(to, id)
        \/ \E to \in Peer : Fetch(to)
        \/ PruneTimer
        \/ Crash
        \/ Restart
        \/ Tick
     /\ UNCHANGED clientVars

DeliverySpec == DeliveryInit /\ [][DeliveryNext]_allVars

\* The timer keeps firing and the container restarts a dead relay.
FairDeliverySpec ==
  /\ DeliverySpec
  /\ WF_allVars(PruneTimer /\ UNCHANGED clientVars)
  /\ WF_allVars(Restart /\ UNCHANGED clientVars)

\* A client polls again and again, some answers reach it, and it acknowledges
\* what it receives.
ClientsKeepPolling ==
  \A to \in Peer :
    /\ SF_allVars(Poll(to, Default))
    /\ \A id \in Id : SF_allVars(AckReceived(to, id))

---------------------------------------------------------------------------
(* Properties. *)

\* The messages in front of the one a client's cursor stands for, and not past
\* their time, have all been received by it: following the cursor skips
\* nothing, whatever is appended, acknowledged or pruned in between, across
\* failed saves and restarts of the relay.  The exception is a cursor whose
\* message expired or was acknowledged and was stored again: it has moved to
\* the end of the array (clean).
NoSkip ==
  \A to \in Peer : \A c \in mem.store[to] :
    clean[to] /\ c.id = cursor[to] /\ c.n = mark[to] =>
      \A x \in Fresh(mem.store[to]) : x.n < c.n => x.id \in received[to]

\* Every message whose store was answered ok reaches its recipient before its
\* retention time has passed, or that time does pass: no message stays in the
\* queue of a client that keeps polling and is never in one of its pages.
EventuallyReceived ==
  ClientsKeepPolling =>
    \A to \in Peer, n \in 0..(MaxArrivals - 1) :
      (\E o \in owed : o.to = to /\ o.item.n = n)
        ~> (\A o \in owed : o.to = to /\ o.item.n = n =>
              o.item.id \in received[to] \/ o.item.at < now - MsgTTL)
============================================================================
