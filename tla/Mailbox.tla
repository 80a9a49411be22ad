------------------------------ MODULE Mailbox ------------------------------
(***************************************************************************)
(* What a relay promises about messages, with nothing said of maps, saves, *)
(* tombstones or processes: a box per recipient, the messages the relay    *)
(* has promised to keep, until when each withdrawn message stays away, and *)
(* the messages it has lost count of, having failed a request about them.  *)
(* RelayQueue implements it with box the queues on the disk, for messages  *)
(* to one recipient; RelayGroup for messages to several.                   *)
(***************************************************************************)
EXTENDS Integers

CONSTANTS
  Peer,      \* recipients
  Id,        \* message ids
  Lifetime,  \* how long a message is kept
  Grace      \* how long a withdrawn message stays away

VARIABLES
  box,        \* the messages each recipient would find
  promised,   \* messages whose sender was told that they are kept
  withdrawn,  \* until when each message may not come back
  refused,    \* until when a post of each message may be turned away
  loose,      \* messages that may come and go unasked
  clock

boxVars == <<box, promised, withdrawn, refused, loose, clock>>

Live(messages) == {x \in messages : x.at >= clock - Lifetime}

\* The boxes take in the messages posted and give up those taken.  Of the
\* others only the loose ones move and those past their time leave; nothing
\* withdrawn comes back, and what is promised stays.
Moves(posted, taken) ==
  /\ \A p \in Peer : \A x \in box'[p] \ box[p] :
        /\ clock >= withdrawn[<<p, x.id>>]
        /\ <<p, x.id>> \in loose \/ (<<p, x.id>> \in posted /\ x.at = clock)
  /\ \A p \in Peer : \A x \in Live(box[p]) \ box'[p] : <<p, x.id>> \in loose \cup taken
  /\ \A o \in promised' : o.item \in Live({o.item}) => o.item \in box'[o.to]

\* A request that fails leaves its messages loose, the end of the process
\* (which loses what it has not written down) leaves none.
Fails(messages) == loose' = loose \cup messages \/ loose' = {}

\* A sender posts a message to some recipients.  If he is told so, it is in
\* the box of each, unless the recipient has turned it away; of what was
\* loose before nothing is known.
Post(recipients, id) ==
  LET posted == recipients \X {id}
      told == {r \in posted : r \notin loose}
  IN  /\ Moves(posted, {})
      /\ \/ /\ \A r \in told : clock >= refused[r] => \E x \in Live(box'[r[1]]) : x.id = id
            /\ promised' = promised \cup UNION {{[to |-> r[1], item |-> x] :
                              x \in {y \in Live(box'[r[1]]) : y.id = id}} : r \in told}
            /\ UNCHANGED loose
         \/ promised' = promised /\ Fails(posted)
      /\ UNCHANGED <<withdrawn, refused, clock>>

\* The recipient withdraws a message and no other.  If he is told so, the
\* message is gone and stays away.
Withdraw(to, id) ==
  LET r == <<to, id>>
  IN  /\ Moves({}, {r})
      /\ promised' = {o \in promised : ~(o.to = to /\ o.item.id = id)}
      /\ refused' = [refused EXCEPT ![r] = clock + Grace]
      /\ \/ /\ withdrawn' = IF r \in loose THEN withdrawn
                            ELSE [withdrawn EXCEPT ![r] = clock + Grace]
            /\ r \notin loose => \A x \in Live(box'[to]) : x.id # id
            /\ UNCHANGED loose
         \/ withdrawn' = withdrawn /\ Fails({r})
      /\ UNCHANGED clock

\* Messages past their time may go at any moment, loose ones come and go.
Expire ==
  /\ Moves({}, {})
  /\ Fails({})
  /\ UNCHANGED <<promised, withdrawn, refused, clock>>

Pass ==
  /\ clock' = clock + 1
  /\ UNCHANGED <<box, promised, withdrawn, refused, loose>>

BoxInit ==
  /\ box = [p \in Peer |-> {}]
  /\ promised = {}
  /\ \A r \in Peer \X Id : withdrawn[r] < 0 /\ refused[r] < 0
  /\ loose = {}
  /\ clock = 0

BoxNext ==
  \/ \E recipients \in SUBSET Peer, id \in Id : Post(recipients, id)
  \/ \E to \in Peer, id \in Id : Withdraw(to, id)
  \/ Expire
  \/ Pass

BoxSpec == BoxInit /\ [][BoxNext]_boxVars
============================================================================
