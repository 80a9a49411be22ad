--------------------------- MODULE MCPushEvents ----------------------------
(* An instance of PushEvents for TLC. *)
EXTENDS PushEvents, TLC

CONSTANTS Ann, Bob, phone, pad, ka, kb, i1, i2, i3, c1, c2, t1, t2, v1, seq

\* Bob has an Apple phone, with a message token, and another device.
BobsPhone == <<Bob, phone>>
BobsPad == <<Bob, pad>>
MCRegistrant == {BobsPhone, BobsPad}
MCApple == {BobsPhone}

MCLoaded ==
  [k \in Kind |-> BobsPad :> Unknown @@ BobsPhone :>
     IF k = "message" THEN [known |-> TRUE, token |-> t1, enabled |-> TRUE, seen |-> 1]
     ELSE Unknown]

MCDerivedKey == Ann :> NoKey @@ Bob :> kb

Request(id, from, key, bind, route) ==
  [id |-> id, from |-> from, key |-> key, at |-> 0, genuine |-> TRUE,
   bind |-> bind, route |-> route]

\* Ann calls Bob, and retries under a new id.
Rings == {Request(i, Ann, ka, "none", "guarded") : i \in {i1, i2}}
\* Bob's phone registers with a proof: a new message token and a VoIP token.
Registers == Request(i3, Bob, kb, "proof", "register")
\* The pad registers the phone's first token; the phone gives that token up.
Takes == Request(i1, Bob, kb, "none", "register")
Leaves == Request(i2, Bob, kb, "none", "unregister")
\* Another key writes to Bob in Bob's name; Bob appeals.
Poses == Request(i1, Bob, ka, "none", "guarded")
Appeals == Request(i2, Bob, kb, "none", "appeal")

Call0 == [to |-> {Bob}, key |-> seq, invite |-> TRUE, standard |-> TRUE, voip |-> TRUE,
          filtered |-> TRUE]
MCPayload ==
  [f \in Rings \cup {Registers, Takes, Leaves, Poses, Appeals} |->
     CASE f.route = "guarded" -> Call0
       [] f = Registers -> [who |-> BobsPhone, message |-> t2, voip |-> v1]
       [] f = Takes -> [who |-> BobsPad, message |-> t1, voip |-> NoToken]
       [] f = Leaves -> [who |-> BobsPhone, message |-> t1, voip |-> NoToken]
       [] OTHER -> NoToken]

MCFrames == DOMAIN MCPayload

Symmetry == Permutations(Call)
============================================================================
