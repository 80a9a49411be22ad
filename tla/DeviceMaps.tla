----------------------------- MODULE DeviceMaps ----------------------------
(***************************************************************************)
(* The device registry of the push service in memory: for messages and for *)
(* VoIP, a map of each user's devices and a map of each token's owner.     *)
(* What changes them is synchronous.                                       *)
(***************************************************************************)
EXTENDS Integers, FiniteSets, FiniteSetsExt

CONSTANTS
  User, DeviceId,
  Registrant,  \* the <<user, device id>> pairs that register
  Token, NoToken, Nobody,
  MaxDevices   \* PUSH_MAX_DEVICES_PER_USER

ASSUME MapsAssumption ==
  /\ Registrant \subseteq User \X DeviceId /\ IsFiniteSet(Registrant)
  /\ NoToken \notin Token /\ Nobody \notin Registrant
  /\ MaxDevices \in Nat \ {0}

Kind == {"message", "voip"}

VARIABLES
  devices,   \* devicesByUser and voipDevicesByUser, by kind
  owner      \* tokenToOwner and voipTokenToOwner, by kind

\* A device in memory; seen orders the devices of one user by lastSeenAt.
Device == [known : BOOLEAN, token : Token \cup {NoToken}, enabled : BOOLEAN, seen : Nat]
Unknown == [known |-> FALSE, token |-> NoToken, enabled |-> FALSE, seen |-> 0]

OfUser(r) == {x \in Registrant : x[1] = r[1]}

\* A time after every time in the map at which r's user was seen.
Later(map, r) == 1 + Max({0} \cup {map[x].seen : x \in OfUser(r)})

---------------------------------------------------------------------------
(* registerDeviceGeneric *)

\* Mutant: the device that had the token stays enabled.
DisownNothing(map, owned, r, t) == map

\* The previous owner's device is disabled if it still has the token.
Disown(map, owned, r, t) ==
  [x \in Registrant |->
     IF x = owned[t] /\ x # r /\ map[x].known /\ map[x].token = t
     THEN [map[x] EXCEPT !.enabled = FALSE] ELSE map[x]]

\* The device that makes room for r: the one seen longest ago, enabled or not.
Evicted(map, r) ==
  LET known == {x \in OfUser(r) : map[x].known}
  IN IF map[r].known \/ Cardinality(known) < MaxDevices THEN {Nobody}
     ELSE {x \in known : \A y \in known : map[x].seen <= map[y].seen}

\* The evicted device's token loses its owner if the owner has that device
\* id: the owner's user is not compared.
Freed(map, owned, e) ==
  [k \in Token |->
     IF e # Nobody /\ owned[k] # Nobody /\ map[e].token = k /\ owned[k][2] = e[2]
     THEN Nobody ELSE owned[k]]

RegisterIn(kind, r, t) ==
  LET map == Disown(devices[kind], owner[kind], r, t)
  IN \E e \in Evicted(map, r) :
       /\ devices' = [devices EXCEPT ![kind] =
            [x \in Registrant |->
               IF x = r THEN [known |-> TRUE, token |-> t, enabled |-> TRUE,
                              seen |-> Later(map, r)]
               ELSE IF x = e THEN Unknown ELSE map[x]]]
       /\ owner' = [owner EXCEPT ![kind] = [Freed(map, owner[kind], e) EXCEPT ![t] = r]]

\* Mutant: the device is disabled whatever token it has.
UnregisterAnyToken(kind, r, t) ==
  /\ devices[kind][r].known
  /\ devices' = [devices EXCEPT ![kind][r].enabled = FALSE]
  /\ owner' = [owner EXCEPT ![kind][t] = IF @ = r THEN Nobody ELSE @]

\* unregisterDeviceGeneric, when the device is there with this token.
UnregisterIn(kind, r, t) ==
  /\ devices[kind][r].known /\ devices[kind][r].token = t
  /\ devices' = [devices EXCEPT ![kind][r].enabled = FALSE]
  /\ owner' = [owner EXCEPT ![kind][t] = IF @ = r THEN Nobody ELSE @]

---------------------------------------------------------------------------
(* What a fan-out reads. *)

\* getActiveTokensForUsers and getActiveVoipTokensForUsers
ActiveTokens(kind, users) ==
  {[kind |-> kind, who |-> x, token |-> devices[kind][x].token] :
     x \in {y \in Registrant : y[1] \in users /\ devices[kind][y].enabled}}

\* hasActiveVoipTokenForDevice
HasActiveVoip(r) == devices["voip"][r].enabled
============================================================================
