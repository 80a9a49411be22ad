-------------------------- MODULE MCDeviceRegistry -------------------------
(* An instance of DeviceRegistry for TLC. *)
EXTENDS DeviceRegistry, TLC

CONSTANTS a, b, c, d, e, t1, t2, t3

\* One user has three devices, one more than the limit; another signs in on one
\* of them.
MCRegistrant == {<<a, c>>, <<a, d>>, <<a, e>>, <<b, c>>}

\* Every device has a token of its own, the shared one for calls too; one device
\* may take the token of another.
MCRegistration ==
  {<<<<a, c>>, t1, NoToken>>, <<<<a, c>>, t1, t1>>, <<<<b, c>>, t1, t1>>,
   <<<<a, d>>, t2, NoToken>>, <<<<a, d>>, t1, NoToken>>, <<<<a, e>>, t3, NoToken>>}

\* The rows of the first user in every order.
MCOrder ==
  {[x \in Registrant |-> IF x[2] = c THEN p[1] ELSE IF x[2] = d THEN p[2] ELSE p[3]] :
     p \in Permutations(1..3)}
============================================================================
