------------------------------ MODULE MCDelivery ------------------------------
(* Small instances of Delivery for TLC. *)
EXTENDS Delivery, TLC

CONSTANTS s1, s2, u1, u2, a1, a2

\* s1 goes to both users with one attachment, s2 to u1 with two.
MCSend == {s1, s2}
MCUser == {u1, u2}
MCAttachment == {a1, a2}
MCTargets == (s1 :> {u1, u2}) @@ (s2 :> {u1})
MCCarries == (s1 :> {a1}) @@ (s2 :> {a1, a2})
\* u1 deletes both of its copies, and the sender of s1 its own.
MCDeleters == {<<s1, u1>>, <<s2, u1>>, <<s1, SenderCopy>>}
MCNoDeleters == {}

===============================================================================
