----------------------------- MODULE MCRetention -----------------------------
(* Small instances of Retention for TLC. *)
EXTENDS Retention, TLC

CONSTANTS u1, u2, a1, j1, j2, c1

\* Two messages of u1 and one of u2, all with the same attachment.
MCOwnerOf == [m \in 1 .. N |-> IF m <= 2 THEN u1 ELSE u2]
MCOneOwner == [m \in 1 .. N |-> u1]
MCAttachment == {a1}
MCCarries == [m \in 1 .. N |-> {a1}]
MCCreatedAt == [m \in 1 .. N |-> m - N - 1]
MCExpiresAt == [m \in 1 .. N |-> IF m = 2 THEN 0 ELSE Never]
MCJob == {j1, j2}
\* j1 empties the trash, j2 runs passes of every kind; or no quota passes; or
\* two instances that enforce quotas.
MCKinds == (j1 :> {"trash"}) @@ (j2 :> {"trash", "expired", "quota"})
MCCleanKinds == (j1 :> {"trash"}) @@ (j2 :> {"expired"})
MCQuotaKinds == (j1 :> {"quota"}) @@ (j2 :> {"quota"})
MCCall == {c1}
MCNoCall == {}
=============================================================================
