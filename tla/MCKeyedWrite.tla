----------------------------- MODULE MCKeyedWrite -----------------------------
(***************************************************************************)
(* Small instances of KeyedWrite: two calls that share a key, with equal   *)
(* or different bodies, and a third whose key belongs to another epoch.    *)
(***************************************************************************)
EXTENDS CallErrors, TLC

CONSTANTS o1, o2, o3, k1, k2, b1, b2, home, away

\* Two calls, one key, two bodies: one may conflict with the other.
ConflictKeyOf == o1 :> k1 @@ o2 :> k1
ConflictBodyOf == o1 :> b1 @@ o2 :> b2

\* Two calls of the same request: a concurrent duplicate, or a reconciliation
\* of an uncertain call under its original key and body.
SameBodyOf == o1 :> b1 @@ o2 :> b1

\* A call under the pinned epoch's prefix and one under another's.
EpochKeyOf == o1 :> k1 @@ o3 :> k2
EpochBodyOf == o1 :> b1 @@ o3 :> b1

\* One call alone.
OneKeyOf == o1 :> k1
OneBodyOf == o1 :> b1

OnePrefix == k1 :> home
BothPrefixes == k1 :> home @@ k2 :> away
NoPrefix == k1 :> NoLog
=============================================================================
