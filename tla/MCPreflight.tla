----------------------------- MODULE MCPreflight -----------------------------
(***************************************************************************)
(* Small instances of Preflight: three databases, the first of which may   *)
(* be demoted, answer at length or lose part of its contract; the second   *)
(* is volatile; the third is as good as the first.                         *)
(***************************************************************************)
EXTENDS Preflight

CONSTANTS home, away, spare

Primary(epoch) ==
  [offers |-> Offer, role |-> "primary", writesAllowed |-> TRUE,
   durability |-> "commit", sync |-> "os", maxRequest |-> 64,
   maxKey |-> 12, maxResponse |-> 8, prefix |-> epoch, prefixLength |-> 8]

Volatile(epoch) == [Primary(epoch) EXCEPT !.durability = "interval", !.maxKey = 16]
Follower(epoch) == [Primary(epoch) EXCEPT !.role = "follower", !.writesAllowed = FALSE]
Wordy(epoch) == [Primary(epoch) EXCEPT !.maxResponse = 9]

Silent(epoch) == [Primary(epoch) EXCEPT !.offers = @ \ {"facts"}]

At(l, m) == [log |-> l, manifest |-> m]

\* Every database has its own prefix and its own durability.
PrefixedNodes == {At(home, Primary(home)), At(home, Follower(home)),
                  At(home, Wordy(home)), At(home, Silent(home)),
                  At(away, Volatile(away)), At(spare, Primary(spare))}

\* No database requires a prefix.
PlainNodes == {At(home, [Primary(NoLog) EXCEPT !.prefixLength = 0]),
               At(away, [Volatile(NoLog) EXCEPT !.prefixLength = 0])}

=============================================================================
