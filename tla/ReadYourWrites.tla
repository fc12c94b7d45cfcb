--------------------------- MODULE ReadYourWrites ---------------------------
(***************************************************************************)
(* What a search lane promises its readers, without rows, leases, workers  *)
(* and retries: a number below which nothing is missing.  A writer that    *)
(* was told position n and reads when the number has reached n finds what  *)
(* it wrote, because nothing is announced below the number any more and    *)
(* everything announced there was indexed before it moved (TRANSACTIONS    *)
(* section 11).  The number may fall: then readers only wait longer.       *)
(* Documents of evidence whose purge is announced are promised to nobody:  *)
(* they may go at any time, and the number passes no purge not yet done.   *)
(***************************************************************************)
EXTENDS Naturals

CONSTANT Position       \* numbers a write can be announced under, all positive

VARIABLES
    announced,  \* what the write at a position is to the lane, "NONE" for nothing
    reach,      \* the number readers compare their position with
    index,      \* positions of the versions readers can find
    purged      \* the evidence of the versions has been purged from the lane

lane == <<announced, reach, index, purged>>

\* from then on documents may go at any time, by the hand of another lane
PurgeAnnounced == \E n \in Position : announced[n] = "PURGE"

\* a version is missing at m if readers who wait for m may not find it
Whole(m) ==
    \/ PurgeAnnounced
    \/ \A n \in Position : n <= m /\ announced[n] = "VERSION" => n \in index

Clean(m) == \A n \in Position : n <= m /\ announced[n] = "PURGE" => purged

Init ==
    /\ announced = [n \in Position |-> "NONE"]
    /\ reach = 0
    /\ index = {}
    /\ purged = FALSE

\* never at or below the number that is shown; no version rests on evidence whose purge
\* is announced
Announce(n, k) ==
    /\ announced[n] = "NONE"
    /\ n > reach
    /\ k = "VERSION" => ~ PurgeAnnounced
    /\ announced' = [announced EXCEPT ![n] = k]
    /\ UNCHANGED <<reach, index, purged>>

Index(n) ==
    /\ announced[n] = "VERSION"
    /\ index' = index \cup {n}
    /\ UNCHANGED <<announced, reach, purged>>

\* the number is that of something announced
Shows(m) == m # 0 => announced[m] # "NONE"

Move(m) ==
    /\ Shows(m)
    /\ Whole(m)
    /\ Clean(m)
    /\ reach' = m
    /\ UNCHANGED <<announced, index, purged>>

\* a purge may let the number move in the same step
Purge(m) ==
    /\ PurgeAnnounced
    /\ Shows(m)
    /\ index' = {}
    /\ purged' = TRUE
    /\ reach' = m
    /\ UNCHANGED announced

\* documents go before, or without, the purge of this lane
Withdraw ==
    /\ PurgeAnnounced
    /\ index' = {}
    /\ UNCHANGED <<announced, reach, purged>>

\* readers are told that nothing is there until it has been indexed again
Rebuild ==
    /\ reach' = 0
    /\ index' = {}
    /\ purged' = FALSE
    /\ UNCHANGED announced

Next ==
    \/ \E n \in Position : \/ \E k \in {"VERSION", "PURGE", "OTHER"} : Announce(n, k)
                           \/ Index(n)
    \/ \E m \in Position \cup {0} : Move(m) \/ Purge(m)
    \/ Withdraw
    \/ Rebuild

Spec == Init /\ [][Next]_lane
=============================================================================
