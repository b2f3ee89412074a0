---------------------------- MODULE OrderedFeed ----------------------------
(***************************************************************************)
(* What the client's event pipeline promises (EventBatcher implements it): *)
(* the events of the connection are applied once each and in the order of  *)
(* their arrival, in runs of any length; those of a session that is gone   *)
(* may be dropped while they wait, and only those, until the feed is       *)
(* closed, which drops what waits and is the last thing that happens.      *)
(***************************************************************************)
EXTENDS Naturals, Sequences

CONSTANT Sessions

VARIABLES
    backlog,    \* arrived, not yet applied: <<number of arrival, session>>
    applied,    \* numbers of the events applied so far
    arrived,    \* events that have arrived
    closed      \* nothing happens any more

Init == backlog = <<>> /\ applied = <<>> /\ arrived = 0 /\ closed = FALSE

Numbers(s) == [i \in DOMAIN s |-> s[i][1]]

(* The first n of the waiting events are applied, and the rest still wait. *)
ApplyFirst(n, waiting) ==
    /\ applied' = applied \o Numbers(SubSeq(waiting, 1, n))
    /\ backlog' = SubSeq(waiting, n + 1, Len(waiting))

Apply ==
    /\ \E n \in DOMAIN backlog : ApplyFirst(n, backlog)
    /\ UNCHANGED <<arrived, closed>>

Arrive(session) ==
    /\ arrived' = arrived + 1
    /\ LET waiting == Append(backlog, <<arrived', session>>)
       IN \E n \in 0..Len(waiting) : ApplyFirst(n, waiting)
    /\ UNCHANGED closed

(* The others stay, in their order: at[j] is where the j-th of them stood. *)
Drop(session) ==
    /\ \E n \in 0..Len(backlog) : \E at \in [1..n -> DOMAIN backlog] :
         /\ \A i, j \in 1..n : i < j => at[i] < at[j]
         /\ \A i \in DOMAIN backlog :
              backlog[i][2] # session <=> \E j \in 1..n : at[j] = i
         /\ backlog' = [j \in 1..n |-> backlog[at[j]]]
    /\ UNCHANGED <<applied, arrived, closed>>

Close == closed' = TRUE /\ backlog' = <<>> /\ UNCHANGED <<applied, arrived>>

Next ==
    /\ ~closed
    /\ \/ Apply
       \/ Close
       \/ \E session \in Sessions : Arrive(session) \/ Drop(session)

Spec == Init /\ [][Next]_<<backlog, applied, arrived, closed>>
============================================================================
