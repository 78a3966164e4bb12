-------------------------- MODULE ReplicatedStore --------------------------
(***************************************************************************)
(* What the cluster promises its clients: one history of writes, which     *)
(* only grows, and replicas each of which performs every write of it       *)
(* once and in the order of the history, except the coordinator, which may *)
(* exchange writes that were asked for at the same time.  A replica that   *)
(* restarts keeps what it performed and performs the history again.        *)
(***************************************************************************)
EXTENDS Integers, Sequences

CONSTANT Replica

VARIABLES
  history,          \* the writes in the order they were committed
  coordinator,      \* the replica that serves clients, if one does
  replica,          \* replica -> the writes it performed, with their place in history
  begun             \* replica -> how many of them before it last started

vars == <<history, coordinator, replica, begun>>

\* The writes it performed since it started.
Performed(n) == {replica[n][p].at : p \in (begun[n] + 1)..Len(replica[n])}

Init ==
  /\ history = <<>>
  /\ replica = [n \in Replica |-> <<>>]
  /\ begun = [n \in Replica |-> 0]

Commit ==
  /\ Len(history') > Len(history)
  /\ SubSeq(history', 1, Len(history)) = history
  /\ UNCHANGED <<coordinator, replica, begun>>

Coordinate ==
  /\ coordinator' # coordinator
  /\ UNCHANGED <<history, replica, begun>>

Perform(n) ==
  \E i \in DOMAIN history \ Performed(n) :
    /\ n # coordinator => i = Len(replica[n]) - begun[n] + 1
    /\ replica' = [replica EXCEPT ![n] = Append(@, [at |-> i, write |-> history[i]])]
    /\ UNCHANGED <<history, coordinator, begun>>

Restart(n) ==
  /\ begun' = [begun EXCEPT ![n] = Len(replica[n])]
  /\ UNCHANGED <<history, coordinator, replica>>

Next == Commit \/ Coordinate \/ \E n \in Replica : Perform(n) \/ Restart(n)

Spec == Init /\ [][Next]_vars

\* Every replica performs the i-th write, and does so again after a restart.
CatchesUp(i) == \A n \in Replica : i \in DOMAIN history ~> i \in Performed(n)
=============================================================================
