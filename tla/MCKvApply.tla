----------------------------- MODULE MCKvApply -----------------------------
(***************************************************************************)
(* KvApply for TLC.  Text is made of the parts 3, 4 ("a", "b") and 7, which *)
(* is not UTF-8.  Nodes and clients are interchangeable.                   *)
(***************************************************************************)
EXTENDS KvApply, TLC

\* No action reads acked.
WithoutAcked ==
  <<raftVars, nodeVars, store, task, boundVars, executed, since, led>>

Symmetry == Permutations(Node) \cup Permutations(Client)

PlainKeys == {<<3>>}
\* "b:a": a follower reads the key "b", and a range that ends before it.
SplitKeys == {<<4, 3>>}
PlainValues == {<<5>>}
BinaryValues == {<<7>>}

OneKey == {One}
\* Every key from the first on; a range that ends before it starts.
OddEnds == {FromKey, <<3>>}
FromOnly == {FromKey}
\* One plain key, or a range that ends before it.
EndsBefore == {One, <<2>>}

NoFlags == {{}}
KeepValue == {{}, {"ignore_value"}}

IfMissing(k, success, failure) ==
  [compare |-> {[key |-> k, target |-> "version", result |-> "Equal", operand |-> 0]},
   success |-> success, failure |-> failure]

TxnOp(type, k, val) == [type |-> type, key |-> k, val |-> val, lease |-> 0]

\* Create a key if it is missing, else read it.
Creations == {IfMissing(k, <<TxnOp("put", k, <<5>>)>>, <<TxnOp("range", k, One)>>) : k \in Key}
\* Create a key if it is missing, else read and delete it.
Toggles ==
  {IfMissing(k, <<TxnOp("put", k, <<5>>)>>,
             <<TxnOp("range", k, One), TxnOp("delete", k, One)>>) : k \in Key}
=============================================================================
