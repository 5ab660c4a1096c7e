------------------------------ MODULE KeyValue ------------------------------
(***************************************************************************)
(* What a dictionary promises: a partial map from keys to values, where a  *)
(* key is put only once until it is deleted.  last is the last call with   *)
(* its arguments and its answer.                                           *)
(***************************************************************************)
CONSTANTS Keys, Vals, NULL

VARIABLES
  map,   \* map[k]: the value of k, NULL if there is none
  last

vars == <<map, last>>

Pairs == {<<k, map[k]>> : k \in {j \in Keys : map[j] # NULL}}

Init == map = [k \in Keys |-> NULL] /\ last = <<"create">>

Put(k, v) ==
  \/ map[k] = NULL /\ map' = [map EXCEPT ![k] = v] /\ last' = <<"put", k, v, "ok">>
  \/ map[k] # NULL /\ map' = map /\ last' = <<"put", k, v, "refused">>

Get(k) == map' = map /\ last' = <<"get", k, map[k]>>

Del(k) ==
  \/ map[k] = NULL /\ map' = map /\ last' = <<"del", k, "refused">>
  \/ map[k] # NULL /\ map' = [map EXCEPT ![k] = NULL] /\ last' = <<"del", k, "ok">>

Dump == map' = map /\ last' = <<"dump", Pairs>>

Destroy == map' = [k \in Keys |-> NULL] /\ last' = <<"destroy", Pairs>>

Next ==
  \/ \E k \in Keys : Get(k) \/ Del(k) \/ \E v \in Vals : Put(k, v)
  \/ Dump \/ Destroy

Spec == Init /\ [][Next]_vars
=============================================================================
