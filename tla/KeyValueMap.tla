--------------------------- MODULE KeyValueMap ---------------------------
(***************************************************************************)
(* What a hash table promises to those who hold its lock: it is a function *)
(* from keys to values.  dict is that function and result what the last    *)
(* operation returned.                                                     *)
(***************************************************************************)
EXTENDS Naturals, Sequences

CONSTANTS Keys, Values,
          NoValue   \* of a key that is absent, of a copy that failed

VARIABLES dict, result

vars == <<dict, result>>

Pairs == {<<k, dict[k]>> : k \in {k \in Keys : dict[k] # NoValue}}

Init ==
  /\ dict = [k \in Keys |-> NoValue]
  /\ result = <<>>

\* A put that fails changes nothing.
Put(k, v) ==
  \/ /\ dict' = [dict EXCEPT ![k] = v]
     /\ result' = <<"put", k, TRUE>>
  \/ /\ UNCHANGED dict
     /\ result' = <<"put", k, FALSE>>

Find(k) ==
  /\ result' = <<"find", k, dict[k]>>
  /\ UNCHANGED dict

Remove(k) ==
  /\ dict' = [dict EXCEPT ![k] = NoValue]
  /\ result' = <<"remove", k, TRUE>>

\* A copy is the whole function, of one moment, or it fails.
Copy ==
  /\ result' \in {<<"copy", dict>>, <<"copy", NoValue>>}
  /\ UNCHANGED dict

\* An iteration passes each pair once, and all of them unless it was stopped.
Foreach ==
  /\ UNCHANGED dict
  /\ Len(result') = 3
  /\ result'[1] = "foreach"
  /\ LET seen == result'[2]
         passed == {seen[i] : i \in DOMAIN seen}
     IN /\ \A i, j \in DOMAIN seen : i # j => seen[i] # seen[j]
        /\ passed \subseteq Pairs
        /\ result'[3] => passed = Pairs

Destroy ==
  /\ dict' = [k \in Keys |-> NoValue]
  /\ UNCHANGED result

Next ==
  \/ \E k \in Keys : Find(k) \/ Remove(k) \/ \E v \in Values : Put(k, v)
  \/ Copy \/ Foreach \/ Destroy

Spec == Init /\ [][Next]_vars
====
