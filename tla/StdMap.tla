------------------------------- MODULE StdMap -------------------------------
EXTENDS Integers, Sequences

(***************************************************************************)
(* The operations of std::map that the two pintools use.  A map is a       *)
(* function whose domain is the set of keys inserted so far.               *)
(***************************************************************************)

\* std::map<K, V>() : no key is present.
EmptyMap == [k \in {} |-> k]

\* m.find(k) != m.end() ? m[k] : d
Lookup(m, k, d) == IF k \in DOMAIN m THEN m[k] ELSE d

\* m[k] = v : overwrites the value of k, or inserts k.
Put(m, k, v) == [x \in DOMAIN m \cup {k} |-> IF x = k THEN v ELSE m[x]]

\* m is a map from keys in K to values in V.
IsMap(m, K, V) == /\ DOMAIN m \subseteq K
                  /\ m \in [DOMAIN m -> V]

\* A map of counts, unit by unit: one pair <<k, i>> for each unit i counted
\* under k, so that the number of pairs is the sum over the map.
Units(counts) == UNION { {k} \X (1 .. counts[k]) : k \in DOMAIN counts }

\* The lengths of a map of sequences.
Lengths(m) == [k \in DOMAIN m |-> Len(m[k])]
=============================================================================
