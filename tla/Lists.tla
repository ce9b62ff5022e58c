------------------------------- MODULE Lists -------------------------------
(***************************************************************************)
(* What the functions of the repository do with lists: comprehensions with   *)
(* a condition, lists without repeats, lists of lists, and sorting.          *)
(***************************************************************************)
EXTENDS Integers, Sequences, FiniteSets

(* The elements of s that are in some, in their order.                      *)
Only(s, some) ==
  LET kept[k \in 0 .. Len(s)] ==
        IF k = 0 THEN <<>>
        ELSE IF s[k] \in some THEN Append(kept[k - 1], s[k]) ELSE kept[k - 1]
  IN  kept[Len(s)]

(* The elements of s, each where it is met first.                           *)
Once(s) ==
  LET met[k \in 0 .. Len(s)] ==
        IF k = 0 THEN <<>>
        ELSE IF \E i \in 1 .. k - 1 : s[i] = s[k] THEN met[k - 1]
        ELSE Append(met[k - 1], s[k])
  IN  met[Len(s)]

(* The lists in s, one after the other.                                     *)
Flat(s) ==
  LET flat[k \in 0 .. Len(s)] == IF k = 0 THEN <<>> ELSE flat[k - 1] \o s[k]
  IN  flat[Len(s)]

(* The order of tuples.                                                     *)
Precedes(k, l) ==
  \E n \in DOMAIN k : k[n] < l[n] /\ \A m \in 1 .. n - 1 : k[m] = l[m]

(* Python's sort, which is stable: key[i] is the key of s[i].               *)
Sorted(s, key) ==
  LET Rank(i) == Cardinality({j \in DOMAIN s :
                    \/ Precedes(key[j], key[i])
                    \/ key[j] = key[i] /\ j <= i})
  IN  [place \in DOMAIN s |->
         s[CHOOSE i \in DOMAIN s : Rank(i) = place]]

=============================================================================
