--------------------------- MODULE DocumentStore ---------------------------
(***************************************************************************)
(* What ingestion promises, without a queue, a worker or a failure: an      *)
(* accepted upload may be published, any number of times; its points then   *)
(* enter the index all at once, in the place of those with the same ids,    *)
(* stamped with the identity it was accepted under.  Nothing else writes    *)
(* the index.                                                               *)
(***************************************************************************)
EXTENDS Documents

VARIABLES
  accepted,  (* accepted[j], the Upload of job j or Nil                     *)
  index      (* the vector index, from point ids to payloads                *)

Init == accepted = [j \in Jobs |-> Nil] /\ index = NoPoints

Accept(j, u) ==
  /\ accepted[j] = Nil
  /\ accepted' = [accepted EXCEPT ![j] = u]
  /\ UNCHANGED index

Publish(j) ==
  /\ accepted[j] # Nil
  /\ Usable(accepted[j])
  /\ index' = Upserted(index, Points(j, accepted[j]))
  /\ UNCHANGED accepted

Next == \E j \in Jobs : Publish(j) \/ \E u \in Upload : Accept(j, u)

Spec == Init /\ [][Next]_<<accepted, index>>

=============================================================================
