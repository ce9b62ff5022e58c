---------------------------- MODULE MCIngestion ----------------------------
(***************************************************************************)
(* Instances of Ingestion for TLC.                                          *)
(***************************************************************************)
EXTENDS Ingestion, TLC

(* Uploads are interchangeable, and so are workers.                         *)
Symmetry == Permutations(Jobs) \cup Permutations(Workers)

Pg(s, v, n) == [status |-> s, verdict |-> v, pieces |-> n]

(* Two revisions of a report, the second shorter; a scan to review; a scan  *)
(* with a failed page after a good one and one that is doubted and indexed  *)
(* nevertheless; blank pages; a file that no route can open.                *)
MCExtraction ==
  [c \in Contents |->
     CASE c = "long" ->
            [pages |-> <<Pg("accepted", "accepted", 2)>>,
             high |-> TRUE, warned |-> FALSE]
       [] c = "short" ->
            [pages |-> <<Pg("accepted", "accepted", 1)>>,
             high |-> TRUE, warned |-> FALSE]
       [] c = "scan" ->
            [pages |-> <<Pg("needs_review", "needs_review", 1)>>,
             high |-> FALSE, warned |-> TRUE]
       [] c = "torn" ->
            [pages |-> <<Pg("accepted", "accepted", 1),
                         Pg("accepted", "needs_review", 1),
                         Pg("failed", "failed", 1)>>,
             high |-> TRUE, warned |-> FALSE]
       [] c = "blank" ->
            [pages |-> <<Pg("failed", "failed", 0)>>,
             high |-> FALSE, warned |-> FALSE]
       [] c = "broken" -> Nil]

(* Names that differ in case are the same document key.                     *)
MCDocumentKey == [s \in Sources |-> "report.pdf"]

Id(tenant, acl) == [tenant |-> tenant, acl |-> acl]

(* An uploader of each of two tenants, which share no group.                *)
MCTenants == {Id("kb", {"billing"}), Id("acme", {"hr"})}

(* An uploader of each of two tenants; the second has no ACL group.         *)
MCTwoIdentities == {Id("kb", {"billing"}), Id("acme", {})}

MCOneIdentity == {Id("kb", {"billing"})}

=============================================================================
