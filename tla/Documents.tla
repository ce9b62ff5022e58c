----------------------------- MODULE Documents -----------------------------
(***************************************************************************)
(* What an ingestion makes of an upload, as api/tasks.py has it computed:   *)
(* which pieces of the document are embedded, under which point ids, with   *)
(* which payload, and what the job's result says.  No state.                *)
(*                                                                          *)
(* A document's text is abstracted to places: piece i of page p.  What the  *)
(* extraction finds in a file is data, the constant Extraction; chunk ids   *)
(* are uuid5 hashes, modelled as the record of what is hashed.              *)
(***************************************************************************)
EXTENDS Integers, Sequences, FiniteSets

CONSTANTS
  Tenants,              (* tenant ids                                       *)
  Groups,               (* ACL groups                                       *)
  Sources,              (* filenames as the client sends them               *)
  Contents,             (* the bytes a file can hold                        *)
  Jobs,                 (* uploads: storage uuid and task id, both fresh    *)
  Extraction,           (* what is found in each content, Nil if it raises  *)
  DocumentKey,          (* a filename as identifiers._normalize folds it    *)
  Pipeline,             (* "legacy", "legacy_adaptive" (PDF by OCR) or      *)
                        (* "canonical"                                      *)
  ALLOW_NEEDS_REVIEW,   (* INGESTION_ALLOW_NEEDS_REVIEW                     *)
  FAIL_ON_ZERO_CHUNKS,  (* INGESTION_FAIL_ON_ZERO_CHUNKS                    *)
  Nil

Statuses == {"accepted", "needs_review", "failed"}

(* The status the extractor gave a page, the verdict of the quality scorer, *)
(* never better than it, and the number of pieces the page is split into.   *)
Page == {page \in [status: Statuses, verdict: Statuses, pieces: Nat] :
           /\ page.status = "failed" => page.verdict = "failed"
           /\ page.status = "needs_review" => page.verdict # "accepted"}

(* high: the mean score of the pages is in the accepted band; warned: the   *)
(* router had to fall back.                                                 *)
Document == [pages: Seq(Page), high: BOOLEAN, warned: BOOLEAN]

Upload == [tenant: Tenants, acl: SUBSET Groups, source: Sources,
           content: Contents]

ASSUME DocumentsAssumption ==
  /\ Pipeline \in {"legacy", "legacy_adaptive", "canonical"}
  /\ {ALLOW_NEEDS_REVIEW, FAIL_ON_ZERO_CHUNKS} \subseteq BOOLEAN
  /\ DocumentKey \in [Sources -> Sources]
  /\ Extraction \in [Contents -> Document \cup {Nil}]
  /\ Nil \notin Upload

-----------------------------------------------------------------------------
PagesOf(u) == Extraction[u.content].pages

(* The adapter makes one chunk of a page.                                   *)
PiecesOf(page) ==
  IF Pipeline = "legacy_adaptive" /\ page.pieces > 0 THEN 1 ELSE page.pieces

(* The gate in front of the index.  The native parsers have none.           *)
Embeddable(page) ==
  \/ Pipeline = "legacy"
  \/ page.status = "accepted"
  \/ page.status = "needs_review" /\ ALLOW_NEEDS_REVIEW

(* Parsing and chunking an upload raise nothing.  Without an ACL group the  *)
(* chunkers refuse; the adapter refuses a document over any single page it  *)
(* cannot embed.                                                            *)
Usable(u) ==
  /\ Extraction[u.content] # Nil
  /\ Pipeline # "legacy" => u.acl # {}
  /\ Pipeline = "legacy_adaptive" =>
       \A p \in DOMAIN PagesOf(u) :
         PagesOf(u)[p].status = "accepted" /\ PagesOf(u)[p].pieces > 0

(* The places of the text that was extracted: piece i of page p.            *)
Places(u) ==
  UNION {{<<p, i>> : i \in 1 .. PagesOf(u)[p].pieces} :
           p \in DOMAIN PagesOf(u)}

(* The places that are embedded.                                            *)
Kept(u) ==
  UNION {{<<p, i>> : i \in 1 .. PiecesOf(PagesOf(u)[p])} :
           p \in {q \in DOMAIN PagesOf(u) : Embeddable(PagesOf(u)[q])}}

(* Slips of the chunk id, for mutation runs: no tenant prefix, a key that   *)
(* is fresh for every upload.                                               *)
PointIdWithoutTenant(j, u, place) ==
  [tenant |-> Nil, document |-> u.source, revision |-> Nil, place |-> place]

PointIdPerUpload(j, u, place) ==
  [tenant |-> u.tenant, document |-> j, revision |-> u.content,
   place |-> place]

(* What a chunk id calls the document.  The native parsers number the       *)
(* pieces of a filename; the typed pipelines hash a document key, which is  *)
(* the storage name for the adapter.                                        *)
KeyOf(j, u) ==
  CASE Pipeline = "legacy" -> u.source
    [] Pipeline = "legacy_adaptive" -> j
    [] Pipeline = "canonical" -> DocumentKey[u.source]

(* The chunk id, prefixed with the tenant; the typed pipelines hash the     *)
(* sha256 of the content too.                                               *)
PointId(j, u, place) ==
  [tenant |-> u.tenant,
   document |-> KeyOf(j, u),
   revision |-> IF Pipeline = "legacy" THEN Nil ELSE u.content,
   place |-> place]

(* The payload, stamped with the identity of the uploader's token.          *)
Payload(u, place) ==
  [tenant |-> u.tenant, acl |-> u.acl, source |-> u.source,
   content |-> u.content, place |-> place]

(* The points of an upload, by id.                                          *)
Points(j, u) ==
  [id \in {PointId(j, u, place) : place \in Kept(u)} |-> Payload(u, id.place)]

(* The points a question may be answered from: the filter of the search     *)
(* takes the tenant and the ACL groups of the caller's token.               *)
Found(index, tenant, groups) ==
  {id \in DOMAIN index :
     index[id].tenant = tenant /\ index[id].acl \cap groups # {}}

(* client.upsert: a point replaces the one that has its id.                 *)
Upserted(index, points) ==
  [id \in DOMAIN index \cup DOMAIN points |->
     IF id \in DOMAIN points THEN points[id] ELSE index[id]]

NoPoints == [id \in {} |-> Nil]

-----------------------------------------------------------------------------
(* The job's result.                                                        *)

HasVerdict(u, v) == \E p \in DOMAIN PagesOf(u) : PagesOf(u)[p].verdict = v

(* A slip of the result, for mutation runs: warnings do not count.          *)
CleanDespiteWarnings(u) == Extraction[u.content].high

(* Failed pages and pages to review are warnings of the quality report.     *)
Clean(u) ==
  /\ Extraction[u.content].high
  /\ ~Extraction[u.content].warned
  /\ ~HasVerdict(u, "failed") /\ ~HasVerdict(u, "needs_review")

Verdicts == {"none", "indexed", "indexed_with_warnings", "needs_review",
             "failed"}

IndexedVerdict(u) == IF Clean(u) THEN "indexed" ELSE "indexed_with_warnings"

EmptyVerdict(u) ==
  IF HasVerdict(u, "needs_review") THEN "needs_review" ELSE "failed"

Verdict(u) ==
  IF Pipeline # "canonical" THEN "none"
  ELSE IF Kept(u) # {} THEN IndexedVerdict(u) ELSE EmptyVerdict(u)

(* IngestionError: nothing embedded and nothing to review.                  *)
Refused(u) == Verdict(u) = "failed" /\ FAIL_ON_ZERO_CHUNKS

ResultOf(u) == [chunks |-> Cardinality(Kept(u)), verdict |-> Verdict(u)]

=============================================================================
