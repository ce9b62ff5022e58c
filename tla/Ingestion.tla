----------------------------- MODULE Ingestion -----------------------------
(***************************************************************************)
(* From POST /documents/upload to the vector index: the API saves a file    *)
(* and queues a task (api/routers/documents.py), a Celery worker runs it    *)
(* (api/tasks.py), Qdrant takes the points (eda/index.py) and Redis keeps   *)
(* the status the client polls.                                             *)
(*                                                                          *)
(* Celery and Redis are modelled from how celery_app.py configures them:    *)
(* acknowledgement when a task starts, prefetching, a visibility timeout    *)
(* after which an unacknowledged message is delivered again, a stored       *)
(* SUCCESS that no later status replaces.                                   *)
(***************************************************************************)
EXTENDS Documents, SequencesExt

CONSTANTS
  Workers,          (* worker processes, each with one pool slot            *)
  Identities,       (* tenant and ACL groups of the tokens that upload      *)
  Prefetch,         (* messages a worker reserves ahead                     *)
  MaxCrashes,       (* bound: worker or pool process deaths                 *)
  MaxFaults,        (* bound: calls to the model or to Qdrant that fail     *)
  MaxRedeliveries   (* bound: visibility timeouts                           *)

ASSUME IngestionAssumption ==
  /\ Identities \subseteq [tenant: Tenants, acl: SUBSET Groups]
  /\ {Prefetch, MaxCrashes, MaxFaults, MaxRedeliveries} \subseteq Nat

ASSUME WorkersAssumption == IsFiniteSet(Workers) /\ Workers # {}

VARIABLES
  upload,        (* upload[j], what was saved for job j, or Nil             *)
  sent,          (* the jobs whose message reached the broker               *)
  waiting,       (* the broker's queue                                      *)
  reserved,      (* reserved[w], messages prefetched and not yet started    *)
  task,          (* task[w], what the pool slot of w is doing               *)
  status,        (* status[j], as the result backend has it                 *)
  result,        (* result[j], the stored return value, or Nil              *)
  collection,    (* the Qdrant collection exists                            *)
  index,         (* the points in it                                        *)
  crashes, faults, redeliveries

counters == <<crashes, faults, redeliveries>>
broker == <<sent, waiting, reserved, redeliveries>>
vars == <<upload, sent, waiting, reserved, task, status, result, collection,
          index, counters>>

(* A reserved message; held until its visibility timeout gives it away.     *)
Message == [job: sent, held: BOOLEAN]

Free == [at |-> "free"]

Steps == {"parse", "check", "create", "upsert", "report"}

PayloadType == [tenant: Tenants, acl: SUBSET Groups, source: Sources,
                content: Contents, place: Nat \X Nat]

Result == [chunks: Nat, verdict: Verdicts]

(* Every variable has its type, and what is queued, reserved, run or has a  *)
(* status belongs to a job whose file was written before it was sent.       *)
TypeOK ==
  /\ upload \in [Jobs -> Upload \cup {Nil}]
  /\ sent \subseteq {j \in Jobs : upload[j] # Nil}
  /\ waiting \in Seq(sent)
  /\ reserved \in [Workers -> Seq(Message)]
  /\ task \in [Workers -> {Free} \cup [at: Steps, job: sent]]
  /\ status \in [Jobs -> {"PENDING", "STARTED", "SUCCESS", "FAILURE"}]
  /\ result \in [Jobs -> Result \cup {Nil}]
  /\ collection \in BOOLEAN
  /\ \A j \in Jobs \ sent : status[j] = "PENDING"
  /\ \A id \in DOMAIN index : index[id] \in PayloadType
  /\ crashes \in Nat /\ faults \in Nat /\ redeliveries \in Nat

Init ==
  /\ upload = [j \in Jobs |-> Nil]
  /\ sent = {}
  /\ waiting = <<>>
  /\ reserved = [w \in Workers |-> <<>>]
  /\ task = [w \in Workers |-> Free]
  /\ status = [j \in Jobs |-> "PENDING"]
  /\ result = [j \in Jobs |-> Nil]
  /\ collection = FALSE
  /\ index = NoPoints
  /\ crashes = 0 /\ faults = 0 /\ redeliveries = 0

-----------------------------------------------------------------------------
(* The API.  The file is saved under a fresh name, then the task is queued. *)
(* An API that dies in between leaves a file that nothing refers to.        *)

Save(j, who, source, content) ==
  /\ upload[j] = Nil
  /\ upload' = [upload EXCEPT ![j] =
                  [tenant |-> who.tenant, acl |-> who.acl, source |-> source,
                   content |-> content]]
  /\ UNCHANGED <<broker, task, status, result, collection, index, crashes,
                 faults>>

(* A slip for mutation runs: queued before the file is written.             *)
EnqueueUnsaved(j) ==
  /\ j \notin sent
  /\ sent' = sent \cup {j}
  /\ waiting' = Append(waiting, j)
  /\ UNCHANGED <<upload, reserved, task, status, result, collection, index,
                 counters>>

Enqueue(j) ==
  /\ upload[j] # Nil
  /\ j \notin sent
  /\ sent' = sent \cup {j}
  /\ waiting' = Append(waiting, j)
  /\ UNCHANGED <<upload, reserved, task, status, result, collection, index,
                 counters>>

-----------------------------------------------------------------------------
(* The worker's consumer.                                                   *)

Receive(w) ==
  /\ waiting # <<>>
  /\ Len(reserved[w]) < Prefetch
  /\ reserved' = [reserved EXCEPT ![w] =
                    Append(@, [job |-> Head(waiting), held |-> TRUE])]
  /\ waiting' = Tail(waiting)
  /\ UNCHANGED <<upload, sent, task, status, result, collection, index,
                 counters>>

(* A message that waits behind a long task outlives its visibility timeout: *)
(* it is put back at the head of the queue, and the worker still has it.    *)
Redeliver(w, i) ==
  /\ redeliveries < MaxRedeliveries
  /\ i \in DOMAIN reserved[w] /\ reserved[w][i].held
  /\ task[w] # Free
  /\ reserved' = [reserved EXCEPT ![w][i].held = FALSE]
  /\ waiting' = <<reserved[w][i].job>> \o waiting
  /\ redeliveries' = redeliveries + 1
  /\ UNCHANGED <<upload, sent, task, status, result, collection, index,
                 crashes, faults>>

(* What the backend keeps of a status: a SUCCESS is final.                  *)
Store(j, s, value) ==
  IF status[j] = "SUCCESS" THEN UNCHANGED <<status, result>>
  ELSE /\ status' = [status EXCEPT ![j] = s]
       /\ result' = [result EXCEPT ![j] = value]

(* A slip for mutation runs: started over the task that holds the slot.     *)
BeginOverBusySlot(w) ==
  /\ reserved[w] # <<>>
  /\ LET j == Head(reserved[w]).job IN
       /\ task' = [task EXCEPT ![w] = [at |-> "parse", job |-> j]]
       /\ Store(j, "STARTED", Nil)
  /\ reserved' = [reserved EXCEPT ![w] = Tail(@)]
  /\ UNCHANGED <<upload, sent, waiting, collection, index, counters>>

(* The message is acknowledged, then the task runs.                         *)
Begin(w) ==
  /\ task[w] = Free
  /\ reserved[w] # <<>>
  /\ LET j == Head(reserved[w]).job IN
       /\ task' = [task EXCEPT ![w] = [at |-> "parse", job |-> j]]
       /\ Store(j, "STARTED", Nil)
  /\ reserved' = [reserved EXCEPT ![w] = Tail(@)]
  /\ UNCHANGED <<upload, sent, waiting, collection, index, counters>>

-----------------------------------------------------------------------------
(* The task.                                                                *)

At(w, step) == task[w].at = step

Goto(w, step) ==
  /\ task' = [task EXCEPT ![w].at = step]
  /\ UNCHANGED <<status, result>>

(* The task returns or raises: its outcome is stored, the slot is free.     *)
Finish(w, s, value) ==
  /\ Store(task[w].job, s, value)
  /\ task' = [task EXCEPT ![w] = Free]

Fails(w) == Finish(w, "FAILURE", Nil)

(* Route, extract, chunk, stamp.  Without chunks the index is not touched.  *)
Parse(w) ==
  LET u == upload[task[w].job] IN
  /\ At(w, "parse")
  /\ IF ~Usable(u) THEN Fails(w)
     ELSE Goto(w, IF Kept(u) = {} THEN "report" ELSE "check")
  /\ UNCHANGED <<upload, broker, collection, index, crashes, faults>>

(* A slip for mutation runs: created without asking whether it exists.      *)
CheckNothing(w) ==
  /\ At(w, "check")
  /\ Goto(w, "create")
  /\ UNCHANGED <<upload, broker, collection, index, crashes, faults>>

(* A slip for mutation runs: waits for the collection to be created.        *)
CheckUntilThere(w) ==
  /\ At(w, "check")
  /\ IF collection THEN Goto(w, "upsert") ELSE UNCHANGED <<task, status, result>>
  /\ UNCHANGED <<upload, broker, collection, index, crashes, faults>>

(* ensure_collection asks, and creates what it was told is missing.         *)
CheckCollection(w) ==
  /\ At(w, "check")
  /\ Goto(w, IF collection THEN "upsert" ELSE "create")
  /\ UNCHANGED <<upload, broker, collection, index, crashes, faults>>

(* Qdrant refuses to create a collection that exists by then.               *)
CreateCollection(w) ==
  /\ At(w, "create")
  /\ IF collection THEN Fails(w) ELSE Goto(w, "upsert")
  /\ collection' = TRUE
  /\ UNCHANGED <<upload, broker, index, crashes, faults>>

(* A slip for mutation runs: the points are sent one by one.                *)
UpsertOneByOne(w) ==
  LET j == task[w].job
      points == Points(j, upload[j])
      missing == {id \in DOMAIN points :
                    id \notin DOMAIN index \/ index[id] # points[id]}
  IN
  /\ At(w, "upsert")
  /\ \/ missing = {} /\ Goto(w, "report") /\ UNCHANGED index
     \/ /\ \E id \in missing :
             index' = Upserted(index, [x \in {id} |-> points[x]])
        /\ UNCHANGED <<task, status, result>>
  /\ UNCHANGED <<upload, broker, collection, crashes, faults>>

Upsert(w) ==
  LET j == task[w].job IN
  /\ At(w, "upsert")
  /\ index' = Upserted(index, Points(j, upload[j]))
  /\ Goto(w, "report")
  /\ UNCHANGED <<upload, broker, collection, crashes, faults>>

(* _ingest_canonical fails a document of which there is nothing to index.   *)
Report(w) ==
  LET u == upload[task[w].job] IN
  /\ At(w, "report")
  /\ IF Refused(u) THEN Fails(w) ELSE Finish(w, "SUCCESS", ResultOf(u))
  /\ UNCHANGED <<upload, broker, collection, index, crashes, faults>>

Work(w) ==
  \/ Parse(w) \/ CheckCollection(w) \/ CreateCollection(w) \/ Upsert(w)
  \/ Report(w)

-----------------------------------------------------------------------------
(* What goes wrong.                                                         *)

(* The model cannot be loaded, Qdrant does not answer: the task raises.     *)
Unreachable(w) ==
  /\ faults < MaxFaults
  /\ task[w].at \in {"parse", "check", "create", "upsert"}
  /\ Fails(w)
  /\ faults' = faults + 1
  /\ UNCHANGED <<upload, broker, collection, index, crashes>>

(* The client gives up on an upsert that Qdrant applies all the same.       *)
UpsertTimesOut(w) ==
  LET j == task[w].job IN
  /\ faults < MaxFaults
  /\ At(w, "upsert")
  /\ index' = Upserted(index, Points(j, upload[j]))
  /\ Fails(w)
  /\ faults' = faults + 1
  /\ UNCHANGED <<upload, broker, collection, crashes>>

(* The pool process dies and the worker notices: WorkerLostError.           *)
LosePoolProcess(w) ==
  /\ crashes < MaxCrashes
  /\ task[w] # Free
  /\ Fails(w)
  /\ crashes' = crashes + 1
  /\ UNCHANGED <<upload, broker, collection, index, faults>>

(* The messages of w that have not been given away, in the order in which   *)
(* they happen to be restored.                                              *)
Restored(w) ==
  LET held == {i \in DOMAIN reserved[w] : reserved[w][i].held}
  IN  {[k \in DOMAIN order |-> reserved[w][order[k]].job] :
         order \in SetToSeqs(held)}

(* A slip for mutation runs: what was prefetched dies with the worker.      *)
CrashLosingReserved(w) ==
  /\ crashes < MaxCrashes
  /\ reserved' = [reserved EXCEPT ![w] = <<>>]
  /\ task' = [task EXCEPT ![w] = Free]
  /\ crashes' = crashes + 1
  /\ UNCHANGED <<upload, sent, waiting, status, result, collection, index,
                 faults, redeliveries>>

(* The worker dies and is restarted.  What it had reserved is put back; the *)
(* task it was running was acknowledged and is gone.                        *)
Crash(w) ==
  /\ crashes < MaxCrashes
  /\ \E jobs \in Restored(w) : waiting' = jobs \o waiting
  /\ reserved' = [reserved EXCEPT ![w] = <<>>]
  /\ task' = [task EXCEPT ![w] = Free]
  /\ crashes' = crashes + 1
  /\ UNCHANGED <<upload, sent, status, result, collection, index, faults,
                 redeliveries>>

-----------------------------------------------------------------------------
Api ==
  \E j \in Jobs :
    \/ \E who \in Identities, source \in Sources, content \in Contents :
         Save(j, who, source, content)
    \/ Enqueue(j)

Environment(w) ==
  \/ \E i \in 1 .. Prefetch : Redeliver(w, i)
  \/ Unreachable(w) \/ UpsertTimesOut(w) \/ LosePoolProcess(w) \/ Crash(w)

Next ==
  \/ Api
  \/ \E w \in Workers : Receive(w) \/ Begin(w) \/ Work(w) \/ Environment(w)

Spec == Init /\ [][Next]_vars

(* A worker that is up keeps consuming and its tasks take finite time.      *)
Fairness == \A w \in Workers : WF_vars(Receive(w) \/ Begin(w) \/ Work(w))

FairSpec == Spec /\ Fairness

-----------------------------------------------------------------------------
(* What the clients rely on.                                                *)

Terminal == {"SUCCESS", "FAILURE"}

PointsOf(j) == Points(j, upload[j])

(* A job that reads SUCCESS is searchable for good, whatever was ingested,  *)
(* redelivered or lost since: every point it counted is in the index, where *)
(* those of its tenant find it who hold a group it was last written with,   *)
(* even where another tenant uploaded a file of that name.                  *)
SuccessIsSearchable ==
  \A j \in Jobs : status[j] = "SUCCESS" =>
    /\ result[j].chunks = Cardinality(DOMAIN PointsOf(j))
    /\ \A id \in DOMAIN PointsOf(j) :
         /\ id \in DOMAIN index
         /\ \A groups \in SUBSET Groups : groups \cap index[id].acl # {} =>
              id \in Found(index, upload[j].tenant, groups)

(* The verdict of a canonical job is true of the index: "indexed" leaves    *)
(* out no piece of the document, "needs_review" and "failed" mean that no   *)
(* piece of this revision can be found.                                     *)
VerdictMatchesIndex ==
  \A j \in Jobs : status[j] = "SUCCESS" =>
    LET found == {place \in Places(upload[j]) :
                    PointId(j, upload[j], place) \in DOMAIN index}
    IN  /\ result[j].verdict = "indexed" => found = Places(upload[j])
        /\ result[j].verdict \in {"needs_review", "failed"} => found = {}

(* The same text of a tenant's file is in the index once, however often the *)
(* file is uploaded or its task delivered (tasks.py: re-uploading the same  *)
(* file by the same tenant is idempotent).                                  *)
SameFileOnce ==
  \A a, b \in DOMAIN index :
    (/\ a.tenant = b.tenant
     /\ index[a].source = index[b].source
     /\ index[a].content = index[b].content
     /\ index[a].place = index[b].place) => a = b

(* What tasks.py says of the canonical pipeline: the same tenant and the    *)
(* same filename overwrite.  If they do, no two contents of a file are      *)
(* found in the index together.                                             *)
ReuploadOverwrites ==
  \A a, b \in DOMAIN index :
    (a.tenant = b.tenant /\ index[a].source = index[b].source) =>
      index[a].content = index[b].content

(* The messages of j that some consumer has or will get.                    *)
Queued(j) ==
  \/ \E i \in DOMAIN waiting : waiting[i] = j
  \/ \E w \in Workers : \E i \in DOMAIN reserved[w] : reserved[w][i].job = j

Running(j) == \E w \in Workers : task[w] # Free /\ task[w].job = j

Lost(j) ==
  j \in sent /\ status[j] \notin Terminal /\ ~Queued(j) /\ ~Running(j)

(* A worker that dies takes at most the task it was running with it: what   *)
(* it had prefetched is run by another, and no other failure loses a job.   *)
LossesNeedCrashes == Cardinality({j \in Jobs : Lost(j)}) <= crashes

(* The documents that could be indexed and read FAILURE.                    *)
NeedlessFailures ==
  {j \in Jobs :
     status[j] = "FAILURE" /\ Usable(upload[j]) /\ ~Refused(upload[j])}

(* Each of them takes a failed call or a lost process of its own, but for   *)
(* those that ensure_collection costs once, when several workers find the   *)
(* collection missing and all but one of them fail to create it: no other   *)
(* upload and no redelivery ever makes a document fail, and the workers     *)
(* never get in each other's way again.                                     *)
FailuresAreExplained ==
  Cardinality(NeedlessFailures) <= faults + crashes + Cardinality(Workers) - 1

(* What the upload page tells the user of a STARTED job: a worker is        *)
(* parsing, embedding and writing it.  It is so until a worker dies.        *)
StartedMeansRunning ==
  crashes = 0 => \A j \in Jobs : status[j] = "STARTED" => Running(j)

(* Every queued job ends for good, also one that is delivered twice and     *)
(* leaves FAILURE again when it is run a second time: the upload page, which*)
(* polls until it reads a terminal status, stops polling, unless the job is *)
(* one that a worker took with it.                                          *)
JobsSettle ==
  \A j \in Jobs : j \in sent ~> [](status[j] \in Terminal \/ Lost(j))

(* Ingestion does what DocumentStore promises: whatever fails, the index is *)
(* written by whole uploads only, under the identity each was saved with.   *)
Promised == INSTANCE DocumentStore WITH accepted <- upload

ImplementsDocumentStore == Promised!Spec

=============================================================================
