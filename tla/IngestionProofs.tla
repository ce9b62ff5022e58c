-------------------------- MODULE IngestionProofs --------------------------
(***************************************************************************)
(* What Ingestion does for any number of uploads, workers and failures.     *)
(***************************************************************************)
EXTENDS Ingestion, FiniteSetTheorems, SequenceTheorems, TLAPS

-----------------------------------------------------------------------------
(* The pieces of a document.                                                *)

LEMMA PagesType ==
  ASSUME NEW u \in Upload, Usable(u)
  PROVE  /\ PagesOf(u) \in Seq(Page)
         /\ \A p \in DOMAIN PagesOf(u) : PiecesOf(PagesOf(u)[p]) \in Nat
<1>1. Extraction[u.content] \in Document
  BY DocumentsAssumption DEF Upload, Usable
<1>2. PagesOf(u) \in Seq(Page)
  BY <1>1 DEF Document, PagesOf
<1>3. \A p \in DOMAIN PagesOf(u) : PagesOf(u)[p].pieces \in Nat
  BY <1>2 DEF Page
<1>. QED  BY <1>2, <1>3 DEF PiecesOf

LEMMA KeptType ==
  ASSUME NEW u \in Upload, Usable(u)
  PROVE  Kept(u) \in SUBSET (Nat \X Nat) /\ IsFiniteSet(Kept(u))
<1>. DEFINE pages == {q \in DOMAIN PagesOf(u) : Embeddable(PagesOf(u)[q])}
            pieces(p) == {<<p, i>> : i \in 1 .. PiecesOf(PagesOf(u)[p])}
            parts == {pieces(p) : p \in pages}
<1>1. pages \in SUBSET (1 .. Len(PagesOf(u))) /\ Len(PagesOf(u)) \in Nat
  BY PagesType
<1>2. IsFiniteSet(pages)
  BY <1>1, FS_Interval, FS_Subset
<1>3. IsFiniteSet(parts)
  <2>. DEFINE f == [p \in pages |-> pieces(p)]
  <2>1. f \in Surjection(pages, parts)
    BY DEF Surjection
  <2>. QED  BY <1>2, <2>1, FS_Surjection
<1>4. ASSUME NEW p \in pages
      PROVE  IsFiniteSet(pieces(p)) /\ pieces(p) \subseteq Nat \X Nat
  <2>. DEFINE n == PiecesOf(PagesOf(u)[p])
              g == [i \in 1 .. n |-> <<p, i>>]
  <2>1. n \in Nat /\ p \in Nat
    BY <1>1, PagesType
  <2>2. g \in Surjection(1 .. n, pieces(p))
    BY DEF Surjection
  <2>3. IsFiniteSet(1 .. n)
    BY <2>1, FS_Interval
  <2>. QED  BY <2>1, <2>2, <2>3, FS_Surjection
<1>5. Kept(u) = UNION parts
  BY DEF Kept
<1>6. IsFiniteSet(UNION parts)
  BY <1>3, <1>4, FS_UNION
<1>. QED  BY <1>4, <1>5, <1>6

(* An upload has a point for every piece that is embedded.                  *)
LEMMA PointsShape ==
  ASSUME NEW j, NEW u
  PROVE  /\ \A place \in Kept(u) :
              /\ PointId(j, u, place) \in DOMAIN Points(j, u)
              /\ PointId(j, u, place).place = place
         /\ \A id \in DOMAIN Points(j, u) :
              /\ id.place \in Kept(u)
              /\ id = PointId(j, u, id.place)
              /\ id.tenant = u.tenant
              /\ Points(j, u)[id] = Payload(u, id.place)
<1>1. \A place : PointId(j, u, place).place = place
                  /\ PointId(j, u, place).tenant = u.tenant
  BY DEF PointId
<1>. QED  BY <1>1 DEF Points

LEMMA PointsAreCounted ==
  ASSUME NEW j, NEW u \in Upload, Usable(u)
  PROVE  /\ Cardinality(Kept(u)) \in Nat
         /\ Cardinality(DOMAIN Points(j, u)) = Cardinality(Kept(u))
<1>. DEFINE f == [place \in Kept(u) |-> PointId(j, u, place)]
            ids == DOMAIN Points(j, u)
<1>1. f \in Bijection(Kept(u), ids)
  <2>1. f \in [Kept(u) -> ids] /\ \A id \in ids : f[id.place] = id
    BY PointsShape
  <2>2. \A a \in Kept(u) : f[a].place = a
    BY PointsShape
  <2>3. \A a, b \in Kept(u) : f[a] = f[b] => a = b
    BY <2>2
  <2>4. \A id \in ids : id.place \in Kept(u)
    BY PointsShape
  <2>. HIDE DEF f, ids
  <2>. QED  BY <2>1, <2>3, <2>4
            DEF Bijection, Injection, Surjection, IsInjective
<1>. QED  BY <1>1, KeptType, FS_Bijection, FS_CardinalityType
          DEF ExistsBijection

LEMMA PointsType ==
  ASSUME NEW j, NEW u \in Upload, Usable(u), NEW id \in DOMAIN Points(j, u)
  PROVE  Points(j, u)[id] \in PayloadType
<1>1. id.place \in Nat \X Nat /\ Points(j, u)[id] = Payload(u, id.place)
  BY PointsShape, KeptType
<1>2. /\ u.tenant \in Tenants /\ u.acl \in SUBSET Groups
      /\ u.source \in Sources /\ u.content \in Contents
  BY DEF Upload
<1>. QED  BY <1>1, <1>2 DEF Payload, PayloadType

LEMMA UpsertedShape ==
  ASSUME NEW old, NEW points
  PROVE  /\ DOMAIN Upserted(old, points) = DOMAIN old \cup DOMAIN points
         /\ \A id \in DOMAIN points : Upserted(old, points)[id] = points[id]
         /\ \A id \in DOMAIN old \ DOMAIN points :
              Upserted(old, points)[id] = old[id]
BY DEF Upserted

LEMMA ResultType ==
  ASSUME NEW u \in Upload, Usable(u)
  PROVE  ResultOf(u) \in Result
<1>1. Verdict(u) \in Verdicts
  BY DEF Verdict, IndexedVerdict, EmptyVerdict, Verdicts
<1>. QED  BY <1>1, PointsAreCounted DEF ResultOf, Result

-----------------------------------------------------------------------------
(* Type correctness.                                                        *)

(* What the job of a busy slot is, and what the workers need of it.         *)
StatusType ==
  /\ status \in [Jobs -> {"PENDING", "STARTED", "SUCCESS", "FAILURE"}]
  /\ result \in [Jobs -> Result \cup {Nil}]
  /\ \A j \in Jobs \ sent : status[j] = "PENDING"

LEMMA StoreType ==
  ASSUME StatusType, UNCHANGED sent, NEW j \in sent,
         NEW s \in {"STARTED", "SUCCESS", "FAILURE"},
         NEW value \in Result \cup {Nil}, Store(j, s, value)
  PROVE  StatusType'
BY DEF StatusType, Store, Result

(* Every step but those of the API keeps upload and sent.                   *)
LEMMA StepType ==
  ASSUME TypeOK, UNCHANGED <<upload, sent>>, waiting' \in Seq(sent),
         reserved' \in [Workers -> Seq(Message)],
         task' \in [Workers -> {Free} \cup [at: Steps, job: sent]],
         StatusType', collection' \in BOOLEAN,
         \A id \in DOMAIN index' : index'[id] \in PayloadType,
         crashes' \in Nat, faults' \in Nat, redeliveries' \in Nat
  PROVE  TypeOK'
<1>1. Message' = Message
  BY DEF Message
<1>. QED  BY <1>1 DEF TypeOK, StatusType

LEMMA BusySlot ==
  ASSUME TypeOK, NEW w \in Workers, task[w] # Free
  PROVE  /\ task[w].job \in sent /\ task[w].at \in Steps
         /\ task[w] \in [at: Steps, job: sent]
         /\ task[w].job \in Jobs /\ upload[task[w].job] \in Upload
BY DEF TypeOK

LEMMA SlotStep ==
  ASSUME TypeOK, NEW w \in Workers, NEW step \in Steps, At(w, step)
  PROVE  task[w] # Free
BY DEF At, Free, Steps

LEMMA GotoType ==
  ASSUME TypeOK, UNCHANGED sent, NEW w \in Workers, task[w] # Free,
         NEW step \in Steps, Goto(w, step)
  PROVE  /\ task' \in [Workers -> {Free} \cup [at: Steps, job: sent']]
         /\ StatusType'
<1>1. [task[w] EXCEPT !.at = step] \in [at: Steps, job: sent]
  BY BusySlot
<1>2. task' = [task EXCEPT ![w] = [task[w] EXCEPT !.at = step]]
  BY DEF Goto
<1>. QED  BY <1>1, <1>2 DEF Goto, TypeOK, StatusType

LEMMA FinishType ==
  ASSUME TypeOK, UNCHANGED sent, NEW w \in Workers, task[w] # Free,
         NEW s \in {"STARTED", "SUCCESS", "FAILURE"},
         NEW value \in Result \cup {Nil}, Finish(w, s, value)
  PROVE  /\ task' \in [Workers -> {Free} \cup [at: Steps, job: sent']]
         /\ StatusType'
<1>1. StatusType'
  BY BusySlot, StoreType DEF TypeOK, StatusType, Finish
<1>. QED  BY <1>1 DEF Finish, TypeOK

(* The strengthening: a task that got past the parser has a usable upload.  *)
ParsedIsUsable ==
  \A w \in Workers :
    task[w].at \in Steps \ {"parse"} => Usable(upload[task[w].job])

Inv == TypeOK /\ ParsedIsUsable

(* Steps of a task that only move its slot.                                 *)
LEMMA TaskSlotInv ==
  ASSUME Inv, NEW w \in Workers, task[w] # Free,
         UNCHANGED <<upload, broker, crashes>>, faults' \in Nat,
         collection' \in BOOLEAN,
         \A id \in DOMAIN index' : index'[id] \in PayloadType,
         \/ \E step \in Steps :
              Goto(w, step) /\ (step = "parse" \/ Usable(upload[task[w].job]))
         \/ \E s \in {"STARTED", "SUCCESS", "FAILURE"},
               value \in Result \cup {Nil} : Finish(w, s, value)
  PROVE  Inv'
<1>. USE DEF Inv
<1>1. TypeOK'
  <2>1. /\ task' \in [Workers -> {Free} \cup [at: Steps, job: sent']]
        /\ StatusType'
    BY GotoType, FinishType DEF broker
  <2>. QED  BY <2>1 DEF TypeOK, StatusType, broker, Message
<1>2. ParsedIsUsable'
  <2>1. CASE \E step \in Steps :
              Goto(w, step) /\ (step = "parse" \/ Usable(upload[task[w].job]))
    BY <2>1 DEF Goto, ParsedIsUsable, TypeOK
  <2>2. CASE \E s, value : Finish(w, s, value)
    BY <2>2 DEF Finish, ParsedIsUsable, TypeOK, Free, Steps
  <2>. QED  BY <2>1, <2>2
<1>. QED  BY <1>1, <1>2

LEMMA UpsertType ==
  ASSUME Inv, NEW w \in Workers, At(w, "upsert"),
         index' = Upserted(index, Points(task[w].job, upload[task[w].job]))
  PROVE  \A id \in DOMAIN index' : index'[id] \in PayloadType
<1>. DEFINE j == task[w].job
            points == Points(j, upload[j])
<1>1. upload[j] \in Upload /\ Usable(upload[j])
  BY SlotStep, BusySlot DEF Inv, ParsedIsUsable, At, Steps
<1>2. \A id \in DOMAIN points : points[id] \in PayloadType
  BY <1>1, PointsType
<1>3. \A id \in DOMAIN index : index[id] \in PayloadType
  BY DEF Inv, TypeOK
<1>4. index' = Upserted(index, points)
  OBVIOUS
<1>. HIDE DEF points
<1>5. /\ DOMAIN index' = DOMAIN index \cup DOMAIN points
      /\ \A id \in DOMAIN points : index'[id] = points[id]
      /\ \A id \in DOMAIN index \ DOMAIN points : index'[id] = index[id]
  BY <1>4 DEF Upserted
<1>. QED  BY <1>2, <1>3, <1>5

LEMMA WorkInv ==
  ASSUME Inv, NEW w \in Workers, Work(w)
  PROVE  Inv'
<1>0. /\ \A id \in DOMAIN index : index[id] \in PayloadType
      /\ collection \in BOOLEAN /\ faults \in Nat
  BY DEF Inv, TypeOK
<1>1. task[w] # Free
  BY DEF Work, Parse, CheckCollection, CreateCollection, Upsert, Report, At,
         Free
<1>2. upload[task[w].job] \in Upload
  BY <1>1, BusySlot DEF Inv
<1>3. task[w].at \in Steps \ {"parse"} => Usable(upload[task[w].job])
  BY DEF Inv, ParsedIsUsable
<1>4. CASE Parse(w)
  BY <1>0, <1>1, <1>4, TaskSlotInv DEF Parse, Fails, Steps
<1>5. CASE CheckCollection(w)
  BY <1>0, <1>1, <1>3, <1>5, TaskSlotInv DEF CheckCollection, At, Steps
<1>6. CASE CreateCollection(w)
  BY <1>0, <1>1, <1>3, <1>6, TaskSlotInv
     DEF CreateCollection, Fails, At, Steps
<1>7. CASE Upsert(w)
  <2>1. \A id \in DOMAIN index' : index'[id] \in PayloadType
    BY <1>7, UpsertType DEF Upsert
  <2>. QED  BY <1>0, <1>1, <1>3, <1>7, <2>1, TaskSlotInv
            DEF Upsert, At, Steps
<1>8. CASE Report(w)
  <2>1. ResultOf(upload[task[w].job]) \in Result
    BY <1>2, <1>3, <1>8, ResultType DEF Report, At, Steps
  <2>2. \E s \in {"STARTED", "SUCCESS", "FAILURE"},
           value \in Result \cup {Nil} : Finish(w, s, value)
    BY <1>8, <2>1 DEF Report, Fails
  <2>. QED  BY <1>0, <1>1, <1>8, <2>2, TaskSlotInv DEF Report
<1>. QED  BY <1>4, <1>5, <1>6, <1>7, <1>8 DEF Work

(* The messages that a worker has and that were not given away.             *)
HeldBy(w) == {i \in DOMAIN reserved[w] : reserved[w][i].held}

LEMMA HeldByType ==
  ASSUME TypeOK, NEW w \in Workers
  PROVE  /\ IsFiniteSet(HeldBy(w)) /\ Cardinality(HeldBy(w)) \in Nat
         /\ \A i \in HeldBy(w) : reserved[w][i] \in Message
<1>1. reserved[w] \in Seq(Message)
  BY DEF TypeOK
<1>2. HeldBy(w) \in SUBSET (1 .. Len(reserved[w])) /\ Len(reserved[w]) \in Nat
  BY <1>1 DEF HeldBy
<1>3. IsFiniteSet(1 .. Len(reserved[w]))
  BY <1>2, FS_Interval
<1>4. IsFiniteSet(HeldBy(w))
  BY <1>2, <1>3, FS_Subset
<1>. QED  BY <1>1, <1>2, <1>4, ElementOfSeq, FS_CardinalityType

LEMMA RestoredType ==
  ASSUME TypeOK, NEW w \in Workers, NEW jobs \in Restored(w)
  PROVE  jobs \in Seq(sent)
<1>1. PICK order \in SetToSeqs(HeldBy(w)) :
        jobs = [k \in DOMAIN order |-> reserved[w][order[k]].job]
  BY DEF Restored, HeldBy
<1>2. order \in [1 .. Cardinality(HeldBy(w)) -> HeldBy(w)]
  BY DEF SetToSeqs
<1>3. \A i \in HeldBy(w) : reserved[w][i].job \in sent
  BY HeldByType DEF Message
<1>4. jobs \in [1 .. Cardinality(HeldBy(w)) -> sent]
  BY <1>1, <1>2, <1>3
<1>. QED  BY <1>4, HeldByType

LEMMA EnvironmentInv ==
  ASSUME Inv, NEW w \in Workers, Environment(w)
  PROVE  Inv'
<1>0. /\ \A id \in DOMAIN index : index[id] \in PayloadType
      /\ collection \in BOOLEAN /\ faults \in Nat
  BY DEF Inv, TypeOK
<1>1. ASSUME NEW i \in 1 .. Prefetch, Redeliver(w, i)
      PROVE  Inv'
  <2>1. /\ waiting \in Seq(sent) /\ reserved[w] \in Seq(Message)
        /\ i \in 1 .. Len(reserved[w])
    BY <1>1 DEF Redeliver, Inv, TypeOK
  <2>2. reserved[w][i] \in Message
    BY <2>1, ElementOfSeq
  <2>3. [reserved[w][i] EXCEPT !.held = FALSE] \in Message
    BY <2>2 DEF Message
  <2>4. [reserved[w] EXCEPT ![i] = [reserved[w][i] EXCEPT !.held = FALSE]]
          \in Seq(Message)
    BY <2>1, <2>3, ExceptSeq
  <2>5. reserved' \in [Workers -> Seq(Message)]
    BY <1>1, <2>4 DEF Redeliver, Inv, TypeOK
  <2>6. <<reserved[w][i].job>> \in Seq(sent)
    BY <2>2 DEF Message
  <2>7. waiting' \in Seq(sent)
    BY <1>1, <2>1, <2>6, ConcatProperties DEF Redeliver
  <2>8. StatusType' /\ redeliveries' \in Nat
    BY <1>1 DEF Redeliver, Inv, TypeOK, StatusType
  <2>9. TypeOK'
    BY <1>1, <2>5, <2>7, <2>8, StepType DEF Redeliver, Inv, TypeOK
  <2>. QED  BY <1>1, <2>9 DEF Redeliver, Inv, ParsedIsUsable
<1>2. CASE Unreachable(w)
  <2>1. task[w] # Free
    BY <1>2 DEF Unreachable, Free
  <2>. QED  BY <1>0, <1>2, <2>1, TaskSlotInv DEF Unreachable, Fails
<1>3. CASE UpsertTimesOut(w)
  <2>1. task[w] # Free
    BY <1>3, SlotStep DEF UpsertTimesOut, Steps, Inv
  <2>2. \A id \in DOMAIN index' : index'[id] \in PayloadType
    BY <1>3, UpsertType DEF UpsertTimesOut
  <2>. QED  BY <1>0, <1>3, <2>1, <2>2, TaskSlotInv DEF UpsertTimesOut, Fails
<1>4. CASE LosePoolProcess(w)
  <2>1. Inv'
    <3>1. /\ task' \in [Workers -> {Free} \cup [at: Steps, job: sent']]
          /\ StatusType'
      BY <1>4, FinishType DEF LosePoolProcess, Fails, Inv, broker
    <3>2. TypeOK'
      BY <1>4, <3>1, StepType DEF LosePoolProcess, Inv, TypeOK, broker
    <3>3. ParsedIsUsable'
      BY <1>4 DEF LosePoolProcess, Fails, Finish, Inv, TypeOK,
                  ParsedIsUsable, Free, Steps
    <3>. QED  BY <3>2, <3>3 DEF Inv
  <2>. QED  BY <2>1
<1>5. CASE Crash(w)
  <2>1. PICK jobs \in Restored(w) : waiting' = jobs \o waiting
    BY <1>5 DEF Crash
  <2>2. jobs \in Seq(sent)
    BY RestoredType DEF Inv
  <2>3. waiting' \in Seq(sent)
    BY <2>1, <2>2, ConcatProperties DEF Inv, TypeOK
  <2>4. reserved' \in [Workers -> Seq(Message)]
    BY <1>5 DEF Crash, Inv, TypeOK
  <2>5. TypeOK'
    <3>1. task' \in [Workers -> {Free} \cup [at: Steps, job: sent]]
      BY <1>5 DEF Crash, Inv, TypeOK
    <3>2. StatusType' /\ crashes' \in Nat
      BY <1>5 DEF Crash, Inv, TypeOK, StatusType
    <3>. QED  BY <1>5, <2>3, <2>4, <3>1, <3>2, StepType DEF Crash, Inv, TypeOK
  <2>6. ParsedIsUsable'
    BY <1>5 DEF Crash, Inv, TypeOK, ParsedIsUsable, Free, Steps
  <2>. QED  BY <2>5, <2>6 DEF Inv
<1>. QED  BY <1>1, <1>2, <1>3, <1>4, <1>5 DEF Environment

LEMMA ApiInv ==
  ASSUME Inv, Api
  PROVE  Inv'
<1>. USE DEF Inv
<1>1. ASSUME NEW j \in Jobs, NEW who \in Identities, NEW source \in Sources,
             NEW content \in Contents, Save(j, who, source, content)
      PROVE  Inv'
  <2>. DEFINE u == [tenant |-> who.tenant, acl |-> who.acl,
                    source |-> source, content |-> content]
  <2>1. u \in Upload /\ u # Nil
    BY IngestionAssumption, DocumentsAssumption DEF Upload
  <2>2. upload' = [upload EXCEPT ![j] = u] /\ j \notin sent
    BY <1>1 DEF Save, TypeOK
  <2>. HIDE DEF u
  <2>3. /\ upload' \in [Jobs -> Upload \cup {Nil}]
        /\ sent \subseteq {k \in Jobs : upload'[k] # Nil}
    BY <2>1, <2>2 DEF TypeOK
  <2>4. Message' = Message
    BY <1>1 DEF Save, broker, Message
  <2>5. TypeOK'
    BY <1>1, <2>3, <2>4 DEF Save, broker, TypeOK
  <2>6. \A w \in Workers : task[w] # Free =>
          upload'[task[w].job] = upload[task[w].job]
    BY <2>2, BusySlot DEF TypeOK
  <2>7. ParsedIsUsable'
    BY <1>1, <2>6 DEF Save, ParsedIsUsable, Free, Steps
  <2>. QED  BY <2>5, <2>7
<1>2. ASSUME NEW j \in Jobs, Enqueue(j)
      PROVE  Inv'
  <2>1. sent' = sent \cup {j} /\ upload' = upload /\ upload[j] # Nil
    BY <1>2 DEF Enqueue
  <2>2. waiting' \in Seq(sent')
    <3>1. waiting \in Seq(sent')
      BY <2>1, SeqMonotonic DEF TypeOK
    <3>. QED  BY <1>2, <2>1, <3>1, AppendProperties DEF Enqueue
  <2>3. reserved' \in [Workers -> Seq(Message')]
    <3>1. Message \subseteq Message'
      BY <2>1 DEF Message
    <3>2. \A w \in Workers : reserved[w] \in Seq(Message')
      BY <3>1, SeqMonotonic DEF TypeOK
    <3>. QED  BY <1>2, <3>2 DEF Enqueue, TypeOK
  <2>4. task' \in [Workers -> {Free} \cup [at: Steps, job: sent']]
    <3>1. [at: Steps, job: sent] \subseteq [at: Steps, job: sent']
      BY <2>1
    <3>. QED  BY <1>2, <3>1 DEF Enqueue, TypeOK
  <2>5. TypeOK'
    BY <1>2, <2>1, <2>2, <2>3, <2>4 DEF Enqueue, counters, TypeOK
  <2>. QED  BY <1>2, <2>5 DEF Enqueue, ParsedIsUsable
<1>. QED  BY <1>1, <1>2 DEF Api

LEMMA ConsumerInv ==
  ASSUME Inv, NEW w \in Workers, Receive(w) \/ Begin(w)
  PROVE  Inv'
<1>. USE DEF Inv
<1>1. waiting \in Seq(sent) /\ reserved[w] \in Seq(Message)
  BY DEF TypeOK
<1>2. CASE Receive(w)
  <2>1. Head(waiting) \in sent /\ waiting' \in Seq(sent)
    BY <1>1, <1>2, HeadTailProperties DEF Receive
  <2>2. [job |-> Head(waiting), held |-> TRUE] \in Message
    BY <2>1 DEF Message
  <2>3. reserved' \in [Workers -> Seq(Message)]
    BY <1>1, <1>2, <2>2, AppendProperties DEF Receive, TypeOK
  <2>4. TypeOK'
    BY <1>2, <2>1, <2>3, StepType DEF Receive, counters, TypeOK, StatusType
  <2>. QED  BY <1>2, <2>4 DEF Receive, ParsedIsUsable
<1>3. CASE Begin(w)
  <2>. DEFINE j == Head(reserved[w]).job
  <2>1. Head(reserved[w]) \in Message /\ Tail(reserved[w]) \in Seq(Message)
    BY <1>1, <1>3, HeadTailProperties DEF Begin
  <2>2. j \in sent
    BY <2>1 DEF Message
  <2>3. reserved' \in [Workers -> Seq(Message)]
    BY <1>3, <2>1 DEF Begin, TypeOK
  <2>4. task' = [task EXCEPT ![w] = [at |-> "parse", job |-> j]]
    BY <1>3 DEF Begin
  <2>5. StatusType'
    BY <1>3, <2>2, StoreType DEF Begin, TypeOK, StatusType
  <2>. HIDE DEF j
  <2>6. task' \in [Workers -> {Free} \cup [at: Steps, job: sent]]
    BY <2>2, <2>4 DEF TypeOK, Steps
  <2>7. TypeOK'
    BY <1>3, <2>3, <2>5, <2>6, StepType DEF Begin, counters, TypeOK
  <2>. QED  BY <1>3, <2>4, <2>7 DEF Begin, ParsedIsUsable, TypeOK
<1>. QED  BY <1>2, <1>3

LEMMA InitInv == Init => Inv
<1>. SUFFICES ASSUME Init PROVE Inv
  OBVIOUS
<1>1. ParsedIsUsable
  BY DEF Init, ParsedIsUsable, Free, Steps
<1>2. \A id \in DOMAIN index : index[id] \in PayloadType
  BY DEF Init, NoPoints
<1>3. /\ waiting \in Seq(sent) /\ reserved \in [Workers -> Seq(Message)]
      /\ upload \in [Jobs -> Upload \cup {Nil}]
  BY EmptySeq DEF Init
<1>. QED  BY <1>1, <1>2, <1>3 DEF Init, Inv, TypeOK

LEMMA NextInv ==
  ASSUME Inv, [Next]_vars
  PROVE  Inv'
<1>1. CASE Next
  BY <1>1, ApiInv, ConsumerInv, WorkInv, EnvironmentInv DEF Next
<1>2. CASE UNCHANGED vars
  <2>1. Message' = Message
    BY <1>2 DEF vars, Message
  <2>. QED  BY <1>2, <2>1 DEF vars, counters, Inv, TypeOK, ParsedIsUsable
<1>. QED  BY <1>1, <1>2

LEMMA InvHolds == Spec => []Inv
BY InitInv, NextInv, PTL DEF Spec

(* Every value the pipeline handles has its type, and only saved uploads    *)
(* are ever queued, reserved, run or given a status: for any number of      *)
(* workers and uploads, redelivered, lost or failing.                       *)
THEOREM IngestionTypeCorrect == Spec => []TypeOK
<1>1. Inv => TypeOK
  BY DEF Inv
<1>. QED  BY <1>1, InvHolds, PTL

-----------------------------------------------------------------------------
(* Refinement.                                                              *)

LEMMA PromisedOperators ==
  /\ Promised!NoPoints = NoPoints
  /\ \A u : Promised!Usable(u) = Usable(u)
  /\ \A j, u : Promised!Points(j, u) = Points(j, u)
  /\ \A old, points : Promised!Upserted(old, points) = Upserted(old, points)
<1>1. \A u : Promised!Usable(u) = Usable(u)
  BY DEF Promised!Usable, Promised!PagesOf, Usable, PagesOf
<1>2. \A u : Promised!Kept(u) = Kept(u)
  BY DEF Promised!Kept, Promised!PagesOf, Promised!PiecesOf,
         Promised!Embeddable, Kept, PagesOf, PiecesOf, Embeddable
<1>3. \A j, u, place : Promised!PointId(j, u, place) = PointId(j, u, place)
  BY Zenon DEF Promised!PointId, Promised!KeyOf, PointId, KeyOf
<1>4. \A j, u : Promised!Points(j, u) = Points(j, u)
  BY <1>2, <1>3
     DEF Promised!Points, Promised!Payload, Points, Payload
<1>. QED  BY <1>1, <1>4
          DEF Promised!NoPoints, Promised!Upserted, NoPoints, Upserted

LEMMA UpsertIsPublish ==
  ASSUME Inv, NEW w \in Workers, At(w, "upsert"), UNCHANGED upload,
         index' = Upserted(index, Points(task[w].job, upload[task[w].job]))
  PROVE  Promised!Next
<1>1. /\ task[w].job \in Jobs /\ upload[task[w].job] \in Upload
      /\ Usable(upload[task[w].job])
  BY SlotStep, BusySlot DEF Inv, ParsedIsUsable, At, Steps
<1>2. Nil \notin Upload
  BY DocumentsAssumption
<1>3. Promised!Publish(task[w].job)
  BY <1>1, <1>2, PromisedOperators DEF Promised!Publish
<1>. QED  BY <1>1, <1>3 DEF Promised!Next

LEMMA StepRefines ==
  ASSUME Inv, [Next]_vars
  PROVE  [Promised!Next]_<<upload, index>>
<1>1. ASSUME Api PROVE [Promised!Next]_<<upload, index>>
  <2>1. ASSUME NEW j \in Jobs, NEW who \in Identities, NEW source \in Sources,
               NEW content \in Contents, Save(j, who, source, content)
        PROVE  Promised!Next
    <3>. DEFINE u == [tenant |-> who.tenant, acl |-> who.acl,
                      source |-> source, content |-> content]
    <3>1. u \in Promised!Upload
      BY IngestionAssumption DEF Promised!Upload
    <3>2. Promised!Accept(j, u)
      BY <2>1 DEF Save, Promised!Accept
    <3>. QED  BY <3>1, <3>2 DEF Promised!Next
  <2>2. ASSUME NEW j \in Jobs, Enqueue(j)
        PROVE  UNCHANGED <<upload, index>>
    BY <2>2 DEF Enqueue
  <2>. QED  BY <1>1, <2>1, <2>2 DEF Api
<1>2. ASSUME NEW w \in Workers,
             Receive(w) \/ Begin(w) \/ Work(w) \/ Environment(w)
      PROVE  [Promised!Next]_<<upload, index>>
  <2>1. CASE Upsert(w) \/ UpsertTimesOut(w)
    BY <2>1, UpsertIsPublish DEF Upsert, UpsertTimesOut
  <2>2. CASE ~(Upsert(w) \/ UpsertTimesOut(w))
    BY <1>2, <2>2
       DEF Work, Environment, Receive, Begin, Parse, CheckCollection,
           CreateCollection, Report, Redeliver, Unreachable,
           LosePoolProcess, Crash
  <2>. QED  BY <2>1, <2>2
<1>. QED  BY <1>1, <1>2 DEF Next, vars

(* Whatever is redelivered, fails or crashes, and however many workers run, *)
(* the index changes only by whole uploads, each under the identity its     *)
(* token had: Ingestion implements DocumentStore.                           *)
THEOREM WritesAreWholeUploads == Spec => ImplementsDocumentStore
<1>1. Init => Promised!Init
  BY PromisedOperators DEF Init, Promised!Init
<1>2. Inv /\ [Next]_vars => [Promised!Next]_<<upload, index>>
  BY StepRefines
<1>. QED  BY <1>1, <1>2, InvHolds, PTL
          DEF Spec, ImplementsDocumentStore, Promised!Spec

-----------------------------------------------------------------------------
(* What SUCCESS means.                                                      *)

(* Every point is under the tenant its id is prefixed with, and is there by *)
(* the time its task has nothing left to do but report.                     *)
Searchable(j) == DOMAIN PointsOf(j) \subseteq DOMAIN index

SearchInv ==
  /\ \A id \in DOMAIN index : index[id].tenant = id.tenant
  /\ \A w \in Workers : At(w, "report") => Searchable(task[w].job)
  /\ \A j \in Jobs : status[j] = "SUCCESS" =>
       /\ Searchable(j)
       /\ result[j].chunks = Cardinality(DOMAIN PointsOf(j))

(* The index keeps every id.                                                *)
LEMMA IndexGrows ==
  ASSUME Inv, [Next]_vars
  PROVE  /\ DOMAIN index \subseteq DOMAIN index'
         /\ (\A id \in DOMAIN index : index[id].tenant = id.tenant) =>
              \A id \in DOMAIN index' : index'[id].tenant = id.tenant
<1>1. ASSUME NEW j \in Jobs, Promised!Publish(j)
      PROVE  /\ DOMAIN index \subseteq DOMAIN index'
             /\ (\A id \in DOMAIN index : index[id].tenant = id.tenant) =>
                  \A id \in DOMAIN index' : index'[id].tenant = id.tenant
  <2>. DEFINE points == Points(j, upload[j])
  <2>1. index' = Upserted(index, points)
    BY <1>1, PromisedOperators DEF Promised!Publish
  <2>2. \A id \in DOMAIN points : points[id].tenant = id.tenant
    BY PointsShape DEF Payload
  <2>. HIDE DEF points
  <2>3. /\ DOMAIN index' = DOMAIN index \cup DOMAIN points
        /\ \A id \in DOMAIN points : index'[id] = points[id]
        /\ \A id \in DOMAIN index \ DOMAIN points : index'[id] = index[id]
    BY <2>1 DEF Upserted
  <2>. QED  BY <2>2, <2>3
<1>2. CASE UNCHANGED index
  BY <1>2
<1>3. \/ UNCHANGED index
      \/ \E j \in Jobs : Promised!Publish(j)
  BY StepRefines DEF Promised!Next, Promised!Accept
<1>. QED  BY <1>1, <1>2, <1>3

(* An upload that was queued is never changed.                              *)
LEMMA QueuedUploadsStay ==
  ASSUME Inv, [Next]_vars, NEW j \in sent
  PROVE  upload'[j] = upload[j]
<1>1. upload[j] # Nil /\ j \in Jobs
  BY DEF Inv, TypeOK
<1>2. CASE UNCHANGED upload
  BY <1>2
<1>3. CASE \E k \in Jobs, u \in Promised!Upload : Promised!Accept(k, u)
  BY <1>1, <1>3 DEF Promised!Accept, Inv, TypeOK
<1>. QED  BY <1>2, <1>3, StepRefines DEF Promised!Next, Promised!Publish

(* How a job comes to read SUCCESS.                                         *)
Reported(j) ==
  \/ status[j] = "SUCCESS" /\ result'[j] = result[j]
  \/ \E w \in Workers :
       At(w, "report") /\ task[w].job = j /\ result'[j] = ResultOf(upload[j])

LEMMA StoreNoSuccess ==
  ASSUME StatusType, NEW j \in Jobs, NEW k \in Jobs,
         NEW s, s # "SUCCESS", NEW value, Store(j, s, value),
         status'[k] = "SUCCESS"
  PROVE  Reported(k)
BY DEF Store, StatusType, Reported

LEMMA SuccessIsReported ==
  ASSUME Inv, [Next]_vars, NEW j \in Jobs, status'[j] = "SUCCESS"
  PROVE  Reported(j)
<1>. StatusType
  BY DEF Inv, TypeOK, StatusType
<1>1. ASSUME UNCHANGED <<status, result>> PROVE Reported(j)
  BY <1>1 DEF Reported
<1>2. ASSUME Api PROVE Reported(j)
  BY <1>1, <1>2 DEF Api, Save, Enqueue
<1>3. ASSUME NEW w \in Workers, task[w] # Free, Fails(w) PROVE Reported(j)
  BY <1>3, BusySlot, StoreNoSuccess DEF Fails, Finish, Inv
<1>4. ASSUME NEW w \in Workers, Receive(w) PROVE Reported(j)
  BY <1>1, <1>4 DEF Receive
<1>5. ASSUME NEW w \in Workers, Begin(w) PROVE Reported(j)
  <2>1. reserved[w] \in Seq(Message) /\ reserved[w] # <<>>
    BY <1>5 DEF Begin, Inv, TypeOK
  <2>2. Head(reserved[w]) \in Message
    BY <2>1, HeadTailProperties
  <2>3. Head(reserved[w]).job \in Jobs
    BY <2>2 DEF Message, Inv, TypeOK
  <2>4. Store(Head(reserved[w]).job, "STARTED", Nil)
    BY <1>5 DEF Begin
  <2>. QED  BY <2>3, <2>4, StoreNoSuccess
<1>6. ASSUME NEW w \in Workers, Work(w) PROVE Reported(j)
  <2>1. task[w] # Free
    BY <1>6 DEF Work, Parse, CheckCollection, CreateCollection, Upsert,
                Report, At, Free
  <2>2. CASE Report(w) /\ ~Fails(w)
    <3>1. Store(task[w].job, "SUCCESS", ResultOf(upload[task[w].job]))
      BY <2>2 DEF Report, Finish
    <3>. QED  BY <2>1, <2>2, <3>1, BusySlot
              DEF Store, Reported, Report, Inv, TypeOK
  <2>3. CASE ~(Report(w) /\ ~Fails(w))
    BY <1>1, <1>3, <1>6, <2>1, <2>3
       DEF Work, Parse, CheckCollection, CreateCollection, Upsert, Goto
  <2>. QED  BY <2>2, <2>3
<1>7. ASSUME NEW w \in Workers, Environment(w) PROVE Reported(j)
  <2>1. CASE Unreachable(w) \/ UpsertTimesOut(w) \/ LosePoolProcess(w)
    BY <1>3, <2>1
       DEF Unreachable, UpsertTimesOut, LosePoolProcess, At, Free
  <2>2. CASE Crash(w) \/ \E i \in 1 .. Prefetch : Redeliver(w, i)
    BY <1>1, <2>2 DEF Crash, Redeliver
  <2>. QED  BY <1>7, <2>1, <2>2 DEF Environment
<1>8. CASE UNCHANGED vars
  BY <1>1, <1>8 DEF vars
<1>. QED  BY <1>2, <1>4, <1>5, <1>6, <1>7, <1>8 DEF Next

(* A task that is about to report has put its points in the index.          *)
LEMMA ReportersAreSearchable ==
  ASSUME Inv, SearchInv, [Next]_vars, NEW w \in Workers, At(w, "report")'
  PROVE  LET j == task'[w].job IN
           /\ j \in sent
           /\ DOMAIN Points(j, upload[j]) \subseteq DOMAIN index'
<1>1. CASE task'[w] = task[w]
  <2>1. At(w, "report") /\ task[w] # Free
    BY <1>1 DEF At, Free
  <2>. QED  BY <1>1, <2>1, BusySlot, IndexGrows
            DEF SearchInv, Searchable, PointsOf, Inv
<1>2. CASE task'[w] # task[w]
  <2>1. \/ Parse(w) /\ Goto(w, "report")
           /\ Kept(upload[task[w].job]) = {}
        \/ Upsert(w)
    <3>1. ASSUME NEW v \in Workers, v # w,
                 Receive(v) \/ Begin(v) \/ Work(v) \/ Environment(v)
          PROVE  FALSE
      BY <1>2, <3>1
         DEF Receive, Begin, Work, Environment, Parse, CheckCollection,
             CreateCollection, Upsert, Report, Goto, Fails, Finish,
             Redeliver, Unreachable, UpsertTimesOut, LosePoolProcess, Crash,
             Inv, TypeOK
    <3>2. Receive(w) \/ Begin(w) \/ Work(w) \/ Environment(w)
      BY <1>2, <3>1 DEF Next, vars, Api, Save, Enqueue
    <3>3. ~(Receive(w) \/ Begin(w) \/ Environment(w))
      <4>1. task'[w].at = "report" /\ w \in DOMAIN task
        BY DEF At, Inv, TypeOK
      <4>2. ~Receive(w) /\ ~\E i \in 1 .. Prefetch : Redeliver(w, i)
        BY <1>2 DEF Receive, Redeliver
      <4>3. ~Begin(w)
        BY <4>1 DEF Begin
      <4>4. ~(Unreachable(w) \/ UpsertTimesOut(w) \/ LosePoolProcess(w)
              \/ Crash(w))
        BY <4>1 DEF Unreachable, UpsertTimesOut, LosePoolProcess, Crash,
                    Fails, Finish, Free
      <4>. QED  BY <4>2, <4>3, <4>4 DEF Environment
    <3>. QED  BY <3>2, <3>3
              DEF Work, Parse, CheckCollection, CreateCollection, Report,
                  Fails, Finish, Goto, At, Free, Inv, TypeOK
  <2>2. task[w] # Free /\ task'[w].job = task[w].job
    BY <2>1 DEF Parse, Upsert, Goto, At, Free, Inv, TypeOK
  <2>3. task[w].job \in sent
    BY <2>2, BusySlot DEF Inv
  <2>4. CASE Kept(upload[task[w].job]) = {}
    BY <2>2, <2>3, <2>4, PointsShape
  <2>5. CASE Upsert(w)
    BY <2>2, <2>3, <2>5 DEF Upsert, Upserted
  <2>. QED  BY <2>1, <2>2, <2>3, <2>4, <2>5
<1>. QED  BY <1>1, <1>2

LEMMA SearchInvHolds == Spec => []SearchInv
<1>1. Init => SearchInv
  BY DEF Init, SearchInv, NoPoints, At, Free
<1>2. Inv /\ SearchInv /\ [Next]_vars => SearchInv'
  <2>. SUFFICES ASSUME Inv, SearchInv, [Next]_vars
                PROVE  SearchInv'
    OBVIOUS
  <2>1. \A id \in DOMAIN index' : index'[id].tenant = id.tenant
    BY IndexGrows DEF SearchInv
  <2>2. ASSUME NEW w \in Workers, At(w, "report")'
        PROVE  Searchable(task[w].job)'
    BY <2>2, ReportersAreSearchable, QueuedUploadsStay
       DEF Searchable, PointsOf
  <2>3. ASSUME NEW j \in Jobs, status'[j] = "SUCCESS"
        PROVE  /\ Searchable(j)'
               /\ result'[j].chunks = Cardinality(DOMAIN PointsOf(j))'
    <3>1. CASE status[j] = "SUCCESS" /\ result'[j] = result[j]
      <4>1. j \in sent
        BY <3>1 DEF Inv, TypeOK
      <4>. QED  BY <3>1, <4>1, IndexGrows, QueuedUploadsStay
                DEF SearchInv, Searchable, PointsOf
    <3>2. ASSUME NEW w \in Workers, At(w, "report"), task[w].job = j,
                 result'[j] = ResultOf(upload[j])
          PROVE  /\ Searchable(j)'
                 /\ result'[j].chunks = Cardinality(DOMAIN PointsOf(j))'
      <4>1. j \in sent /\ upload[j] \in Upload /\ Usable(upload[j])
        BY <3>2, SlotStep, BusySlot DEF Inv, ParsedIsUsable, At, Steps
      <4>2. upload'[j] = upload[j]
        BY <4>1, QueuedUploadsStay
      <4>3. result'[j].chunks = Cardinality(DOMAIN Points(j, upload[j]))
        BY <3>2, <4>1, PointsAreCounted DEF ResultOf
      <4>. QED  BY <3>2, <4>2, <4>3, IndexGrows
                DEF SearchInv, Searchable, PointsOf
    <3>. QED  BY <2>3, <3>1, <3>2, SuccessIsReported DEF Reported
  <2>. QED  BY <2>1, <2>2, <2>3 DEF SearchInv
<1>. QED  BY <1>1, <1>2, InvHolds, PTL DEF Spec

(* A job that reads SUCCESS is searchable for good, for any number of       *)
(* tenants, uploads, workers, redeliveries and crashes.                     *)
THEOREM SuccessStaysSearchable == Spec => []SuccessIsSearchable
<1>1. Inv /\ SearchInv => SuccessIsSearchable
  <2>. SUFFICES ASSUME Inv, SearchInv, NEW j \in Jobs, status[j] = "SUCCESS",
                       NEW id \in DOMAIN PointsOf(j)
                PROVE  /\ id \in DOMAIN index
                       /\ \A groups \in SUBSET Groups :
                            groups \cap index[id].acl # {} =>
                              id \in Found(index, upload[j].tenant, groups)
    BY DEF SuccessIsSearchable, SearchInv
  <2>1. id \in DOMAIN index /\ index[id].tenant = id.tenant
    BY DEF SearchInv, Searchable
  <2>2. id.tenant = upload[j].tenant
    BY PointsShape DEF PointsOf
  <2>. QED  BY <2>1, <2>2 DEF Found
<1>. QED  BY <1>1, InvHolds, SearchInvHolds, PTL

-----------------------------------------------------------------------------
(* Idempotence.                                                             *)

(* Apart from the adapter's, a key depends on the filename alone.           *)
LEMMA KeyOfSource ==
  ASSUME Pipeline # "legacy_adaptive",
         NEW j, NEW u, NEW k, NEW v, u.source = v.source
  PROVE  KeyOf(j, u) = KeyOf(k, v)
<1>1. CASE Pipeline = "legacy"
  <2>1. \A l, x : KeyOf(l, x) = x.source
    BY <1>1, Zenon DEF KeyOf
  <2>. QED  BY <2>1
<1>2. CASE Pipeline = "canonical"
  <2>1. \A l, x : KeyOf(l, x) = DocumentKey[x.source]
    BY <1>2, Zenon DEF KeyOf
  <2>. QED  BY <2>1
<1>. QED  BY <1>1, <1>2, DocumentsAssumption

(* Every point is where its payload says.                                   *)
Stamped(id, payload) ==
  \E j, u : /\ id = PointId(j, u, payload.place)
            /\ payload = Payload(u, payload.place)

StampInv == \A id \in DOMAIN index : Stamped(id, index[id])

LEMMA StampInvHolds == Spec => []StampInv
<1>1. Init => StampInv
  BY DEF Init, StampInv, NoPoints
<1>2. Inv /\ StampInv /\ [Next]_vars => StampInv'
  <2>. SUFFICES ASSUME Inv, StampInv, [Next]_vars
                PROVE  StampInv'
    OBVIOUS
  <2>1. CASE UNCHANGED index
    BY <2>1 DEF StampInv
  <2>2. ASSUME NEW j \in Jobs, Promised!Publish(j)
        PROVE  StampInv'
    <3>. DEFINE points == Points(j, upload[j])
    <3>1. index' = Upserted(index, points)
      BY <2>2, PromisedOperators DEF Promised!Publish
    <3>2. ASSUME NEW id \in DOMAIN points
          PROVE  Stamped(id, points[id])
      <4>1. /\ id = PointId(j, upload[j], id.place)
            /\ points[id] = Payload(upload[j], id.place)
        BY PointsShape
      <4>2. points[id].place = id.place
        BY <4>1 DEF Payload
      <4>. QED  BY <4>1, <4>2 DEF Stamped
    <3>. HIDE DEF points
    <3>3. /\ DOMAIN index' = DOMAIN index \cup DOMAIN points
          /\ \A id \in DOMAIN points : index'[id] = points[id]
          /\ \A id \in DOMAIN index \ DOMAIN points : index'[id] = index[id]
      BY <3>1 DEF Upserted
    <3>. QED  BY <3>2, <3>3 DEF StampInv
  <2>. QED  BY <2>1, <2>2, StepRefines DEF Promised!Next, Promised!Accept
<1>. QED  BY <1>1, <1>2, InvHolds, PTL DEF Spec

(* With the native and the canonical pipelines, uploading a file again or   *)
(* delivering its task again never puts a piece of it in the index twice.   *)
THEOREM FilesAreIndexedOnce ==
  ASSUME Pipeline # "legacy_adaptive"
  PROVE  Spec => []SameFileOnce
<1>1. StampInv => SameFileOnce
  <2>. SUFFICES ASSUME StampInv, NEW a \in DOMAIN index, NEW b \in DOMAIN index,
                       a.tenant = b.tenant,
                       index[a].source = index[b].source,
                       index[a].content = index[b].content,
                       index[a].place = index[b].place
                PROVE  a = b
    BY DEF SameFileOnce
  <2>1. PICK j, u : /\ a = PointId(j, u, index[a].place)
                    /\ index[a] = Payload(u, index[a].place)
    BY DEF StampInv, Stamped
  <2>2. PICK k, v : /\ b = PointId(k, v, index[b].place)
                    /\ index[b] = Payload(v, index[b].place)
    BY DEF StampInv, Stamped
  <2>3. u.source = v.source /\ u.content = v.content
    BY <2>1, <2>2 DEF Payload
  <2>4. u.tenant = v.tenant
    BY <2>1, <2>2 DEF PointId
  <2>5. KeyOf(j, u) = KeyOf(k, v)
    BY <2>3, KeyOfSource
  <2>. QED  BY <2>1, <2>2, <2>3, <2>4, <2>5 DEF PointId
<1>. QED  BY <1>1, StampInvHolds, PTL

-----------------------------------------------------------------------------
(* What becomes of the jobs of Ingestion: which are lost, which fail, what  *)
(* a status means while it is read, what a verdict says of the index.       *)

-----------------------------------------------------------------------------
(* Steps of a worker.                                                       *)

WorkerStep(w) == Receive(w) \/ Begin(w) \/ Work(w) \/ Environment(w)

LEMMA StepIsApiOrWorker ==
  ASSUME [Next]_vars
  PROVE  \/ UNCHANGED vars \/ Api
         \/ \E w \in Workers : WorkerStep(w)
BY DEF Next, WorkerStep

(* What a worker's step makes of its slot.                                  *)
LEMMA SlotSteps ==
  ASSUME Inv, NEW w \in Workers, WorkerStep(w)
  PROVE  \/ UNCHANGED <<task, status, result>>
         \/ Begin(w)
         \/ task[w] # Free /\ \E step \in Steps : Goto(w, step)
         \/ task[w] # Free /\ \E s \in Terminal : \E value : Finish(w, s, value)
         \/ Crash(w)
<1>1. \A step \in Steps : At(w, step) => task[w] # Free
  BY SlotStep DEF Inv
<1>2. Fails(w) => \E s \in Terminal : \E value : Finish(w, s, value)
  BY DEF Fails, Terminal
<1>3. CASE Receive(w) \/ Begin(w)
  BY <1>3 DEF Receive
<1>4. CASE Parse(w)
  BY <1>1, <1>2, <1>4 DEF Parse, Steps
<1>5. CASE CheckCollection(w) \/ CreateCollection(w) \/ Upsert(w)
  BY <1>1, <1>2, <1>5 DEF CheckCollection, CreateCollection, Upsert, Steps
<1>6. CASE Report(w)
  BY <1>1, <1>2, <1>6 DEF Report, Steps, Terminal
<1>7. CASE Unreachable(w) \/ UpsertTimesOut(w) \/ LosePoolProcess(w)
  BY <1>1, <1>2, <1>7
     DEF Unreachable, UpsertTimesOut, LosePoolProcess, Steps, At
<1>8. CASE Crash(w) \/ \E i \in 1 .. Prefetch : Redeliver(w, i)
  BY <1>8 DEF Redeliver
<1>. QED  BY <1>3, <1>4, <1>5, <1>6, <1>7, <1>8
          DEF WorkerStep, Work, Environment

LEMMA OtherSlotsStay ==
  ASSUME Inv, NEW w \in Workers, WorkerStep(w), NEW v \in Workers, v # w
  PROVE  task'[v] = task[v]
BY SlotSteps DEF Begin, Goto, Finish, Crash, Inv, TypeOK

LEMMA StoreStep ==
  ASSUME StatusType, NEW j \in Jobs, NEW s, NEW value, Store(j, s, value)
  PROVE  /\ \A k \in Jobs :
              \/ status'[k] = status[k] /\ result'[k] = result[k]
              \/ k = j /\ status'[k] = s /\ result'[k] = value
         /\ s \in Terminal => status'[j] \in Terminal
BY DEF Store, StatusType, Terminal

(* A job that runs does so until it has an outcome or its worker dies.      *)
LEMMA RunningGoesOn ==
  ASSUME Inv, [Next]_vars, NEW j \in Jobs, Running(j)
  PROVE  \/ Running(j)'
         \/ status'[j] \in Terminal
         \/ \E w \in Workers :
              Crash(w) /\ task[w] # Free /\ task[w].job = j
<1>. PICK v \in Workers : task[v] # Free /\ task[v].job = j
  BY DEF Running
<1>1. CASE task'[v] = task[v]
  BY <1>1 DEF Running
<1>2. CASE task'[v] # task[v]
  <2>1. WorkerStep(v)
    BY <1>2, StepIsApiOrWorker, OtherSlotsStay DEF vars, Api, Save, Enqueue
  <2>2. ~Begin(v)
    BY DEF Begin
  <2>3. ASSUME NEW step \in Steps, Goto(v, step)
        PROVE  Running(j)'
    BY <2>3 DEF Goto, Running, Steps, Free, Inv, TypeOK
  <2>4. ASSUME NEW s \in Terminal, NEW value, Finish(v, s, value)
        PROVE  status'[j] \in Terminal
    BY <2>4, StoreStep DEF Finish, StatusType, Inv, TypeOK
  <2>. QED  BY <1>2, <2>1, <2>2, <2>3, <2>4, SlotSteps
<1>. QED  BY <1>1, <1>2

LEMMA CountersGrow ==
  ASSUME Inv, [Next]_vars
  PROVE  /\ crashes' \in Nat /\ crashes' >= crashes
         /\ faults' \in Nat /\ faults' >= faults
         /\ \A w \in Workers : Crash(w) => crashes' = crashes + 1
<1>1. crashes \in Nat /\ faults \in Nat
  BY DEF Inv, TypeOK
<1>2. CASE Api \/ UNCHANGED vars
  BY <1>1, <1>2 DEF Api, Save, Enqueue, vars, counters, Crash
<1>3. ASSUME NEW w \in Workers, WorkerStep(w)
      PROVE  /\ crashes' \in Nat /\ crashes' >= crashes
             /\ faults' \in Nat /\ faults' >= faults
  <2>1. CASE Receive(w) \/ Begin(w) \/ Work(w)
    BY <1>1, <2>1
       DEF Receive, Begin, Work, Parse, CheckCollection, CreateCollection,
           Upsert, Report, counters
  <2>2. CASE \E i \in 1 .. Prefetch : Redeliver(w, i)
    BY <1>1, <2>2 DEF Redeliver
  <2>3. CASE Unreachable(w) \/ UpsertTimesOut(w) \/ LosePoolProcess(w)
    BY <1>1, <2>3 DEF Unreachable, UpsertTimesOut, LosePoolProcess
  <2>4. CASE Crash(w)
    BY <1>1, <2>4 DEF Crash
  <2>. QED  BY <1>3, <2>1, <2>2, <2>3, <2>4 DEF WorkerStep, Environment
<1>. QED  BY <1>2, <1>3, StepIsApiOrWorker DEF Crash

-----------------------------------------------------------------------------
(* How a status changes.                                                    *)

(* A call fails or the process is lost, which is counted.                   *)
Costs(w) == Unreachable(w) \/ UpsertTimesOut(w) \/ LosePoolProcess(w)

(* Why a job may fail: by what it is, by a failure of its own, or because   *)
(* another worker created the collection.                                   *)
Failing(j) ==
  \/ ~Usable(upload[j]) \/ Refused(upload[j])
  \/ \E w \in Workers :
       /\ task[w] # Free /\ task[w].job = j /\ Fails(w)
       /\ Costs(w) \/ (CreateCollection(w) /\ collection)

StatusStep(j) ==
  \/ status'[j] = status[j] /\ result'[j] = result[j]
  \/ status'[j] = "STARTED" /\ Running(j)'
  \/ status'[j] = "FAILURE" /\ Failing(j)
  \/ /\ status'[j] = "SUCCESS"
     /\ \E w \in Workers :
          At(w, "report") /\ task[w].job = j /\ result'[j] = ResultOf(upload[j])

LEMMA StatusIsOfSent ==
  ASSUME Inv, [Next]_vars, NEW j \in Jobs, status'[j] # "PENDING"
  PROVE  j \in sent
<1>1. CASE status'[j] = status[j]
  BY <1>1 DEF Inv, TypeOK
<1>2. CASE status'[j] # status[j]
  <2>1. sent' = sent
    BY <1>2, StepIsApiOrWorker
       DEF Api, Save, Enqueue, vars, WorkerStep, Work, Environment, Receive,
           Begin, Parse, CheckCollection, CreateCollection, Upsert, Report,
           Redeliver, Unreachable, UpsertTimesOut, LosePoolProcess, Crash,
           broker
  <2>2. Inv'
    BY NextInv
  <2>. QED  BY <2>1, <2>2 DEF Inv, TypeOK
<1>. QED  BY <1>1, <1>2

LEMMA FailsStep ==
  ASSUME Inv, NEW w \in Workers, task[w] # Free, Fails(w),
         Failing(task[w].job)
  PROVE  \A j \in Jobs : StatusStep(j)
<1>1. StatusType /\ task[w].job \in Jobs
  BY BusySlot DEF Inv, TypeOK, StatusType
<1>2. Store(task[w].job, "FAILURE", Nil)
  BY DEF Fails, Finish
<1>. QED  BY <1>1, <1>2, StoreStep DEF StatusStep

LEMMA StatusSteps ==
  ASSUME Inv, [Next]_vars
  PROVE  \A j \in Jobs : StatusStep(j)
<1>1. StatusType
  BY DEF Inv, TypeOK, StatusType
<1>2. ASSUME UNCHANGED <<status, result>> PROVE \A j \in Jobs : StatusStep(j)
  BY <1>2 DEF StatusStep
<1>3. ASSUME NEW w \in Workers, WorkerStep(w)
      PROVE  \A j \in Jobs : StatusStep(j)
  <2>1. CASE Receive(w) \/ Crash(w) \/ \E i \in 1 .. Prefetch : Redeliver(w, i)
    BY <1>2, <2>1 DEF Receive, Crash, Redeliver
  <2>2. CASE Begin(w)
    <3>1. reserved[w] \in Seq(Message) /\ reserved[w] # <<>>
      BY <2>2 DEF Begin, Inv, TypeOK
    <3>2. Head(reserved[w]) \in Message
      BY <3>1, HeadTailProperties
    <3>3. Head(reserved[w]).job \in Jobs
      BY <3>2 DEF Message, Inv, TypeOK
    <3>4. PICK k \in Jobs :
            /\ Store(k, "STARTED", Nil)
            /\ task' = [task EXCEPT ![w] = [at |-> "parse", job |-> k]]
      BY <2>2, <3>3 DEF Begin
    <3>5. Running(k)'
      BY <3>4 DEF Running, Free, Inv, TypeOK
    <3>. QED  BY <1>1, <3>4, <3>5, StoreStep DEF StatusStep
  <2>3. CASE Parse(w)
    BY <1>2, <2>3, FailsStep, SlotStep
       DEF Parse, Goto, Failing, Steps, Inv
  <2>4. CASE CheckCollection(w) \/ Upsert(w)
    BY <1>2, <2>4 DEF CheckCollection, Upsert, Goto
  <2>5. CASE CreateCollection(w)
    BY <1>2, <2>5, FailsStep, SlotStep
       DEF CreateCollection, Goto, Failing, Steps, Inv
  <2>6. CASE Report(w)
    <3>1. task[w] # Free /\ task[w].job \in Jobs
      BY <2>6, SlotStep, BusySlot DEF Report, Steps, Inv
    <3>2. CASE Refused(upload[task[w].job])
      BY <2>6, <3>1, <3>2, FailsStep DEF Report, Failing
    <3>3. CASE ~Refused(upload[task[w].job])
      <4>1. Store(task[w].job, "SUCCESS", ResultOf(upload[task[w].job]))
        BY <2>6, <3>3 DEF Report, Finish
      <4>. QED  BY <1>1, <2>6, <3>1, <4>1, StoreStep DEF Report, StatusStep
    <3>. QED  BY <3>2, <3>3
  <2>7. CASE Unreachable(w) \/ UpsertTimesOut(w) \/ LosePoolProcess(w)
    <3>1. task[w] # Free /\ Fails(w)
      BY <2>7, SlotStep
         DEF Unreachable, UpsertTimesOut, LosePoolProcess, Free, Steps, Inv
    <3>. QED  BY <2>7, <3>1, FailsStep DEF Failing, Costs
  <2>. QED  BY <1>3, <2>1, <2>2, <2>3, <2>4, <2>5, <2>6, <2>7
            DEF WorkerStep, Work, Environment
<1>4. CASE Api \/ UNCHANGED vars
  BY <1>2, <1>4 DEF Api, Save, Enqueue, vars
<1>. QED  BY <1>3, <1>4, StepIsApiOrWorker

-----------------------------------------------------------------------------
(* The statuses.                                                            *)

(* What the upload page tells of a STARTED job holds until a worker dies,   *)
(* for any number of workers, also when two run the job at once.            *)
THEOREM StartedJobsRun == Spec => []StartedMeansRunning
<1>1. Init => StartedMeansRunning
  BY DEF Init, StartedMeansRunning
<1>2. Inv /\ StartedMeansRunning /\ [Next]_vars => StartedMeansRunning'
  <2>. SUFFICES ASSUME Inv, StartedMeansRunning, [Next]_vars, crashes' = 0,
                       NEW j \in Jobs, status'[j] = "STARTED"
                PROVE  Running(j)'
    BY DEF StartedMeansRunning
  <2>1. crashes = 0 /\ \A w \in Workers : ~Crash(w)
    BY CountersGrow DEF Crash, Inv, TypeOK
  <2>2. CASE status[j] = "STARTED"
    BY <2>1, <2>2, RunningGoesOn DEF StartedMeansRunning, Terminal
  <2>3. CASE status[j] # "STARTED"
    BY <2>3, StatusSteps DEF StatusStep
  <2>. QED  BY <2>2, <2>3
<1>. QED  BY <1>1, <1>2, InvHolds, PTL DEF Spec

(* Needless failures.  Those that several workers owe to the missing        *)
(* collection are counted in advance, one for each worker that is about to  *)
(* create it when it exists by then.                                        *)
AtCreate == {w \in Workers : At(w, "create")}

CauseInv ==
  /\ IsFiniteSet(NeedlessFailures)
  /\ ~collection => Cardinality(NeedlessFailures) <= faults + crashes
  /\ collection =>
       Cardinality(NeedlessFailures) + Cardinality(AtCreate)
         <= faults + crashes + Cardinality(Workers) - 1

LEMMA NeedlessSteps ==
  ASSUME Inv, [Next]_vars, NEW j \in NeedlessFailures', j \notin NeedlessFailures
  PROVE  \E w \in Workers :
           /\ task[w] # Free /\ task[w].job = j /\ Fails(w)
           /\ Costs(w) \/ (CreateCollection(w) /\ collection)
<1>1. /\ j \in Jobs /\ status'[j] = "FAILURE"
      /\ Usable(upload'[j]) /\ ~Refused(upload'[j])
  BY DEF NeedlessFailures
<1>2. j \in sent
  BY <1>1, StatusIsOfSent
<1>3. upload'[j] = upload[j]
  BY <1>2, QueuedUploadsStay
<1>4. status[j] # "FAILURE"
  BY <1>1, <1>3 DEF NeedlessFailures
<1>. QED  BY <1>1, <1>3, <1>4, StatusSteps DEF StatusStep, Failing

(* Workers that are about to create the collection, once it exists.         *)
LEMMA CreatorsLeave ==
  ASSUME Inv, [Next]_vars
  PROVE  /\ collection => collection' /\ AtCreate' \subseteq AtCreate
         /\ \A w \in Workers : CreateCollection(w) =>
              w \in AtCreate /\ AtCreate' \subseteq AtCreate \ {w}
         /\ collection' # collection => \E w \in Workers : CreateCollection(w)
<1>1. ASSUME UNCHANGED <<task, collection>>
      PROVE  UNCHANGED collection /\ AtCreate' \subseteq AtCreate
  BY <1>1 DEF AtCreate, At
<1>2. ASSUME NEW w \in Workers, Finish(w, "FAILURE", Nil) \/ Crash(w)
                                  \/ \E value : Finish(w, "SUCCESS", value)
      PROVE  AtCreate' \subseteq AtCreate \ {w}
  BY <1>2 DEF Finish, Crash, AtCreate, At, Free, Inv, TypeOK
<1>3. ASSUME NEW w \in Workers, NEW step, Goto(w, step), step # "create"
      PROVE  AtCreate' \subseteq AtCreate \ {w}
  BY <1>3 DEF Goto, AtCreate, At, Free, Inv, TypeOK
<1>4. ASSUME NEW w \in Workers, CreateCollection(w)
      PROVE  collection' /\ w \in AtCreate /\ AtCreate' \subseteq AtCreate \ {w}
  BY <1>2, <1>3, <1>4 DEF CreateCollection, Fails, AtCreate
<1>5. ASSUME NEW w \in Workers, WorkerStep(w), ~CreateCollection(w)
      PROVE  /\ UNCHANGED collection
             /\ collection => AtCreate' \subseteq AtCreate
  <2>1. CASE Receive(w) \/ \E i \in 1 .. Prefetch : Redeliver(w, i)
    BY <1>1, <2>1 DEF Receive, Redeliver
  <2>2. CASE Begin(w)
    BY <2>2 DEF Begin, AtCreate, At, Inv, TypeOK
  <2>3. CASE Parse(w) \/ Upsert(w) \/ Report(w)
    BY <1>2, <1>3, <2>3 DEF Parse, Upsert, Report, Fails
  <2>4. CASE CheckCollection(w)
    BY <1>3, <2>4 DEF CheckCollection
  <2>5. CASE Unreachable(w) \/ UpsertTimesOut(w) \/ LosePoolProcess(w) \/ Crash(w)
    BY <1>2, <2>5
       DEF Unreachable, UpsertTimesOut, LosePoolProcess, Crash, Fails
  <2>. QED  BY <1>5, <2>1, <2>2, <2>3, <2>4, <2>5
            DEF WorkerStep, Work, Environment
<1>6. ASSUME Api \/ UNCHANGED vars
      PROVE  UNCHANGED collection /\ AtCreate' \subseteq AtCreate
  <2>1. UNCHANGED <<task, collection>>
    BY <1>6 DEF Api, Save, Enqueue, vars
  <2>. QED  BY <1>1, <2>1
<1>. QED  BY <1>4, <1>5, <1>6, StepIsApiOrWorker

(* One more failure at the most.                                            *)
LEMMA OneMoreFailure ==
  ASSUME CauseInv, NEW j, NEW some, some \subseteq NeedlessFailures \cup {j}
  PROVE  /\ IsFiniteSet(some) /\ Cardinality(some) \in Nat
         /\ Cardinality(NeedlessFailures) \in Nat
         /\ Cardinality(some) <= Cardinality(NeedlessFailures) + 1
         /\ some \subseteq NeedlessFailures =>
              Cardinality(some) <= Cardinality(NeedlessFailures)
<1>. DEFINE more == NeedlessFailures \cup {j}
<1>1. IsFiniteSet(NeedlessFailures) /\ Cardinality(NeedlessFailures) \in Nat
  BY FS_CardinalityType DEF CauseInv
<1>2. /\ IsFiniteSet(more)
      /\ Cardinality(more) = IF j \in NeedlessFailures
                             THEN Cardinality(NeedlessFailures)
                             ELSE Cardinality(NeedlessFailures) + 1
  BY <1>1, FS_AddElement
<1>. HIDE DEF more
<1>3. /\ IsFiniteSet(some) /\ Cardinality(some) \in Nat
      /\ Cardinality(some) <= Cardinality(more)
  BY <1>2, FS_Subset, FS_CardinalityType DEF more
<1>4. some \subseteq NeedlessFailures =>
        Cardinality(some) <= Cardinality(NeedlessFailures)
  BY <1>1, FS_Subset
<1>. QED  BY <1>1, <1>2, <1>3, <1>4

LEMMA CauseInvHolds == Spec => []CauseInv
<1>1. Init => CauseInv
  <2>. SUFFICES ASSUME Init PROVE CauseInv
    OBVIOUS
  <2>1. NeedlessFailures = {} /\ faults = 0 /\ crashes = 0 /\ ~collection
    BY DEF Init, NeedlessFailures
  <2>. QED  BY <2>1, FS_EmptySet DEF CauseInv
<1>2. Inv /\ CauseInv /\ [Next]_vars => CauseInv'
  <2>. SUFFICES ASSUME Inv, CauseInv, [Next]_vars PROVE CauseInv'
    OBVIOUS
  <2>. DEFINE failed == Cardinality(NeedlessFailures)
              failed2 == Cardinality(NeedlessFailures')
              creators == Cardinality(AtCreate)
              creators2 == Cardinality(AtCreate')
              all == Cardinality(Workers)
  <2>1. /\ crashes \in Nat /\ crashes' \in Nat /\ crashes' >= crashes
        /\ faults \in Nat /\ faults' \in Nat /\ faults' >= faults
    BY CountersGrow DEF Inv, TypeOK
  <2>2. /\ IsFiniteSet(AtCreate) /\ IsFiniteSet(AtCreate')
        /\ creators \in Nat /\ creators2 \in Nat /\ all \in Nat
        /\ creators2 <= all
        /\ AtCreate' \subseteq AtCreate => creators2 <= creators
    <3>1. AtCreate \subseteq Workers /\ AtCreate' \subseteq Workers
      BY DEF AtCreate
    <3>2. IsFiniteSet(AtCreate) /\ IsFiniteSet(AtCreate')
      BY <3>1, WorkersAssumption, FS_Subset
    <3>. QED  BY <3>1, <3>2, WorkersAssumption, FS_Subset, FS_CardinalityType
  <2>3. ASSUME NEW w \in Workers, NEW some, IsFiniteSet(some), w \in some,
               AtCreate' \subseteq some \ {w}
        PROVE  creators2 + 1 <= Cardinality(some)
    <3>1. /\ IsFiniteSet(some \ {w})
          /\ Cardinality(some \ {w}) = Cardinality(some) - 1
          /\ Cardinality(some) \in Nat
      BY <2>3, FS_RemoveElement, FS_CardinalityType
    <3>2. creators2 <= Cardinality(some \ {w})
      BY <2>3, <3>1, FS_Subset
    <3>. QED  BY <2>2, <3>1, <3>2
  <2>4. ASSUME NEW w \in Workers, task[w] # Free, Fails(w)
        PROVE  NeedlessFailures' \subseteq NeedlessFailures \cup {task[w].job}
    <3>1. ASSUME NEW v \in Workers, task[v] # Free, Fails(v) PROVE v = w
      BY <2>4, <3>1 DEF Fails, Finish, Inv, TypeOK
    <3>. QED  BY <3>1, NeedlessSteps
  <2>5. CASE \E w \in Workers : Costs(w)
    <3>1. PICK w \in Workers : Costs(w)
      BY <2>5
    <3>. DEFINE causes == faults + crashes
                causes2 == faults' + crashes'
    <3>2. task[w] # Free /\ Fails(w) /\ UNCHANGED collection
      BY <3>1, SlotStep
         DEF Costs, Unreachable, UpsertTimesOut, LosePoolProcess, Free,
             Steps, Inv
    <3>3. causes \in Nat /\ causes2 = causes + 1
      <4>1. \/ faults' = faults + 1 /\ crashes' = crashes
            \/ faults' = faults /\ crashes' = crashes + 1
        BY <3>1 DEF Costs, Unreachable, UpsertTimesOut, LosePoolProcess
      <4>2. faults \in Nat /\ crashes \in Nat
        BY <2>1
      <4>. QED  BY <4>1, <4>2
    <3>4. NeedlessFailures' \subseteq NeedlessFailures \cup {task[w].job}
      BY <2>4, <3>2
    <3>5. /\ IsFiniteSet(NeedlessFailures') /\ failed2 \in Nat /\ failed \in Nat
          /\ failed2 <= failed + 1
      BY <3>4, OneMoreFailure
    <3>6. collection => creators2 <= creators
      BY <2>2, CreatorsLeave
    <3>7. CASE collection
      <4>1. collection'
        BY <3>2, <3>7
      <4>2. failed + creators <= causes + all - 1 /\ creators2 <= creators
        BY <3>6, <3>7 DEF CauseInv
      <4>. HIDE DEF causes, causes2
      <4>3. failed2 + creators2 <= causes2 + all - 1
        BY <2>2, <3>3, <3>5, <4>2
      <4>. QED  BY <3>5, <4>1, <4>3 DEF CauseInv, causes2
    <3>8. CASE ~collection
      <4>1. ~collection'
        BY <3>2, <3>8
      <4>2. failed <= causes
        BY <3>8 DEF CauseInv
      <4>. HIDE DEF causes, causes2
      <4>3. failed2 <= causes2
        BY <3>3, <3>5, <4>2
      <4>. QED  BY <3>5, <4>1, <4>3 DEF CauseInv, causes2
    <3>. QED  BY <3>7, <3>8
  <2>6. CASE \E w \in Workers : CreateCollection(w) /\ collection
    <3>1. PICK w \in Workers : CreateCollection(w) /\ collection
      BY <2>6
    <3>2. /\ task[w] # Free /\ Fails(w) /\ UNCHANGED <<crashes, faults>>
          /\ collection'
      BY <3>1, SlotStep DEF CreateCollection, Steps, Inv
    <3>3. NeedlessFailures' \subseteq NeedlessFailures \cup {task[w].job}
      BY <2>4, <3>2
    <3>4. /\ IsFiniteSet(NeedlessFailures') /\ failed2 \in Nat /\ failed \in Nat
          /\ failed2 <= failed + 1
      BY <3>3, OneMoreFailure
    <3>5. creators2 + 1 <= creators
      BY <2>2, <2>3, <3>1, CreatorsLeave
    <3>. QED  BY <2>1, <2>2, <3>1, <3>2, <3>4, <3>5 DEF CauseInv
  <2>7. CASE ~\E w \in Workers : Costs(w) \/ (CreateCollection(w) /\ collection)
    <3>1. NeedlessFailures' \subseteq NeedlessFailures
      BY <2>7, NeedlessSteps
    <3>2. /\ IsFiniteSet(NeedlessFailures') /\ failed2 \in Nat /\ failed \in Nat
          /\ failed2 <= failed
      BY <3>1, OneMoreFailure
    <3>3. CASE \E w \in Workers : CreateCollection(w)
      <4>1. PICK w \in Workers : CreateCollection(w)
        BY <3>3
      <4>2. ~collection /\ collection'
        BY <2>7, <4>1 DEF CreateCollection
      <4>3. AtCreate' \subseteq Workers \ {w}
        BY <4>1, CreatorsLeave DEF AtCreate
      <4>4. creators2 + 1 <= all
        BY <2>3, <4>3, WorkersAssumption
      <4>. QED  BY <2>1, <2>2, <3>2, <4>2, <4>4 DEF CauseInv
    <3>4. CASE ~\E w \in Workers : CreateCollection(w)
      <4>1. UNCHANGED collection /\ (collection => creators2 <= creators)
        BY <2>2, <3>4, CreatorsLeave
      <4>. QED  BY <2>1, <2>2, <3>2, <4>1 DEF CauseInv
    <3>. QED  BY <3>3, <3>4
  <2>. QED  BY <2>5, <2>6, <2>7
<1>. QED  BY <1>1, <1>2, InvHolds, PTL DEF Spec

(* However many workers run, whatever is uploaded and delivered again: a    *)
(* document that can be indexed fails for a call that failed or a process   *)
(* that was lost, one for each, and for the race to create the collection,  *)
(* which costs at most one document for every worker but the first.         *)
THEOREM FailuresHaveCauses == Spec => []FailuresAreExplained
<1>1. Inv /\ CauseInv => FailuresAreExplained
  <2>. SUFFICES ASSUME Inv, CauseInv PROVE FailuresAreExplained
    OBVIOUS
  <2>1. IsFiniteSet(AtCreate) /\ Cardinality(AtCreate) \in Nat
    <3>1. AtCreate \subseteq Workers
      BY DEF AtCreate
    <3>. QED  BY <3>1, WorkersAssumption, FS_Subset, FS_CardinalityType
  <2>2. Cardinality(Workers) \in Nat /\ Cardinality(Workers) # 0
    BY WorkersAssumption, FS_CardinalityType, FS_EmptySet
  <2>3. Cardinality(NeedlessFailures) \in Nat
    BY FS_CardinalityType DEF CauseInv
  <2>4. faults \in Nat /\ crashes \in Nat /\ collection \in BOOLEAN
    BY DEF Inv, TypeOK
  <2>. QED  BY <2>1, <2>2, <2>3, <2>4 DEF CauseInv, FailuresAreExplained
<1>. QED  BY <1>1, InvHolds, CauseInvHolds, PTL

-----------------------------------------------------------------------------
(* Losses.                                                                  *)

Has(s, x) == \E i \in DOMAIN s : s[i] = x

LEMMA HasAppend ==
  ASSUME NEW S, NEW s \in Seq(S), NEW e \in S, NEW x, Has(s, x) \/ x = e
  PROVE  Has(Append(s, e), x)
<1>. DEFINE t == Append(s, e)
<1>1. /\ DOMAIN s = 1 .. Len(s) /\ DOMAIN t = 1 .. Len(s) + 1
      /\ Len(s) \in Nat
      /\ \A i \in 1 .. Len(s) : t[i] = s[i]
      /\ t[Len(s) + 1] = e
  BY AppendProperties, LenProperties
<1>. HIDE DEF t
<1>2. CASE Has(s, x)
  BY <1>1, <1>2 DEF Has
<1>3. CASE x = e
  BY <1>1, <1>3 DEF Has
<1>. QED  BY <1>2, <1>3 DEF t

LEMMA HasConcat ==
  ASSUME NEW S, NEW s \in Seq(S), NEW t \in Seq(S), NEW x,
         Has(s, x) \/ Has(t, x)
  PROVE  Has(s \o t, x)
<1>. DEFINE st == s \o t
<1>1. /\ DOMAIN s = 1 .. Len(s) /\ DOMAIN t = 1 .. Len(t)
      /\ DOMAIN st = 1 .. Len(s) + Len(t)
      /\ Len(s) \in Nat /\ Len(t) \in Nat
      /\ \A i \in 1 .. Len(s) + Len(t) :
            st[i] = IF i <= Len(s) THEN s[i] ELSE t[i - Len(s)]
  BY ConcatProperties, LenProperties
<1>. HIDE DEF st
<1>2. ASSUME NEW i \in DOMAIN s, s[i] = x
      PROVE  Has(st, x)
  <2>1. i \in DOMAIN st /\ st[i] = s[i]
    BY <1>1
  <2>. QED  BY <1>2, <2>1 DEF Has
<1>3. ASSUME NEW i \in DOMAIN t, t[i] = x
      PROVE  Has(st, x)
  <2>1. i + Len(s) \in DOMAIN st /\ st[i + Len(s)] = t[i]
    BY <1>1
  <2>. QED  BY <1>3, <2>1 DEF Has
<1>. QED  BY <1>2, <1>3 DEF Has, st

LEMMA HasTail ==
  ASSUME NEW S, NEW s \in Seq(S), s # <<>>, NEW x, Has(s, x)
  PROVE  x = Head(s) \/ Has(Tail(s), x)
<1>. DEFINE t == Tail(s)
<1>1. PICK i \in DOMAIN s : s[i] = x
  BY DEF Has
<1>2. /\ DOMAIN s = 1 .. Len(s) /\ DOMAIN t = 1 .. Len(s) - 1
      /\ Len(s) \in Nat
      /\ \A k \in 1 .. Len(s) - 1 : t[k] = s[k + 1]
      /\ Head(s) = s[1]
  BY HeadTailProperties, LenProperties
<1>. HIDE DEF t
<1>3. CASE i = 1
  BY <1>1, <1>2, <1>3
<1>4. CASE i # 1
  <2>1. i - 1 \in DOMAIN t /\ t[i - 1] = s[i]
    BY <1>2, <1>4
  <2>. QED  BY <1>1, <2>1 DEF Has, t
<1>. QED  BY <1>3, <1>4

(* A message of j that will be delivered, whatever dies first.              *)
HeldMessage(j) == [job |-> j, held |-> TRUE]

Pending(j) ==
  \/ Has(waiting, j)
  \/ \E w \in Workers : Has(reserved[w], HeldMessage(j))

(* A dying worker puts back every message that it holds.                    *)
LEMMA AllHeldAreRestored ==
  ASSUME TypeOK, NEW w \in Workers, NEW jobs \in Restored(w), NEW j,
         Has(reserved[w], HeldMessage(j))
  PROVE  Has(jobs, j)
<1>. DEFINE n == Cardinality(HeldBy(w))
<1>1. PICK order \in SetToSeqs(HeldBy(w)) :
        jobs = [k \in DOMAIN order |-> reserved[w][order[k]].job]
  BY DEF Restored, HeldBy
<1>2. PICK i \in HeldBy(w) : reserved[w][i].job = j
  BY DEF Has, HeldMessage, HeldBy
<1>3. /\ order \in [1 .. n -> HeldBy(w)]
      /\ \A a, b \in 1 .. n : a # b => order[a] # order[b]
  BY DEF SetToSeqs
<1>4. \E k \in 1 .. n : order[k] = i
  <2>. SUFFICES ASSUME \A k \in 1 .. n : order[k] # i
                PROVE  FALSE
    OBVIOUS
  <2>. DEFINE others == HeldBy(w) \ {i}
  <2>1. order \in [1 .. n -> others]
    BY <1>3
  <2>2. IsFiniteSet(others) /\ Cardinality(others) = n - 1 /\ n \in Nat
    BY HeldByType, FS_RemoveElement
  <2>3. IsFiniteSet(1 .. n) /\ Cardinality(1 .. n) = n
    BY <2>2, FS_Interval
  <2>. HIDE DEF n, others
  <2>. QED  BY <1>3, <2>1, <2>2, <2>3, FS_PigeonHole
<1>5. PICK k \in 1 .. n : order[k] = i
  BY <1>4
<1>6. k \in DOMAIN jobs /\ jobs[k] = j
  BY <1>1, <1>2, <1>3, <1>5
<1>. QED  BY <1>6 DEF Has

(* A message that will be delivered stays one, or its task begins.          *)
LEMMA PendingGoesOn ==
  ASSUME Inv, [Next]_vars, NEW j \in Jobs, Pending(j)
  PROVE  Pending(j)' \/ Running(j)'
<1>. USE DEF Inv
<1>0. /\ waiting \in Seq(sent) /\ waiting \in Seq(Jobs)
      /\ \A w \in Workers : reserved[w] \in Seq(Message)
      /\ DOMAIN reserved = Workers /\ sent \subseteq Jobs
      /\ DOMAIN task = Workers
  <2>1. sent \subseteq Jobs /\ waiting \in Seq(sent)
    BY DEF TypeOK
  <2>2. waiting \in Seq(Jobs)
    BY <2>1, SeqMonotonic
  <2>. QED  BY <2>1, <2>2 DEF TypeOK
<1>1. ASSUME UNCHANGED <<waiting, reserved>>
      PROVE  Pending(j)'
  BY <1>1 DEF Pending
<1>2. CASE Api
  <2>1. CASE UNCHANGED <<waiting, reserved>>
    BY <1>1, <2>1
  <2>2. ASSUME NEW k \in Jobs, Enqueue(k)
        PROVE  Pending(j)'
    BY <1>0, <2>2, HasAppend DEF Enqueue, Pending
  <2>. QED  BY <1>2, <2>1, <2>2 DEF Api, Save, broker
<1>3. ASSUME NEW w \in Workers, Receive(w)
      PROVE  Pending(j)'
  <2>. DEFINE m == [job |-> Head(waiting), held |-> TRUE]
  <2>1. Head(waiting) \in sent /\ m \in Message
    BY <1>0, <1>3, HeadTailProperties DEF Receive, Message
  <2>2. /\ waiting' = Tail(waiting) /\ waiting # <<>>
        /\ reserved' = [reserved EXCEPT ![w] = Append(reserved[w], m)]
    BY <1>3 DEF Receive
  <2>3. ASSUME NEW v \in Workers, Has(reserved[v], HeldMessage(j))
        PROVE  Has(reserved'[v], HeldMessage(j))
    <3>. HIDE DEF m
    <3>. QED  BY <1>0, <2>1, <2>2, <2>3, HasAppend
  <2>4. CASE j = Head(waiting)
    <3>1. m = HeldMessage(j)
      BY <2>4 DEF HeldMessage
    <3>. HIDE DEF m
    <3>2. Has(reserved'[w], HeldMessage(j))
      BY <1>0, <2>1, <2>2, <3>1, HasAppend
    <3>. QED  BY <3>2 DEF Pending
  <2>5. CASE j # Head(waiting) /\ Has(waiting, j)
    BY <1>0, <2>2, <2>5, HasTail DEF Pending
  <2>. QED  BY <2>3, <2>4, <2>5 DEF Pending
<1>4. ASSUME NEW w \in Workers, Begin(w)
      PROVE  Pending(j)' \/ Running(j)'
  <2>1. /\ reserved[w] # <<>> /\ waiting' = waiting
        /\ reserved' = [reserved EXCEPT ![w] = Tail(reserved[w])]
    BY <1>4 DEF Begin
  <2>2. task'[w] = [at |-> "parse", job |-> Head(reserved[w]).job]
    BY <1>0, <1>4 DEF Begin
  <2>3. CASE Head(reserved[w]) = HeldMessage(j)
    BY <2>2, <2>3 DEF HeldMessage, Running, Free
  <2>4. ASSUME NEW v \in Workers, Has(reserved[v], HeldMessage(j)),
               Head(reserved[w]) # HeldMessage(j)
        PROVE  Has(reserved'[v], HeldMessage(j))
    BY <1>0, <2>1, <2>4, HasTail
  <2>. QED  BY <2>1, <2>3, <2>4 DEF Pending
<1>5. ASSUME NEW w \in Workers, NEW i \in 1 .. Prefetch, Redeliver(w, i)
      PROVE  Pending(j)'
  <2>. DEFINE k == reserved[w][i].job
  <2>1. k \in sent
    <3>1. i \in 1 .. Len(reserved[w])
      BY <1>0, <1>5 DEF Redeliver
    <3>2. reserved[w][i] \in Message
      BY <1>0, <3>1, ElementOfSeq
    <3>. QED  BY <3>2 DEF Message
  <2>2. waiting' = <<k>> \o waiting /\ <<k>> \in Seq(sent)
    BY <1>5, <2>1 DEF Redeliver
  <2>3. Has(<<k>>, k)
    BY DEF Has
  <2>. HIDE DEF k
  <2>4. k = j \/ Has(waiting, j) => Has(waiting', j)
    BY <1>0, <2>2, <2>3, HasConcat
  <2>5. ASSUME NEW v \in Workers, Has(reserved[v], HeldMessage(j)), k # j
        PROVE  Has(reserved'[v], HeldMessage(j))
    <3>1. PICK l \in DOMAIN reserved[v] : reserved[v][l] = HeldMessage(j)
      BY <2>5 DEF Has
    <3>2. v # w \/ l # i
      BY <2>5, <3>1 DEF k, HeldMessage
    <3>3. /\ DOMAIN reserved'[v] = DOMAIN reserved[v]
          /\ reserved'[v][l] = reserved[v][l]
      BY <1>0, <1>5, <3>1, <3>2 DEF Redeliver
    <3>. QED  BY <3>1, <3>3 DEF Has
  <2>. QED  BY <2>4, <2>5 DEF Pending
<1>6. ASSUME NEW w \in Workers, Crash(w)
      PROVE  Pending(j)'
  <2>1. PICK jobs \in Restored(w) : waiting' = jobs \o waiting
    BY <1>6 DEF Crash
  <2>2. jobs \in Seq(sent)
    BY RestoredType
  <2>3. Has(jobs, j) \/ Has(waiting, j) => Has(waiting', j)
    BY <1>0, <2>1, <2>2, HasConcat
  <2>4. Has(reserved[w], HeldMessage(j)) => Has(jobs, j)
    BY AllHeldAreRestored
  <2>5. \A v \in Workers : v # w => reserved'[v] = reserved[v]
    BY <1>0, <1>6 DEF Crash
  <2>. QED  BY <2>3, <2>4, <2>5 DEF Pending
<1>7. ASSUME NEW w \in Workers, WorkerStep(w)
      PROVE  Pending(j)' \/ Running(j)'
  <2>1. CASE \/ Work(w) \/ Unreachable(w) \/ UpsertTimesOut(w)
             \/ LosePoolProcess(w)
    BY <1>1, <2>1
       DEF Work, Parse, CheckCollection, CreateCollection, Upsert, Report,
           Unreachable, UpsertTimesOut, LosePoolProcess, broker
  <2>. QED  BY <1>3, <1>4, <1>5, <1>6, <1>7, <2>1
            DEF WorkerStep, Environment
<1>. QED  BY <1>1, <1>2, <1>7, StepIsApiOrWorker DEF vars

(* A job that nobody will run: the strengthening of Lost, which the message *)
(* that a worker still has does not save, for it dies with the worker.      *)
Gone(j) ==
  j \in sent /\ status[j] \notin Terminal /\ ~Pending(j) /\ ~Running(j)

GoneJobs == {j \in Jobs : Gone(j)}

LossInv == IsFiniteSet(GoneJobs) /\ Cardinality(GoneJobs) <= crashes

LEMMA SentIsPending ==
  ASSUME Inv, [Next]_vars, NEW j \in Jobs, j \in sent' \ sent
  PROVE  Pending(j)'
<1>1. Api
  BY StepIsApiOrWorker
     DEF vars, WorkerStep, Work, Environment, Receive, Begin, Parse,
         CheckCollection, CreateCollection, Upsert, Report, Redeliver,
         Unreachable, UpsertTimesOut, LosePoolProcess, Crash, broker
<1>2. PICK k \in Jobs : Enqueue(k)
  BY <1>1 DEF Api, Save, broker
<1>3. waiting \in Seq(Jobs)
  <2>1. waiting \in Seq(sent) /\ sent \subseteq Jobs
    BY DEF Inv, TypeOK
  <2>. QED  BY <2>1, SeqMonotonic
<1>. QED  BY <1>2, <1>3, HasAppend DEF Enqueue, Pending

(* Only the crash of the worker that runs it makes a job a lost one.        *)
LEMMA GoneSteps ==
  ASSUME Inv, [Next]_vars, NEW j \in Jobs, Gone(j)'
  PROVE  \/ Gone(j)
         \/ \E w \in Workers :
              Crash(w) /\ task[w] # Free /\ task[w].job = j
<1>1. j \in sent
  BY SentIsPending DEF Gone
<1>2. status[j] \notin Terminal
  BY StatusSteps DEF Gone, StatusStep, Terminal
<1>3. ~Pending(j)
  BY PendingGoesOn DEF Gone
<1>4. CASE Running(j)
  BY <1>4, RunningGoesOn DEF Gone
<1>. QED  BY <1>1, <1>2, <1>3, <1>4 DEF Gone

LEMMA LossInvHolds == Spec => []LossInv
<1>1. Init => LossInv
  <2>. SUFFICES ASSUME Init PROVE LossInv
    OBVIOUS
  <2>1. GoneJobs = {} /\ crashes = 0
    BY DEF Init, GoneJobs, Gone
  <2>. QED  BY <2>1, FS_EmptySet DEF LossInv
<1>2. Inv /\ LossInv /\ [Next]_vars => LossInv'
  <2>. SUFFICES ASSUME Inv, LossInv, [Next]_vars
                PROVE  LossInv'
    OBVIOUS
  <2>1. /\ crashes \in Nat /\ crashes' \in Nat /\ crashes' >= crashes
        /\ Cardinality(GoneJobs) \in Nat
    BY CountersGrow, FS_CardinalityType DEF LossInv, Inv, TypeOK
  <2>2. CASE GoneJobs' \subseteq GoneJobs
    <3>1. IsFiniteSet(GoneJobs') /\ Cardinality(GoneJobs') <= Cardinality(GoneJobs)
      BY <2>2, FS_Subset DEF LossInv
    <3>2. Cardinality(GoneJobs') \in Nat
      BY <3>1, FS_CardinalityType
    <3>. QED  BY <2>1, <3>1, <3>2 DEF LossInv
  <2>3. ASSUME NEW w \in Workers, Crash(w), task[w] # Free
        PROVE  LossInv'
    <3>. DEFINE more == GoneJobs \cup {task[w].job}
    <3>1. ASSUME NEW v \in Workers, Crash(v), task[v] # Free
          PROVE  v = w
      BY <2>3, <3>1 DEF Crash, Inv, TypeOK
    <3>2. GoneJobs' \subseteq more
      BY <3>1, GoneSteps DEF GoneJobs
    <3>3. /\ IsFiniteSet(more) /\ Cardinality(more) \in Nat
          /\ Cardinality(more) <= Cardinality(GoneJobs) + 1
      <4>1. /\ IsFiniteSet(more)
            /\ Cardinality(more) = IF task[w].job \in GoneJobs
                                   THEN Cardinality(GoneJobs)
                                   ELSE Cardinality(GoneJobs) + 1
        BY FS_AddElement DEF LossInv
      <4>. HIDE DEF more
      <4>. QED  BY <2>1, <4>1
    <3>. HIDE DEF more
    <3>4. /\ IsFiniteSet(GoneJobs') /\ Cardinality(GoneJobs') \in Nat
          /\ Cardinality(GoneJobs') <= Cardinality(more)
      BY <3>2, <3>3, FS_Subset, FS_CardinalityType
    <3>5. crashes' = crashes + 1
      BY <2>3 DEF Crash
    <3>. QED  BY <2>1, <3>3, <3>4, <3>5 DEF LossInv
  <2>4. \/ GoneJobs' \subseteq GoneJobs
        \/ \E w \in Workers : Crash(w) /\ task[w] # Free
    BY GoneSteps DEF GoneJobs
  <2>. QED  BY <2>2, <2>3, <2>4
<1>. QED  BY <1>1, <1>2, InvHolds, PTL DEF Spec

(* However workers die and messages are delivered again, no more jobs are   *)
(* lost than workers died: what a worker had prefetched is run by another.  *)
THEOREM LossesAreCrashes == Spec => []LossesNeedCrashes
<1>1. Inv /\ LossInv => LossesNeedCrashes
  <2>. SUFFICES ASSUME Inv, LossInv PROVE LossesNeedCrashes
    OBVIOUS
  <2>. DEFINE lost == {j \in Jobs : Lost(j)}
  <2>1. ASSUME NEW j \in Jobs, Pending(j)
        PROVE  Queued(j)
    BY <2>1 DEF Pending, Has, HeldMessage, Queued
  <2>2. lost \subseteq GoneJobs
    BY <2>1 DEF GoneJobs, Gone, Lost
  <2>3. /\ Cardinality(lost) \in Nat /\ Cardinality(GoneJobs) \in Nat
        /\ Cardinality(lost) <= Cardinality(GoneJobs)
    BY <2>2, FS_Subset, FS_CardinalityType DEF LossInv
  <2>. QED  BY <2>3 DEF LossInv, LossesNeedCrashes, Inv, TypeOK
<1>. QED  BY <1>1, InvHolds, LossInvHolds, PTL

-----------------------------------------------------------------------------
(* Verdicts.                                                                *)

(* The canonical pipeline embeds a page of which the scorer says accepted.  *)
LEMMA CleanKeepsAll ==
  ASSUME Pipeline = "canonical", NEW u \in Upload, Usable(u), Clean(u)
  PROVE  Kept(u) = Places(u)
<1>1. ASSUME NEW p \in DOMAIN PagesOf(u)
      PROVE  /\ Embeddable(PagesOf(u)[p])
             /\ PiecesOf(PagesOf(u)[p]) = PagesOf(u)[p].pieces
  <2>1. PagesOf(u)[p] \in Page
    BY PagesType
  <2>2. PagesOf(u)[p].verdict = "accepted"
    BY <2>1 DEF Clean, HasVerdict, Page, Statuses
  <2>. QED  BY <2>1, <2>2 DEF Page, Statuses, Embeddable, PiecesOf
<1>. QED  BY <1>1 DEF Kept, Places

(* What is kept of an upload, and its verdict, are given by its content.    *)
LEMMA KeptOfContent ==
  ASSUME NEW u, NEW v, u.content = v.content
  PROVE  Kept(u) = Kept(v)
<1>1. PagesOf(u) = PagesOf(v)
  BY DEF PagesOf
<1>. QED  BY <1>1 DEF Kept

LEMMA VerdictMeans ==
  ASSUME NEW u
  PROVE  /\ Verdict(u) = "indexed" => Pipeline = "canonical" /\ Clean(u)
         /\ Verdict(u) \in {"needs_review", "failed"} =>
              Pipeline = "canonical" /\ Kept(u) = {}
BY DEF Verdict, IndexedVerdict, EmptyVerdict

(* Every point of the index is one that an upload with its content keeps.   *)
PointsAreKept ==
  \A id \in DOMAIN index : \E k, u :
    id = PointId(k, u, id.place) /\ id.place \in Kept(u)

(* A job that reads SUCCESS was parsed, and its verdict is its document's.  *)
VerdictIsOfUpload ==
  \A j \in Jobs : status[j] = "SUCCESS" =>
    Usable(upload[j]) /\ result[j].verdict = Verdict(upload[j])

LEMMA PointsAreKeptHolds == Spec => []PointsAreKept
<1>1. Init => PointsAreKept
  BY DEF Init, PointsAreKept, NoPoints
<1>2. Inv /\ PointsAreKept /\ [Next]_vars => PointsAreKept'
  <2>. SUFFICES ASSUME Inv, PointsAreKept, [Next]_vars
                PROVE  PointsAreKept'
    OBVIOUS
  <2>1. CASE UNCHANGED index
    BY <2>1 DEF PointsAreKept
  <2>2. ASSUME NEW j \in Jobs, Promised!Publish(j)
        PROVE  PointsAreKept'
    <3>1. index' = Upserted(index, Points(j, upload[j]))
      BY <2>2, PromisedOperators DEF Promised!Publish
    <3>2. DOMAIN index' = DOMAIN index \cup DOMAIN Points(j, upload[j])
      BY <3>1, UpsertedShape
    <3>. QED  BY <3>2, PointsShape DEF PointsAreKept
  <2>. QED  BY <2>1, <2>2, StepRefines DEF Promised!Next, Promised!Accept
<1>. QED  BY <1>1, <1>2, InvHolds, PTL DEF Spec

LEMMA VerdictIsOfUploadHolds == Spec => []VerdictIsOfUpload
<1>1. Init => VerdictIsOfUpload
  BY DEF Init, VerdictIsOfUpload
<1>2. Inv /\ VerdictIsOfUpload /\ [Next]_vars => VerdictIsOfUpload'
  <2>. SUFFICES ASSUME Inv, VerdictIsOfUpload, [Next]_vars,
                       NEW j \in Jobs, status'[j] = "SUCCESS"
                PROVE  /\ Usable(upload'[j])
                       /\ result'[j].verdict = Verdict(upload'[j])
    BY DEF VerdictIsOfUpload
  <2>1. j \in sent /\ upload'[j] = upload[j]
    BY StatusIsOfSent, QueuedUploadsStay
  <2>2. CASE status[j] = "SUCCESS" /\ result'[j] = result[j]
    BY <2>1, <2>2 DEF VerdictIsOfUpload
  <2>3. ASSUME NEW w \in Workers, At(w, "report"), task[w].job = j,
               result'[j] = ResultOf(upload[j])
        PROVE  Usable(upload[j]) /\ result'[j].verdict = Verdict(upload[j])
    BY <2>3 DEF At, Steps, Inv, ParsedIsUsable, ResultOf
  <2>. QED  BY <2>1, <2>2, <2>3, StatusSteps DEF StatusStep
<1>. QED  BY <1>1, <1>2, InvHolds, PTL DEF Spec

(* The verdict that the client reads of a canonical job is true of the      *)
(* index, whatever was ingested before and since: "indexed" leaves out no   *)
(* piece of the document, "needs_review" and "failed" mean that none of     *)
(* this revision can be found.                                              *)
THEOREM VerdictsAreTrue == Spec => []VerdictMatchesIndex
<1>1. Inv /\ SearchInv /\ PointsAreKept /\ VerdictIsOfUpload
        => VerdictMatchesIndex
  <2>. SUFFICES ASSUME Inv, SearchInv, PointsAreKept, VerdictIsOfUpload,
                       NEW j \in Jobs, status[j] = "SUCCESS"
                PROVE  LET found == {place \in Places(upload[j]) :
                               PointId(j, upload[j], place) \in DOMAIN index}
                       IN  /\ result[j].verdict = "indexed" =>
                                found = Places(upload[j])
                           /\ result[j].verdict \in {"needs_review", "failed"}
                                => found = {}
    BY DEF VerdictMatchesIndex
  <2>1. /\ upload[j] \in Upload /\ Usable(upload[j])
        /\ result[j].verdict = Verdict(upload[j])
    BY DEF Inv, TypeOK, VerdictIsOfUpload
  <2>2. ASSUME Verdict(upload[j]) = "indexed", NEW place \in Places(upload[j])
        PROVE  PointId(j, upload[j], place) \in DOMAIN index
    <3>1. place \in Kept(upload[j])
      BY <2>1, <2>2, VerdictMeans, CleanKeepsAll
    <3>. QED  BY <3>1, PointsShape DEF SearchInv, Searchable, PointsOf
  <2>3. ASSUME Verdict(upload[j]) \in {"needs_review", "failed"},
               NEW place, PointId(j, upload[j], place) \in DOMAIN index
        PROVE  FALSE
    <3>. DEFINE id == PointId(j, upload[j], place)
    <3>1. Pipeline = "canonical" /\ Kept(upload[j]) = {}
      BY <2>3, VerdictMeans
    <3>2. PICK k, u : id = PointId(k, u, id.place) /\ id.place \in Kept(u)
      BY <2>3 DEF PointsAreKept
    <3>3. u.content = upload[j].content
      BY <3>1, <3>2 DEF PointId
    <3>. QED  BY <3>1, <3>2, <3>3, KeptOfContent
  <2>. QED  BY <2>1, <2>2, <2>3
<1>. QED  BY <1>1, InvHolds, SearchInvHolds, PointsAreKeptHolds,
             VerdictIsOfUploadHolds, PTL

=============================================================================
