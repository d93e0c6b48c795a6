----------------------- MODULE EmbeddingIndex_proofs -----------------------
(***************************************************************************)
(* Theorems about EmbeddingIndex, for any number of requests, rows, users, *)
(* records and workers and for every arrival discipline and fault set.     *)
(***************************************************************************)
EXTENDS EmbeddingIndex, TLAPS

-----------------------------------------------------------------------------
(* The jobs in the waiting list. *)

Distinct(q) == \A m, n \in 1 .. Len(q) : q[m] = q[n] => m = n

LEMMA WaitingAppend ==
    ASSUME queue \in Seq(Requests), NEW i \in Requests,
           queue' = Append(queue, i)
    PROVE  /\ queue' \in Seq(Requests)
           /\ WaitingJobs' = WaitingJobs \cup {i}
           /\ i \notin WaitingJobs /\ Distinct(queue) => Distinct(queue')
<1>1. /\ Len(queue') = Len(queue) + 1
      /\ \A n \in 1 .. Len(queue) : queue'[n] = queue[n]
      /\ queue'[Len(queue) + 1] = i
      /\ Len(queue) \in Nat
  OBVIOUS
<1>2. queue' \in Seq(Requests)
  OBVIOUS
<1>3. WaitingJobs' = WaitingJobs \cup {i}
  BY <1>1 DEF WaitingJobs
<1>4. ASSUME i \notin WaitingJobs, Distinct(queue)
      PROVE  Distinct(queue')
  BY <1>1, <1>4 DEF Distinct, WaitingJobs
<1>5. QED
  BY <1>2, <1>3, <1>4

LEMMA WaitingCons ==
    ASSUME queue \in Seq(Requests), NEW j \in Requests,
           queue' = <<j>> \o queue
    PROVE  /\ queue' \in Seq(Requests)
           /\ WaitingJobs' = WaitingJobs \cup {j}
           /\ j \notin WaitingJobs /\ Distinct(queue) => Distinct(queue')
<1>1. /\ Len(queue') = Len(queue) + 1
      /\ \A n \in 1 .. Len(queue) : queue'[n + 1] = queue[n]
      /\ queue'[1] = j
      /\ Len(queue) \in Nat
  OBVIOUS
<1>2. queue' \in Seq(Requests)
  OBVIOUS
<1>3. WaitingJobs' \subseteq WaitingJobs \cup {j}
  <2>1. SUFFICES ASSUME NEW n \in 1 .. Len(queue')
                 PROVE  queue'[n] \in WaitingJobs \cup {j}
    BY DEF WaitingJobs
  <2>2. CASE n = 1
    BY <1>1, <2>2
  <2>3. CASE n # 1
    <3>1. n - 1 \in 1 .. Len(queue) /\ (n - 1) + 1 = n
      BY <1>1, <2>1, <2>3
    <3>2. QED
      BY <1>1, <3>1 DEF WaitingJobs
  <2>4. QED
    BY <2>2, <2>3
<1>4. WaitingJobs \cup {j} \subseteq WaitingJobs'
  <2>1. j \in WaitingJobs'
    BY <1>1 DEF WaitingJobs
  <2>2. ASSUME NEW n \in 1 .. Len(queue)
        PROVE  queue[n] \in WaitingJobs'
    BY <1>1, <2>2, n + 1 \in 1 .. Len(queue') DEF WaitingJobs
  <2>3. QED
    BY <2>1, <2>2 DEF WaitingJobs
<1>5. ASSUME j \notin WaitingJobs, Distinct(queue)
      PROVE  Distinct(queue')
  <2>1. SUFFICES ASSUME NEW m \in 1 .. Len(queue'), NEW n \in 1 .. Len(queue'),
                        queue'[m] = queue'[n]
                 PROVE  m = n
    BY DEF Distinct
  <2>2. \A k \in 1 .. Len(queue') : k # 1 =>
            /\ k - 1 \in 1 .. Len(queue)
            /\ queue'[k] = queue[k - 1]
            /\ queue'[k] # j
    <3>1. SUFFICES ASSUME NEW k \in 1 .. Len(queue'), k # 1
                   PROVE  /\ k - 1 \in 1 .. Len(queue)
                          /\ queue'[k] = queue[k - 1]
                          /\ queue'[k] # j
      OBVIOUS
    <3>2. k - 1 \in 1 .. Len(queue) /\ (k - 1) + 1 = k
      BY <1>1, <3>1
    <3>3. queue'[k] = queue[k - 1]
      BY <1>1, <3>2
    <3>4. QED
      BY <1>5, <3>2, <3>3 DEF WaitingJobs
  <2>3. CASE m = 1 \/ n = 1
    BY <1>1, <2>1, <2>2, <2>3
  <2>4. CASE m # 1 /\ n # 1
    <3>1. m - 1 = n - 1
      BY <1>5, <2>1, <2>2, <2>4 DEF Distinct
    <3>2. QED
      BY <3>1
  <2>5. QED
    BY <2>3, <2>4
<1>6. QED
  BY <1>2, <1>3, <1>4, <1>5

LEMMA WaitingTail ==
    ASSUME queue \in Seq(Requests), queue # <<>>, queue' = Tail(queue)
    PROVE  /\ queue' \in Seq(Requests)
           /\ Head(queue) \in Requests
           /\ WaitingJobs = WaitingJobs' \cup {Head(queue)}
           /\ Distinct(queue) =>
                 Distinct(queue') /\ Head(queue) \notin WaitingJobs'
<1>1. /\ Len(queue') = Len(queue) - 1
      /\ \A n \in 1 .. Len(queue') : queue'[n] = queue[n + 1]
      /\ Head(queue) = queue[1]
      /\ Len(queue) \in Nat /\ Len(queue) > 0
  OBVIOUS
<1>2. queue' \in Seq(Requests) /\ Head(queue) \in Requests
  OBVIOUS
<1>3. WaitingJobs \subseteq WaitingJobs' \cup {Head(queue)}
  <2>1. SUFFICES ASSUME NEW n \in 1 .. Len(queue)
                 PROVE  queue[n] \in WaitingJobs' \cup {Head(queue)}
    BY DEF WaitingJobs
  <2>2. CASE n = 1
    BY <1>1, <2>2
  <2>3. CASE n # 1
    <3>1. n - 1 \in 1 .. Len(queue') /\ (n - 1) + 1 = n
      BY <1>1, <2>1, <2>3
    <3>2. QED
      BY <1>1, <3>1 DEF WaitingJobs
  <2>4. QED
    BY <2>2, <2>3
<1>4. WaitingJobs' \cup {Head(queue)} \subseteq WaitingJobs
  <2>1. Head(queue) \in WaitingJobs
    BY <1>1 DEF WaitingJobs
  <2>2. ASSUME NEW n \in 1 .. Len(queue')
        PROVE  queue'[n] \in WaitingJobs
    BY <1>1, <2>2, n + 1 \in 1 .. Len(queue) DEF WaitingJobs
  <2>3. QED
    BY <2>1, <2>2 DEF WaitingJobs
<1>5. ASSUME Distinct(queue)
      PROVE  Distinct(queue') /\ Head(queue) \notin WaitingJobs'
  <2>1. \A k \in 1 .. Len(queue') :
            k + 1 \in 1 .. Len(queue) /\ queue'[k] = queue[k + 1]
    BY <1>1
  <2>2. 1 \in 1 .. Len(queue)
    BY <1>1
  <2>3. Distinct(queue')
    <3>1. SUFFICES ASSUME NEW m \in 1 .. Len(queue'),
                          NEW n \in 1 .. Len(queue'), queue'[m] = queue'[n]
                   PROVE  m = n
      BY DEF Distinct
    <3>2. m + 1 = n + 1
      BY <1>5, <2>1, <3>1 DEF Distinct
    <3>3. QED
      BY <3>2
  <2>4. Head(queue) \notin WaitingJobs'
    <3>1. SUFFICES ASSUME NEW k \in 1 .. Len(queue'), queue'[k] = queue[1]
                   PROVE  FALSE
      BY <1>1 DEF WaitingJobs
    <3>2. k + 1 = 1
      BY <1>5, <2>1, <2>2, <3>1 DEF Distinct
    <3>3. QED
      BY <3>2
  <2>5. QED
    BY <2>3, <2>4
<1>6. QED
  BY <1>2, <1>3, <1>4, <1>5

-----------------------------------------------------------------------------
(***************************************************************************)
(* Type correctness, strengthened by what a request must have read before  *)
(* it is where it is: the actions apply .id and .key to seen and arg.      *)
(***************************************************************************)
Holding == {"purge", "update", "enqueue", "remove"}

Shape ==
    /\ \A i \in Requests : pc[i] # "new" => arg[i] \in Arg
    /\ \A i \in Requests : pc[i] = "new" => seen[i] = NoRow
    /\ \A i \in Requests : pc[i] \in Holding => seen[i] \in Entity
    /\ \A j \in OpenJobs : seen[j] \in Entity /\ pc[j] = "done"

\* A job is in one place, so BullMQ gives up no job that waits or runs: whatever
\* job is open has stalled at most MaxStalled times.
Once ==
    /\ Distinct(queue)
    /\ WaitingJobs \cap ActiveJobs = {}
    /\ stalled \cap (WaitingJobs \cup ActiveJobs) = {}
    /\ \A j \in Requests :
          stalls[j] > MaxStalled => j \notin OpenJobs /\ pc[j] = "done"

TInv == TypeOK /\ Shape /\ Once

LEMMA EntityNotNoRow ==
    /\ NoRow \notin Entity
    /\ NoRow \notin Source
    /\ NoArg \notin Arg
BY ConstantsAssumption DEF Entity, Source, Arg, Statuses

LEMMA OpenJobsAreRequests ==
    ASSUME TypeOK
    PROVE  OpenJobs \subseteq Requests
<1>1. WaitingJobs \subseteq Requests
  BY DEF TypeOK, WaitingJobs
<1>2. ActiveJobs \subseteq Requests
  BY DEF TypeOK, ActiveJobs, Active
<1>3. QED
  BY <1>1, <1>2 DEF TypeOK, OpenJobs

LEMMA StatusType ==
    ASSUME TypeOK, NEW r, NEW s \in Statuses
    PROVE  WithStatus(r, s) \in [Rows -> Source \cup {NoRow}]
<1>1. SUFFICES ASSUME NEW q \in Rows, q = r, sources[q] # NoRow
               PROVE  [sources[q] EXCEPT !.status = s] \in Source
  BY DEF TypeOK, WithStatus
<1>2. sources[q] \in Source
  BY <1>1 DEF TypeOK
<1>3. QED
  BY <1>2 DEF Source

\* A step that adds no job, and neither counts nor suspends a job, keeps Once.
LEMMA KeptOnce ==
    ASSUME Once, UNCHANGED <<queue, stalled, stalls>>,
           ActiveJobs' \subseteq ActiveJobs,
           \A j \in Requests : pc[j] = "done" => pc'[j] = "done"
    PROVE  Once'
<1>1. WaitingJobs' = WaitingJobs /\ OpenJobs' \subseteq OpenJobs
  BY DEF WaitingJobs, OpenJobs
<1>2. QED
  BY <1>1 DEF Once, Distinct

LEMMA InitTInv == Init => TInv
<1>1. SUFFICES ASSUME Init PROVE TInv
  OBVIOUS
<1>2. OpenJobs = {}
  BY <1>1 DEF Init, OpenJobs, WaitingJobs, ActiveJobs
<1>3. TypeOK
  BY <1>1, ConstantsAssumption DEF Init, TypeOK
<1>4. Shape
  BY <1>1, <1>2 DEF Init, Shape, Holding
<1>5. Once
  <2>1. Distinct(queue)
    BY <1>1 DEF Init, Distinct
  <2>2. QED
    BY <1>1, <1>2, <2>1, ConstantsAssumption DEF Init, Once, OpenJobs
<1>6. QED
  BY <1>3, <1>4, <1>5 DEF TInv

\* What the arrival of a request establishes.
LEMMA ArriveFacts ==
    ASSUME TypeOK, NEW i \in Requests, Arrive(i)
    PROVE  \E a \in Arg, where \in {"find", "lookup"} : Start(i, a, where)
<1>1. \A r \in Rows : Exists(r) => sources[r].key \in Keys
  BY DEF TypeOK, Source, Exists
<1>2. \A k \in Records : Creator[k] \in Users
  BY ConstantsAssumption
<1>3. Records \subseteq Keys /\ Customs \subseteq Keys
  BY DEF Keys
<1>4. CASE StartReindex(i)
  BY <1>3, <1>4 DEF StartReindex, Arg
<1>5. CASE StartIndexRecord(i)
  BY <1>2, <1>3, <1>5 DEF StartIndexRecord, Arg
<1>6. CASE StartIndexCustom(i)
  BY <1>3, <1>6 DEF StartIndexCustom, Arg
<1>7. CASE StartUpdateCustom(i)
  BY <1>1, <1>7 DEF StartUpdateCustom, Arg
<1>8. CASE StartRemoveSource(i)
  BY <1>1, <1>8 DEF StartRemoveSource, Arg
<1>9. CASE StartRemoveIndex(i)
  BY <1>3, <1>9 DEF StartRemoveIndex, Arg
<1>10. QED
  BY <1>4, <1>5, <1>6, <1>7, <1>8, <1>9 DEF Arrive

LEMMA ArriveTypes ==
    ASSUME TInv, NEW i \in Requests, Arrive(i)
    PROVE  TypeOK' /\ Shape'
<1>1. PICK a \in Arg, where \in {"find", "lookup"} : Start(i, a, where)
  BY ArriveFacts DEF TInv
<1>2. OpenJobs' = OpenJobs
  BY <1>1 DEF Start, queueVars, OpenJobs, WaitingJobs, ActiveJobs
<1>3. i \notin OpenJobs
  BY <1>1 DEF Start, TInv, Shape
<1>4. TypeOK'
  BY <1>1 DEF TInv, TypeOK, Start, InFlight, queueVars
<1>5. Shape'
  BY <1>1, <1>2, <1>3, OpenJobsAreRequests
  DEF TInv, TypeOK, Shape, Start, Holding, queueVars
<1>6. QED
  BY <1>4, <1>5

\* The steps of a request after its arrival leave the jobs alone, except that
\* Enqueue adds its own.
LEMMA RequestTypes ==
    ASSUME TInv, NEW i \in Requests, RequestStep(i) \/ StoreFault(i)
    PROVE  TypeOK' /\ Shape'
<1> USE DEF TInv, Advance
<1>a. pc[i] \in InFlight
  BY DEF RequestStep, InFlight, Find, Purge, Update, Insert, Enqueue, Lookup,
         Remove, StoreFault
<1>b. i \notin OpenJobs /\ arg[i] \in Arg
  BY <1>a DEF Shape, InFlight
<1>c. \A r \in Rows : Exists(r) => sources[r] \in Source
  BY DEF TypeOK, Exists
<1>1. CASE Find(i)
  <2>a. ASSUME NEW r \in Rows, Exists(r)
        PROVE  [id |-> r, user |-> sources[r].user] \in Entity
    BY <1>c, <2>a DEF Entity, Source
  <2>c. \A r \in RowsOf(arg[i].key) : r \in Rows /\ Exists(r)
    BY DEF RowsOf
  <2>b. seen' \in [Requests -> Entity \cup {NoRow}]
    <3>1. seen \in [Requests -> Entity \cup {NoRow}]
      BY DEF TypeOK
    <3>2. \/ UNCHANGED seen
          \/ \E r \in RowsOf(arg[i].key) :
                seen' = [seen EXCEPT ![i] = [id |-> r, user |-> sources[r].user]]
      BY <1>1 DEF Find
    <3>3. QED
      BY <2>a, <2>c, <3>1, <3>2
  <2>1. TypeOK'
    BY <1>1, <2>b DEF TypeOK, Find, InFlight, queueVars
  <2>2. OpenJobs' = OpenJobs
    BY <1>1 DEF Find, queueVars, OpenJobs, WaitingJobs, ActiveJobs
  <2>3. pc'[i] \in Holding => seen'[i] \in Entity
    BY <1>1, <1>c DEF TypeOK, Find, RowsOf, Entity, Source, Holding
  <2>4. Shape'
    BY <1>1, <1>b, <2>2, <2>3, OpenJobsAreRequests
    DEF TypeOK, Shape, Find, Holding
  <2>5. QED
    BY <2>1, <2>4
<1>2. CASE Purge(i)
  <2>1. TypeOK'
    BY <1>2 DEF TypeOK, Purge, InFlight, queueVars
  <2>2. OpenJobs' = OpenJobs
    BY <1>2 DEF Purge, queueVars, OpenJobs, WaitingJobs, ActiveJobs
  <2>3. Shape'
    BY <1>2, <1>b, <2>2, OpenJobsAreRequests DEF TypeOK, Shape, Purge, Holding
  <2>4. QED
    BY <2>1, <2>3
<1>3. CASE Update(i)
  <2>1. seen[i] \in Entity
    BY <1>3 DEF Shape, Update, Holding
  <2>a. /\ seen[i].id \in Rows /\ seen[i].user \in Users
        /\ arg[i].key \in Keys /\ arg[i].content \in Contents
    BY <1>b, <2>1 DEF Entity, Arg
  <2>b. ASSUME Exists(seen[i].id)
        PROVE  [sources[seen[i].id] EXCEPT !.hash = arg[i].content,
                                           !.status = "pending"] \in Source
    BY <1>c, <2>a, <2>b DEF Source, Statuses
  <2>c. [key |-> arg[i].key, user |-> seen[i].user,
         hash |-> arg[i].content, status |-> "pending"] \in Source
    BY <2>a DEF Source, Statuses
  <2>2. sources' \in [Rows -> Source \cup {NoRow}]
    <3>1. CASE Exists(seen[i].id)
      <4>1. sources' = [sources EXCEPT ![seen[i].id] =
                          [sources[seen[i].id] EXCEPT
                              !.hash = arg[i].content, !.status = "pending"]]
        BY <1>3, <3>1, <2>a DEF TypeOK, Update
      <4>2. QED
        BY <4>1, <3>1, <2>b DEF TypeOK
    <3>2. CASE ~ Exists(seen[i].id)
      BY <1>3, <3>2, <2>c DEF TypeOK, Update
    <3>3. QED
      BY <3>1, <3>2
  <2>3. TypeOK'
    BY <1>3, <2>2 DEF TypeOK, Update, InFlight, queueVars
  <2>4. OpenJobs' = OpenJobs
    BY <1>3 DEF Update, queueVars, OpenJobs, WaitingJobs, ActiveJobs
  <2>5. Shape'
    BY <1>3, <1>b, <2>1, <2>4, OpenJobsAreRequests
    DEF TypeOK, Shape, Update, Holding
  <2>6. QED
    BY <2>3, <2>5
<1>4. CASE Insert(i)
  <2>a. /\ arg[i].key \in Keys /\ arg[i].user \in Users
        /\ arg[i].content \in Contents
    BY <1>b DEF Arg
  <2>b. [key |-> arg[i].key, user |-> arg[i].user,
         hash |-> arg[i].content, status |-> "pending"] \in Source
    BY <2>a DEF Source, Statuses
  <2>c. \A r \in Rows : [id |-> r, user |-> arg[i].user] \in Entity
    BY <2>a DEF Entity
  <2>d. /\ sources' \in [Rows -> Source \cup {NoRow}]
        /\ seen' \in [Requests -> Entity \cup {NoRow}]
        /\ born' \subseteq Rows
    <3>1. CASE UNCHANGED <<sources, born, seen>>
      BY <3>1 DEF TypeOK
    <3>2. CASE RowsOf(arg[i].key) = {}
      <4>1. PICK r \in Rows :
              /\ born' = born \cup {r}
              /\ seen' = [seen EXCEPT ![i] =
                             [id |-> r, user |-> arg[i].user]]
              /\ sources' = [sources EXCEPT ![r] =
                   [key |-> arg[i].key, user |-> arg[i].user,
                    hash |-> arg[i].content, status |-> "pending"]]
        BY <1>4, <3>2 DEF Insert, FreshIds
      <4>2. sources' \in [Rows -> Source \cup {NoRow}]
        BY <4>1, <2>b DEF TypeOK
      <4>3. QED
        BY <4>1, <4>2, <2>c DEF TypeOK
    <3>3. QED
      BY <1>4, <3>1, <3>2 DEF Insert
  <2>1. TypeOK'
    BY <1>4, <2>d DEF TypeOK, Insert, InFlight, queueVars
  <2>2. OpenJobs' = OpenJobs
    BY <1>4 DEF Insert, queueVars, OpenJobs, WaitingJobs, ActiveJobs
  <2>3. pc'[i] \in Holding => seen'[i] \in Entity
    BY <1>4, <1>b DEF TypeOK, Insert, FreshIds, Entity, Arg, Holding
  <2>4. Shape'
    BY <1>4, <1>b, <2>2, <2>3, OpenJobsAreRequests
    DEF TypeOK, Shape, Insert, Holding
  <2>5. QED
    BY <2>1, <2>4
<1>5. CASE Enqueue(i)
  <2>1. queue' \in Seq(Requests) /\ WaitingJobs' = WaitingJobs \cup {i}
    BY <1>5, WaitingAppend DEF TypeOK, Enqueue
  <2>2. TypeOK'
    BY <1>5, <2>1 DEF TypeOK, Enqueue, InFlight
  <2>3. OpenJobs' = OpenJobs \cup {i}
    BY <1>5, <2>1 DEF Enqueue, OpenJobs, ActiveJobs
  <2>4. seen[i] \in Entity
    BY <1>5 DEF Shape, Enqueue, Holding
  <2>5. Shape'
    BY <1>5, <1>b, <2>3, <2>4, OpenJobsAreRequests
    DEF TypeOK, Shape, Enqueue, Holding
  <2>6. QED
    BY <2>2, <2>5
<1>6. CASE Lookup(i)
  <2>a. ASSUME NEW r \in Rows, Exists(r)
        PROVE  [id |-> r, user |-> sources[r].user] \in Entity
    BY <1>c, <2>a DEF Entity, Source
  <2>c. \A r \in RowsOf(arg[i].key) : r \in Rows /\ Exists(r)
    BY DEF RowsOf
  <2>b. seen' \in [Requests -> Entity \cup {NoRow}]
    <3>1. seen \in [Requests -> Entity \cup {NoRow}]
      BY DEF TypeOK
    <3>2. \/ UNCHANGED seen
          \/ \E r \in RowsOf(arg[i].key) :
                seen' = [seen EXCEPT ![i] = [id |-> r, user |-> sources[r].user]]
      BY <1>6 DEF Lookup
    <3>3. QED
      BY <2>a, <2>c, <3>1, <3>2
  <2>1. TypeOK'
    BY <1>6, <2>b DEF TypeOK, Lookup, InFlight, queueVars
  <2>2. OpenJobs' = OpenJobs
    BY <1>6 DEF Lookup, queueVars, OpenJobs, WaitingJobs, ActiveJobs
  <2>3. pc'[i] \in Holding => seen'[i] \in Entity
    BY <1>6, <1>c DEF TypeOK, Lookup, RowsOf, Entity, Source, Holding
  <2>4. Shape'
    BY <1>6, <1>b, <2>2, <2>3, OpenJobsAreRequests
    DEF TypeOK, Shape, Lookup, Holding
  <2>5. QED
    BY <2>1, <2>4
<1>7. CASE Remove(i)
  <2>1. TypeOK'
    BY <1>7 DEF TypeOK, Remove, InFlight, queueVars
  <2>2. OpenJobs' = OpenJobs
    BY <1>7 DEF Remove, queueVars, OpenJobs, WaitingJobs, ActiveJobs
  <2>3. Shape'
    BY <1>7, <1>b, <2>2, OpenJobsAreRequests DEF TypeOK, Shape, Remove, Holding
  <2>4. QED
    BY <2>1, <2>3
<1>8. CASE StoreFault(i)
  <2>1. TypeOK'
    BY <1>8 DEF TypeOK, StoreFault, InFlight, queueVars
  <2>2. OpenJobs' = OpenJobs
    BY <1>8 DEF StoreFault, queueVars, OpenJobs, WaitingJobs, ActiveJobs
  <2>3. Shape'
    BY <1>8, <1>a, <1>b, <2>2, OpenJobsAreRequests
    DEF TypeOK, Shape, StoreFault, Holding, InFlight
  <2>4. QED
    BY <2>1, <2>3
<1>9. QED
  BY <1>1, <1>2, <1>3, <1>4, <1>5, <1>6, <1>7, <1>8 DEF RequestStep

\* Whatever a worker, BullMQ or a crash does, no job becomes open.
LEMMA JobsTInv ==
    ASSUME TInv, OpenJobs' \subseteq OpenJobs,
           \A i \in Requests : pc'[i] = pc[i] \/ (pc'[i] = "done" /\ pc[i] # "new"),
           UNCHANGED <<arg, seen>>
    PROVE  Shape'
BY OpenJobsAreRequests DEF TInv, TypeOK, Shape, Holding

LEMMA WorkerTypes ==
    ASSUME TInv, NEW w \in Workers,
           WorkerStep(w) \/ EmbedFault(w) \/ WorkerStoreFault(w)
    PROVE  TypeOK' /\ Shape'
<1> USE DEF TInv
<1>a. ASSUME worker[w].pc \in {"embed", "complete", "fail"}
      PROVE  worker[w] \in Active /\ JobOf(w) \in OpenJobs
  BY <1>a DEF TypeOK, Idle, Active, JobOf, OpenJobs, ActiveJobs
<1>b. ASSUME worker[w] \in Active, NEW p \in {"embed", "complete", "fail"},
             Step(w, p), UNCHANGED <<queue, stalled>>
      PROVE  /\ worker' \in [Workers -> Active \cup {Idle}]
             /\ OpenJobs' \subseteq OpenJobs
  <2>1. [worker[w] EXCEPT !.pc = p] = [pc |-> p, job |-> worker[w].job]
    BY <1>b DEF Active
  <2>2. worker' = [worker EXCEPT ![w] = [pc |-> p, job |-> worker[w].job]]
    BY <1>b, <2>1 DEF Step, TypeOK
  <2>3. worker' \in [Workers -> Active \cup {Idle}]
    BY <1>b, <2>2 DEF TypeOK, Active
  <2>4. \A v \in Workers : worker'[v] # Idle =>
           worker[v] # Idle /\ worker'[v].job = worker[v].job
    BY <1>b, <2>2 DEF TypeOK, Active, Idle
  <2>5. QED
    BY <1>b, <2>3, <2>4 DEF OpenJobs, ActiveJobs, WaitingJobs
<1>c. ASSUME Release(w), UNCHANGED <<queue, stalled>>
      PROVE  /\ worker' \in [Workers -> Active \cup {Idle}]
             /\ OpenJobs' \subseteq OpenJobs
  BY <1>c DEF TypeOK, Release, OpenJobs, ActiveJobs, WaitingJobs
<1>1. CASE Take(w)
  <2>1. /\ queue' \in Seq(Requests) /\ Head(queue) \in Requests
        /\ WaitingJobs = WaitingJobs' \cup {Head(queue)}
    BY <1>1, WaitingTail DEF TypeOK, Take
  <2>2. sources' \in [Rows -> Source \cup {NoRow}]
    BY <1>1, StatusType DEF Take, Statuses
  <2>3. worker' \in [Workers -> Active \cup {Idle}]
    BY <1>1, <2>1 DEF TypeOK, Take, Active
  <2>4. \A v \in Workers : worker'[v] # Idle =>
           worker'[v].job = Head(queue)
              \/ (worker[v] # Idle /\ worker'[v].job = worker[v].job)
    BY <1>1 DEF TypeOK, Take
  <2>5. OpenJobs' \subseteq OpenJobs
    BY <1>1, <2>1, <2>4 DEF Take, OpenJobs, ActiveJobs
  <2>6. Shape'
    BY <1>1, <2>5, JobsTInv DEF Take, requestVars
  <2>7. TypeOK'
    BY <1>1, <2>1, <2>2, <2>3 DEF TypeOK, Take, requestVars
  <2>8. QED
    BY <2>6, <2>7
<1>2. CASE SaveChunks(w)
  <2>1. worker[w] \in Active /\ JobOf(w) \in OpenJobs
    BY <1>2, <1>a DEF SaveChunks
  <2>2. /\ worker' \in [Workers -> Active \cup {Idle}]
        /\ OpenJobs' \subseteq OpenJobs
    BY <1>2, <1>b, <2>1 DEF SaveChunks
  <2>3. /\ RowOf(JobOf(w)) \in Rows /\ JobOf(w) \in Requests
        /\ stalls[JobOf(w)] \in 0 .. MaxStalled
    <3>1. RowOf(JobOf(w)) \in Rows /\ JobOf(w) \in Requests
      BY <2>1, OpenJobsAreRequests DEF Shape, TypeOK, RowOf, Entity
    <3>2. stalls[JobOf(w)] \in 0 .. MaxStalled + 1
      BY <3>1 DEF TypeOK
    <3>3. ~ (stalls[JobOf(w)] > MaxStalled)
      BY <2>1, <3>1 DEF Once
    <3>4. QED
      BY <3>1, <3>2, <3>3, ConstantsAssumption
  <2>4. chunks' \subseteq Batch
    BY <1>2, <2>3 DEF TypeOK, SaveChunks, Batch
  <2>5. Shape'
    BY <1>2, <2>2, JobsTInv DEF SaveChunks, requestVars
  <2>6. TypeOK'
    BY <1>2, <2>2, <2>4 DEF TypeOK, SaveChunks, requestVars
  <2>7. QED
    BY <2>5, <2>6
<1>3. CASE Complete(w)
  <2>1. sources' \in [Rows -> Source \cup {NoRow}]
    BY <1>3, StatusType DEF Complete, Statuses
  <2>2. /\ worker' \in [Workers -> Active \cup {Idle}]
        /\ OpenJobs' \subseteq OpenJobs
    BY <1>3, <1>c DEF Complete
  <2>3. Shape'
    BY <1>3, <2>2, JobsTInv DEF Complete, requestVars
  <2>4. TypeOK'
    BY <1>3, <2>1, <2>2 DEF TypeOK, Complete, requestVars
  <2>5. QED
    BY <2>3, <2>4
<1>4. CASE Fail(w)
  <2>1. sources' \in [Rows -> Source \cup {NoRow}]
    BY <1>4, StatusType DEF Fail, Statuses
  <2>2. /\ worker' \in [Workers -> Active \cup {Idle}]
        /\ OpenJobs' \subseteq OpenJobs
    BY <1>4, <1>c DEF Fail
  <2>3. Shape'
    BY <1>4, <2>2, JobsTInv DEF Fail, requestVars
  <2>4. TypeOK'
    BY <1>4, <2>1, <2>2 DEF TypeOK, Fail, requestVars
  <2>5. QED
    BY <2>3, <2>4
<1>5. CASE EmbedFault(w)
  <2>1. /\ worker' \in [Workers -> Active \cup {Idle}]
        /\ OpenJobs' \subseteq OpenJobs
    BY <1>5, <1>a, <1>b DEF EmbedFault
  <2>2. Shape'
    BY <1>5, <2>1, JobsTInv DEF EmbedFault, requestVars
  <2>3. TypeOK'
    BY <1>5, <2>1 DEF TypeOK, EmbedFault, requestVars
  <2>4. QED
    BY <2>2, <2>3
<1>6. CASE WorkerStoreFault(w)
  <2>1. worker[w] \in Active
    BY <1>6 DEF WorkerStoreFault, TypeOK
  <2>2. /\ worker' \in [Workers -> Active \cup {Idle}]
        /\ OpenJobs' \subseteq OpenJobs
    BY <1>6, <1>b, <1>c, <2>1 DEF WorkerStoreFault
  <2>3. Shape'
    BY <1>6, <2>2, JobsTInv DEF WorkerStoreFault, requestVars
  <2>4. TypeOK'
    BY <1>6, <2>2 DEF TypeOK, WorkerStoreFault, requestVars
  <2>5. QED
    BY <2>3, <2>4
<1>7. QED
  BY <1>1, <1>2, <1>3, <1>4, <1>5, <1>6 DEF WorkerStep

LEMMA QueueTypes ==
    ASSUME TInv, NEW j \in Requests, QueueStep(j)
    PROVE  TypeOK' /\ Shape'
<1> USE DEF TInv
<1>1. CASE Redeliver(j)
  <2>1. queue' \in Seq(Requests) /\ WaitingJobs' = WaitingJobs \cup {j}
    BY <1>1, WaitingCons DEF TypeOK, Redeliver
  <2>2. OpenJobs' \subseteq OpenJobs
    BY <1>1, <2>1 DEF Redeliver, OpenJobs, ActiveJobs
  <2>3. Shape'
    BY <1>1, <2>2, JobsTInv DEF Redeliver, requestVars
  <2>4. stalls' \in [Requests -> 0 .. MaxStalled + 1]
    BY <1>1, ConstantsAssumption DEF TypeOK, Redeliver
  <2>5. TypeOK'
    BY <1>1, <2>1, <2>4 DEF TypeOK, Redeliver, requestVars
  <2>6. QED
    BY <2>3, <2>5
<1>2. CASE GiveUp(j)
  <2>1. OpenJobs' \subseteq OpenJobs
    BY <1>2 DEF GiveUp, OpenJobs, ActiveJobs, WaitingJobs
  <2>2. Shape'
    BY <1>2, <2>1, JobsTInv DEF GiveUp, requestVars
  <2>3. stalls' \in [Requests -> 0 .. MaxStalled + 1]
    BY <1>2, ConstantsAssumption DEF TypeOK, GiveUp
  <2>4. TypeOK'
    BY <1>2, <2>3 DEF TypeOK, GiveUp, requestVars
  <2>5. QED
    BY <2>2, <2>4
<1>3. QED
  BY <1>1, <1>2 DEF QueueStep

LEMMA CrashTypes ==
    ASSUME TInv, CrashFault
    PROVE  TypeOK' /\ Shape'
<1> USE DEF TInv
<1>1. ActiveJobs' = {} /\ WaitingJobs' = WaitingJobs
  BY DEF CrashFault, ActiveJobs, WaitingJobs
<1>2. OpenJobs' \subseteq OpenJobs
  BY <1>1 DEF CrashFault, OpenJobs
<1>3. \A i \in Requests : pc'[i] = pc[i] \/ (pc'[i] = "done" /\ pc[i] # "new")
  BY DEF CrashFault, InFlight, TypeOK
<1>4. Shape'
  BY <1>2, <1>3, JobsTInv DEF CrashFault
<1>5. stalled' \subseteq Requests
  BY OpenJobsAreRequests DEF CrashFault, TypeOK, OpenJobs
<1>6. crashes' \in 0 .. MaxCrashes
  BY ConstantsAssumption DEF CrashFault, TypeOK
<1>7. TypeOK'
  BY <1>5, <1>6 DEF TypeOK, CrashFault
<1>8. QED
  BY <1>4, <1>7

\* No step puts a job in a second place.
LEMMA StepOnce ==
    ASSUME TInv, Next
    PROVE  Once'
<1> USE DEF TInv
<1>a. ASSUME NEW i \in Requests, pc[i] # "done", NEW p,
             pc' = [pc EXCEPT ![i] = p]
      PROVE  \A j \in Requests : pc[j] = "done" => pc'[j] = "done"
  BY <1>a DEF TypeOK
<1>b. ASSUME UNCHANGED worker
      PROVE  ActiveJobs' = ActiveJobs
  BY <1>b DEF ActiveJobs
<1>1. ASSUME NEW i \in Requests, Arrive(i)
      PROVE  Once'
  <2>1. PICK a \in Arg, where \in {"find", "lookup"} : Start(i, a, where)
    BY <1>1, ArriveFacts
  <2>2. QED
    BY <2>1, <1>a, <1>b, KeptOnce DEF Start, queueVars
<1>2. ASSUME NEW i \in Requests, RequestStep(i) \/ StoreFault(i), ~ Enqueue(i)
      PROVE  Once'
  <2>1. /\ pc[i] # "done" /\ UNCHANGED queueVars
        /\ \E p \in {"done"} \cup InFlight : pc' = [pc EXCEPT ![i] = p]
    BY <1>2 DEF RequestStep, InFlight, Find, Purge, Update, Insert, Lookup,
       Remove, StoreFault, Advance
  <2>2. QED
    BY <2>1, <1>a, <1>b, KeptOnce DEF queueVars
<1>3. ASSUME NEW i \in Requests, Enqueue(i)
      PROVE  Once'
  <2>1. pc[i] = "enqueue" /\ i \notin OpenJobs
    BY <1>3 DEF Enqueue, Shape
  <2>2. WaitingJobs' = WaitingJobs \cup {i} /\ Distinct(queue')
    BY <1>3, <2>1, WaitingAppend DEF TypeOK, Enqueue, Once, OpenJobs
  <2>3. /\ ActiveJobs' = ActiveJobs
        /\ UNCHANGED <<stalled, stalls>>
        /\ \A j \in Requests : pc[j] = "done" => pc'[j] = "done"
    BY <1>3, <2>1, <1>a, <1>b DEF Enqueue, Advance
  <2>4. OpenJobs' = OpenJobs \cup {i}
    BY <2>2, <2>3 DEF OpenJobs
  <2>5. QED
    BY <2>1, <2>2, <2>3, <2>4 DEF Once, OpenJobs
<1>4. ASSUME NEW w \in Workers, Take(w)
      PROVE  Once'
  <2> DEFINE j == Head(queue)
  <2>1. /\ WaitingJobs = WaitingJobs' \cup {j}
        /\ Distinct(queue') /\ j \notin WaitingJobs'
    BY <1>4, WaitingTail DEF TypeOK, Take, Once
  <2>2. ActiveJobs' \subseteq ActiveJobs \cup {j}
    <3>1. worker' = [worker EXCEPT ![w] = [pc |-> "embed", job |-> j]]
      BY <1>4 DEF Take
    <3>2. QED
      BY <3>1 DEF TypeOK, ActiveJobs, Idle
  <2>3. UNCHANGED <<pc, stalled, stalls>>
    BY <1>4 DEF Take, requestVars
  <2>4. OpenJobs' \subseteq OpenJobs
    BY <2>1, <2>2, <2>3 DEF OpenJobs
  <2>5. QED
    BY <2>1, <2>2, <2>3, <2>4 DEF Once
<1>5. ASSUME NEW w \in Workers, WorkerStep(w) \/ EmbedFault(w) \/ WorkerStoreFault(w),
             ~ Take(w)
      PROVE  Once'
  <2>1. worker[w] # Idle /\ UNCHANGED <<pc, queue, stalled, stalls>>
    BY <1>5 DEF WorkerStep, SaveChunks, Complete, Fail, EmbedFault,
       WorkerStoreFault, Idle, requestVars
  <2>2. \/ worker' = [worker EXCEPT ![w] = Idle]
        \/ \E p \in {"complete", "fail"} : worker' = [worker EXCEPT ![w].pc = p]
    BY <1>5 DEF WorkerStep, SaveChunks, Complete, Fail, EmbedFault,
       WorkerStoreFault, Step, Release
  <2>3. ActiveJobs' \subseteq ActiveJobs
    <3>1. CASE worker' = [worker EXCEPT ![w] = Idle]
      BY <3>1 DEF TypeOK, ActiveJobs
    <3>2. ASSUME NEW p \in {"complete", "fail"},
                 worker' = [worker EXCEPT ![w].pc = p]
          PROVE  ActiveJobs' \subseteq ActiveJobs
      <4>1. worker[w] \in Active
        BY <2>1 DEF TypeOK
      <4>2. worker'[w].job = worker[w].job
        BY <3>2, <4>1 DEF TypeOK, Active
      <4>3. \A v \in Workers : v # w => worker'[v] = worker[v]
        BY <3>2 DEF TypeOK
      <4>4. QED
        BY <2>1, <4>2, <4>3 DEF ActiveJobs
    <3>3. QED
      BY <2>2, <3>1, <3>2
  <2>4. QED
    BY <2>1, <2>3, KeptOnce
<1>6. ASSUME NEW j \in Requests, Redeliver(j)
      PROVE  Once'
  <2>1. j \in stalled /\ j \notin WaitingJobs /\ j \notin ActiveJobs
    BY <1>6 DEF Redeliver, Once
  <2>2. WaitingJobs' = WaitingJobs \cup {j} /\ Distinct(queue')
    BY <1>6, <2>1, WaitingCons DEF TypeOK, Redeliver, Once
  <2>3. /\ ActiveJobs' = ActiveJobs /\ stalled' = stalled \ {j}
        /\ UNCHANGED pc
    BY <1>6, <1>b DEF Redeliver, requestVars
  <2>4. OpenJobs' = OpenJobs
    BY <2>1, <2>2, <2>3 DEF OpenJobs
  <2>5. \A k \in Requests : stalls'[k] > MaxStalled => stalls[k] > MaxStalled
    <3>1. ASSUME NEW k \in Requests, k # j
          PROVE  stalls'[k] = stalls[k]
      BY <1>6, <3>1 DEF Redeliver, TypeOK
    <3>2. stalls'[j] = stalls[j] + 1 /\ stalls[j] < MaxStalled
      BY <1>6 DEF Redeliver, TypeOK
    <3>3. stalls[j] \in Nat
      BY DEF TypeOK
    <3>4. ~ (stalls'[j] > MaxStalled)
      BY <3>2, <3>3, ConstantsAssumption
    <3>5. QED
      BY <3>1, <3>4
  <2>6. QED
    BY <2>1, <2>2, <2>3, <2>4, <2>5 DEF Once
<1>7. ASSUME NEW j \in Requests, GiveUp(j)
      PROVE  Once'
  <2>1. j \in stalled /\ j \notin WaitingJobs /\ j \notin ActiveJobs
    BY <1>7 DEF GiveUp, Once
  <2>2. /\ ActiveJobs' = ActiveJobs /\ WaitingJobs' = WaitingJobs
        /\ stalled' = stalled \ {j} /\ UNCHANGED <<queue, pc>>
    BY <1>7, <1>b DEF GiveUp, requestVars, WaitingJobs
  <2>3. OpenJobs' = OpenJobs \ {j}
    BY <2>1, <2>2 DEF OpenJobs
  <2>4. pc[j] = "done"
    BY <2>1 DEF Shape, OpenJobs
  <2>5. \A k \in Requests : k # j => stalls'[k] = stalls[k]
    BY <1>7 DEF GiveUp, TypeOK
  <2>6. QED
    BY <2>1, <2>2, <2>3, <2>4, <2>5 DEF Once, Distinct
<1>8. ASSUME CrashFault
      PROVE  Once'
  <2>1. /\ ActiveJobs' = {} /\ WaitingJobs' = WaitingJobs
        /\ stalled' = stalled \cup ActiveJobs
        /\ UNCHANGED <<queue, stalls>>
    BY <1>8 DEF CrashFault, ActiveJobs, WaitingJobs
  <2>2. \A j \in Requests : pc[j] = "done" => pc'[j] = "done"
    BY <1>8 DEF CrashFault, InFlight
  <2>3. OpenJobs' = OpenJobs
    BY <2>1 DEF OpenJobs
  <2>4. QED
    BY <2>1, <2>2, <2>3 DEF Once, Distinct
<1>9. QED
  BY <1>1, <1>2, <1>3, <1>4, <1>5, <1>6, <1>7, <1>8
  DEF Next, Fault, QueueStep, RequestStep, WorkerStep

LEMMA ArriveTInv ==
    ASSUME TInv, NEW i \in Requests, Arrive(i)
    PROVE  TInv'
BY ArriveTypes, StepOnce DEF TInv, Next, Fault

LEMMA RequestTInv ==
    ASSUME TInv, NEW i \in Requests, RequestStep(i) \/ StoreFault(i)
    PROVE  TInv'
BY RequestTypes, StepOnce DEF TInv, Next, Fault

LEMMA WorkerTInv ==
    ASSUME TInv, NEW w \in Workers,
           WorkerStep(w) \/ EmbedFault(w) \/ WorkerStoreFault(w)
    PROVE  TInv'
BY WorkerTypes, StepOnce DEF TInv, Next, Fault

LEMMA QueueTInv ==
    ASSUME TInv, NEW j \in Requests, QueueStep(j)
    PROVE  TInv'
BY QueueTypes, StepOnce DEF TInv, Next, Fault

LEMMA CrashTInv ==
    ASSUME TInv, CrashFault
    PROVE  TInv'
BY CrashTypes, StepOnce DEF TInv, Next, Fault

LEMMA NextTInv == TInv /\ [Next]_vars => TInv'
<1>1. ASSUME TInv, Next
      PROVE  TInv'
  BY <1>1, ArriveTInv, RequestTInv, WorkerTInv, QueueTInv, CrashTInv
  DEF Next, Fault
<1>2. ASSUME TInv, UNCHANGED vars
      PROVE  TInv'
  <2>1. TypeOK'
    BY <1>2 DEF TInv, TypeOK, vars
  <2>2. OpenJobs' = OpenJobs /\ ActiveJobs' = ActiveJobs
    BY <1>2 DEF vars, OpenJobs, WaitingJobs, ActiveJobs
  <2>3. Shape'
    BY <1>2, <2>2 DEF TInv, Shape, vars
  <2>4. Once'
    BY <1>2, <2>2, KeptOnce DEF TInv, vars
  <2>5. QED
    BY <2>1, <2>3, <2>4 DEF TInv
<1>3. QED
  BY <1>1, <1>2

\* The tables, the requests and the queue keep their types; with Shape, no step
\* ever reads an argument or an entity that a request does not hold.
THEOREM TypeCorrect == Spec => []TypeOK
<1>1. TInv => TypeOK
  BY DEF TInv
<1>2. QED
  BY InitTInv, NextTInv, <1>1, PTL DEF Spec

THEOREM ShapeCorrect == Spec => []TInv
BY InitTInv, NextTInv, PTL DEF Spec

-----------------------------------------------------------------------------
(***************************************************************************)
(* Integrity of the index.  IndexIntegrity is not inductive: a save that   *)
(* brings a removed source back must give it the key that the jobs waiting *)
(* for the old id have in mind.  Binding says why it does: all requests    *)
(* that ever held an id agree on its key and user, and so does the row.    *)
(***************************************************************************)
Unread == {"new", "find", "lookup", "insert"}

Holds(i) == seen[i] # NoRow

Binding ==
    /\ \A r \in Rows : Exists(r) => r \in born
    /\ \A i \in Requests : pc[i] \in Unread => ~ Holds(i)
    /\ \A i \in Requests : Holds(i) => seen[i].id \in born
    /\ \A i \in Requests :
          Holds(i) /\ Exists(seen[i].id) =>
              /\ sources[seen[i].id].key = arg[i].key
              /\ sources[seen[i].id].user = seen[i].user
    /\ \A i, j \in Requests :
          Holds(i) /\ Holds(j) /\ seen[i].id = seen[j].id =>
              arg[i].key = arg[j].key /\ seen[i].user = seen[j].user

OneRowPerKey ==
    \A r, s \in Rows :
        Exists(r) /\ Exists(s) /\ sources[r].key = sources[s].key => r = s

ChunkOwned ==
    \A c \in chunks : /\ Exists(c.row)
                      /\ Holds(c.job)
                      /\ c.row = seen[c.job].id

IInv == TInv /\ Binding /\ OneRowPerKey /\ ChunkOwned

\* The step keeps every row, its key and its user.
RowsKept ==
    /\ \A r \in Rows : Exists(r)' <=> Exists(r)
    /\ \A r \in Rows : Exists(r) => /\ sources'[r].key = sources[r].key
                                    /\ sources'[r].user = sources[r].user

LEMMA BatchType ==
    ASSUME TypeOK, NEW c \in chunks
    PROVE  c.row \in Rows /\ c.job \in Requests
BY DEF TypeOK, Batch

LEMMA HoldsEntity ==
    ASSUME TypeOK, NEW i \in Requests, Holds(i)
    PROVE  seen[i] \in Entity /\ seen[i].id \in Rows /\ seen[i].user \in Users
BY DEF TypeOK, Holds, Entity

LEMMA StatusKept ==
    ASSUME TypeOK, NEW r, NEW s \in Statuses, sources' = WithStatus(r, s)
    PROVE  RowsKept
<1>1. SUFFICES ASSUME NEW q \in Rows
               PROVE  /\ Exists(q)' <=> Exists(q)
                      /\ Exists(q) => /\ sources'[q].key = sources[q].key
                                      /\ sources'[q].user = sources[q].user
  BY DEF RowsKept
<1>2. CASE q # r \/ ~ Exists(q)
  BY <1>2 DEF TypeOK, WithStatus, Exists
<1>3. CASE q = r /\ Exists(q)
  <2>1. sources[q] \in Source
    BY <1>3 DEF TypeOK, Exists
  <2>2. sources'[q] = [sources[q] EXCEPT !.status = s]
    BY <1>3 DEF TypeOK, WithStatus, Exists
  <2>3. /\ sources'[q] \in Source
        /\ sources'[q].key = sources[q].key
        /\ sources'[q].user = sources[q].user
    BY <2>1, <2>2 DEF Source
  <2>4. QED
    BY <1>3, <2>3, EntityNotNoRow DEF Exists
<1>4. QED
  BY <1>2, <1>3

\* A step that keeps the rows and what requests hold, and adds no chunk.
LEMMA KeptIInv ==
    ASSUME IInv, TInv', RowsKept, UNCHANGED <<born, arg, seen>>,
           chunks' \subseteq chunks,
           \A i \in Requests : pc'[i] \in Unread => pc[i] \in Unread
    PROVE  IInv'
<1> USE DEF IInv
<1>1. Binding'
  BY HoldsEntity DEF Binding, RowsKept, Holds, TInv
<1>2. OneRowPerKey'
  BY DEF OneRowPerKey, RowsKept
<1>3. ChunkOwned'
  BY BatchType DEF ChunkOwned, RowsKept, Holds, TInv
<1>4. QED
  BY <1>1, <1>2, <1>3

LEMMA InitIInv == Init => IInv
BY InitTInv DEF Init, IInv, Binding, OneRowPerKey, ChunkOwned, Exists, Holds

LEMMA ArriveIInv ==
    ASSUME IInv, NEW i \in Requests, Arrive(i)
    PROVE  IInv'
<1> USE DEF IInv
<1>1. PICK a \in Arg, where \in {"find", "lookup"} : Start(i, a, where)
  BY ArriveFacts DEF TInv
<1>2. ~ Holds(i)
  BY <1>1 DEF Start, Binding, Unread
<1>3. /\ \A j \in Requests : j # i => arg'[j] = arg[j] /\ pc'[j] = pc[j]
      /\ pc'[i] \in Unread
      /\ UNCHANGED <<sources, chunks, born, seen>>
  BY <1>1 DEF Start, TInv, TypeOK, Unread
<1>4. Binding'
  BY <1>2, <1>3 DEF Binding, Holds, Exists
<1>5. OneRowPerKey' /\ ChunkOwned'
  BY <1>3 DEF OneRowPerKey, ChunkOwned, Holds, Exists
<1>6. QED
  BY <1>4, <1>5, ArriveTInv

\* A request that reads row r of its key.
LEMMA ReadIInv ==
    ASSUME IInv, TInv', NEW i \in Requests, NEW r \in RowsOf(arg[i].key),
           pc[i] \in Unread,
           \A j \in Requests : j # i => pc'[j] = pc[j],
           pc'[i] \notin Unread,
           seen' = [seen EXCEPT ![i] = [id |-> r, user |-> sources[r].user]],
           UNCHANGED <<sources, chunks, born, arg>>
    PROVE  IInv'
<1> USE DEF IInv
<1>1. /\ r \in Rows /\ Exists(r) /\ r \in born
      /\ sources[r].key = arg[i].key
  BY DEF RowsOf, Binding
<1>2. /\ seen'[i].id = r /\ seen'[i].user = sources[r].user
      /\ \A j \in Requests : j # i => seen'[j] = seen[j]
  BY DEF TInv, TypeOK
<1>3. ~ Holds(i)
  BY DEF Binding
<1>4. \A j \in Requests :
         j # i /\ Holds(j) /\ seen[j].id = r =>
             arg[j].key = arg[i].key /\ seen[j].user = sources[r].user
  BY <1>1 DEF Binding
<1>5. Binding'
  BY <1>1, <1>2, <1>3, <1>4 DEF Binding, Holds, Exists
<1>6. OneRowPerKey' /\ ChunkOwned'
  BY <1>2, <1>3, BatchType DEF OneRowPerKey, ChunkOwned, Holds, Exists, TInv
<1>7. QED
  BY <1>5, <1>6

LEMMA RequestIInv ==
    ASSUME IInv, NEW i \in Requests, RequestStep(i) \/ StoreFault(i)
    PROVE  IInv'
<1> USE DEF IInv, Advance
<1>a. TInv'
  BY RequestTInv
<1>b. ASSUME UNCHANGED sources
      PROVE  RowsKept
  BY <1>b DEF RowsKept, Exists
<1>1. CASE Find(i)
  <2>1. CASE RowsOf(arg[i].key) = {}
    BY <1>1, <2>1, <1>a, <1>b, KeptIInv DEF Find, TInv, TypeOK, Unread
  <2>2. CASE RowsOf(arg[i].key) # {}
    <3>1. PICK r \in RowsOf(arg[i].key) :
              /\ seen' = [seen EXCEPT ![i] =
                              [id |-> r, user |-> sources[r].user]]
              /\ Advance(i, "done") \/ Advance(i, "purge")
      BY <1>1, <2>2 DEF Find
    <3>2. QED
      BY <1>1, <3>1, <1>a, ReadIInv DEF Find, TInv, TypeOK, Unread
  <2>3. QED
    BY <2>1, <2>2
<1>2. CASE Purge(i)
  BY <1>2, <1>a, <1>b, KeptIInv DEF Purge, TInv, TypeOK, Unread
<1>3. CASE Update(i)
  <2>1. /\ Holds(i) /\ seen[i] \in Entity
        /\ seen[i].id \in Rows /\ seen[i].id \in born
    BY <1>3, EntityNotNoRow
    DEF TInv, Shape, Holding, Update, Holds, Entity, Binding
  <2>2. CASE Exists(seen[i].id)
    <3>1. sources[seen[i].id] \in Source
      BY <2>1, <2>2 DEF TInv, TypeOK, Exists
    <3>2. /\ sources'[seen[i].id] # NoRow
          /\ sources'[seen[i].id].key = sources[seen[i].id].key
          /\ sources'[seen[i].id].user = sources[seen[i].id].user
      <4> DEFINE new == [sources[seen[i].id] EXCEPT
                            !.hash = arg[i].content, !.status = "pending"]
      <4>1. sources'[seen[i].id] = new
        BY <1>3, <2>1, <2>2 DEF Update, TInv, TypeOK
      <4>2. new \in Source /\ new.key = sources[seen[i].id].key
               /\ new.user = sources[seen[i].id].user
        <5>1. arg[i] \in Arg
          BY <1>3 DEF TInv, Shape, Update
        <5>2. QED
          BY <3>1, <5>1 DEF Source, Arg, Statuses
      <4>3. QED
        BY <4>1, <4>2, EntityNotNoRow
    <3>3. \A q \in Rows : q # seen[i].id => sources'[q] = sources[q]
      BY <1>3, <2>1, <2>2 DEF Update, TInv, TypeOK
    <3>4. RowsKept
      BY <2>2, <3>2, <3>3 DEF RowsKept, Exists
    <3>5. QED
      BY <1>3, <2>2, <3>4, <1>a, KeptIInv DEF Update, TInv, TypeOK, Unread
  <2>3. CASE ~ Exists(seen[i].id) /\ RowsOf(arg[i].key) # {}
    BY <1>3, <2>3, <1>a, <1>b, KeptIInv DEF Update, TInv, TypeOK, Unread
  <2>4. CASE ~ Exists(seen[i].id) /\ RowsOf(arg[i].key) = {}
    <3> DEFINE r == seen[i].id
    <3>1. /\ sources'[r] = [key |-> arg[i].key, user |-> seen[i].user,
                            hash |-> arg[i].content, status |-> "pending"]
          /\ \A q \in Rows : q # r => sources'[q] = sources[q]
          /\ UNCHANGED <<chunks, born, seen, arg>>
      BY <1>3, <2>1, <2>4 DEF Update, TInv, TypeOK
    <3>2. sources'[r].key = arg[i].key /\ sources'[r].user = seen[i].user
      BY <3>1
    <3>3. \A j \in Requests : pc'[j] \in Unread => pc[j] \in Unread
      BY <1>3, <2>4 DEF Update, TInv, TypeOK, Unread
    <3>4. Binding'
      <4>1. (\A q \in Rows : Exists(q) => q \in born)'
        BY <2>1, <3>1 DEF Binding, Exists
      <4>2. \A j \in Requests :
               Holds(j)' /\ Exists(seen[j].id)' =>
                   /\ sources'[seen'[j].id].key = arg'[j].key
                   /\ sources'[seen'[j].id].user = seen'[j].user
        <5>1. SUFFICES ASSUME NEW j \in Requests, Holds(j),
                              Exists(seen[j].id)'
                       PROVE  /\ sources'[seen[j].id].key = arg[j].key
                              /\ sources'[seen[j].id].user = seen[j].user
          BY <3>1 DEF Holds
        <5>2. CASE seen[j].id = r
          BY <5>1, <5>2, <2>1, <3>2 DEF Binding
        <5>3. CASE seen[j].id # r
          BY <5>1, <5>3, <3>1, HoldsEntity DEF Binding, TInv, Exists
        <5>4. QED
          BY <5>2, <5>3
      <4>3. QED
        BY <3>1, <3>3, <4>1, <4>2 DEF Binding, Holds
    <3>5. OneRowPerKey'
      BY <2>4, <3>1, <3>2 DEF OneRowPerKey, RowsOf, Exists
    <3>6. ChunkOwned'
      BY <2>4, <3>1, BatchType DEF ChunkOwned, Holds, Exists, TInv
    <3>7. QED
      BY <1>a, <3>4, <3>5, <3>6
  <2>5. QED
    BY <2>2, <2>3, <2>4
<1>4. CASE Insert(i)
  <2>1. CASE RowsOf(arg[i].key) # {}
    BY <1>4, <2>1, <1>a, <1>b, KeptIInv DEF Insert, TInv, TypeOK, Unread
  <2>2. CASE RowsOf(arg[i].key) = {}
    <3>1. PICK r \in FreshIds :
              /\ born' = born \cup {r}
              /\ seen' = [seen EXCEPT ![i] =
                             [id |-> r, user |-> arg[i].user]]
              /\ sources' = [sources EXCEPT ![r] =
                   [key |-> arg[i].key, user |-> arg[i].user,
                    hash |-> arg[i].content, status |-> "pending"]]
      BY <1>4, <2>2 DEF Insert
    <3>2. r \in Rows /\ r \notin born
      BY <3>1 DEF FreshIds
    <3>3. /\ sources'[r] = [key |-> arg[i].key, user |-> arg[i].user,
                            hash |-> arg[i].content, status |-> "pending"]
          /\ \A q \in Rows : q # r => sources'[q] = sources[q]
          /\ seen'[i].id = r /\ seen'[i].user = arg[i].user
          /\ \A j \in Requests : j # i => seen'[j] = seen[j]
          /\ UNCHANGED <<chunks, arg>>
      BY <1>4, <2>2, <3>1, <3>2 DEF Insert, TInv, TypeOK
    <3>4. sources'[r].key = arg[i].key /\ sources'[r].user = arg[i].user
      BY <3>3
    <3>5. ~ Holds(i)
      BY <1>4 DEF Insert, Binding, Unread
    <3>6. \A j \in Requests : pc'[j] \in Unread => pc[j] \in Unread /\ j # i
      BY <1>4, <2>2 DEF Insert, TInv, TypeOK, Unread
    <3>7. \A j \in Requests : j # i /\ Holds(j) => seen[j].id # r
      BY <3>2 DEF Binding
    <3>8. Binding'
      <4>1. (\A q \in Rows : Exists(q) => q \in born)'
        BY <3>1, <3>3 DEF Binding, Exists
      <4>2. \A j \in Requests :
               /\ pc'[j] \in Unread => ~ Holds(j)'
               /\ Holds(j)' => seen'[j].id \in born'
        BY <3>1, <3>3, <3>6 DEF Binding, Holds
      <4>3. \A j \in Requests :
               Holds(j)' /\ Exists(seen[j].id)' =>
                   /\ sources'[seen'[j].id].key = arg'[j].key
                   /\ sources'[seen'[j].id].user = seen'[j].user
        <5>1. SUFFICES ASSUME NEW j \in Requests, j # i, Holds(j),
                              Exists(seen[j].id)'
                       PROVE  /\ sources'[seen[j].id].key = arg[j].key
                              /\ sources'[seen[j].id].user = seen[j].user
          BY <3>3, <3>4 DEF Holds, Exists
        <5>2. QED
          BY <5>1, <3>3, <3>7, HoldsEntity DEF Binding, TInv, Exists
      <4>4. \A j, k \in Requests :
               Holds(j)' /\ Holds(k)' /\ seen'[j].id = seen'[k].id =>
                   arg'[j].key = arg'[k].key /\ seen'[j].user = seen'[k].user
        BY <3>3, <3>7 DEF Binding, Holds
      <4>5. QED
        BY <4>1, <4>2, <4>3, <4>4 DEF Binding
    <3>9. OneRowPerKey'
      BY <2>2, <3>3, <3>4 DEF OneRowPerKey, RowsOf, Exists
    <3>10. ChunkOwned'
      BY <3>2, <3>3, <3>5, BatchType
      DEF ChunkOwned, Binding, Holds, Exists, TInv
    <3>11. QED
      BY <1>a, <3>8, <3>9, <3>10
  <2>3. QED
    BY <2>1, <2>2
<1>5. CASE Enqueue(i)
  BY <1>5, <1>a, <1>b, KeptIInv DEF Enqueue, TInv, TypeOK, Unread
<1>6. CASE Lookup(i)
  <2>1. CASE RowsOf(arg[i].key) = {}
    BY <1>6, <2>1, <1>a, <1>b, KeptIInv DEF Lookup, TInv, TypeOK, Unread
  <2>2. CASE RowsOf(arg[i].key) # {}
    <3>1. PICK r \in RowsOf(arg[i].key) :
              /\ seen' = [seen EXCEPT ![i] =
                              [id |-> r, user |-> sources[r].user]]
              /\ Advance(i, "remove")
      BY <1>6, <2>2 DEF Lookup
    <3>2. QED
      BY <1>6, <3>1, <1>a, ReadIInv DEF Lookup, TInv, TypeOK, Unread
  <2>3. QED
    BY <2>1, <2>2
<1>7. CASE Remove(i)
  <2>1. seen[i].id \in Rows
    BY <1>7 DEF TInv, Shape, Holding, Remove, Entity
  <2>2. /\ ~ Exists(seen[i].id)'
        /\ \A q \in Rows : q # seen[i].id => sources'[q] = sources[q]
        /\ \A c \in chunks' : c \in chunks /\ c.row # seen[i].id
        /\ UNCHANGED <<born, arg, seen>>
        /\ \A j \in Requests : pc'[j] \in Unread => pc[j] \in Unread
    BY <1>7, <2>1 DEF Remove, TInv, TypeOK, Exists, ChunksOf, Unread
  <2>3. Binding'
    BY <2>2, HoldsEntity DEF Binding, Holds, Exists, TInv
  <2>4. OneRowPerKey'
    BY <2>2 DEF OneRowPerKey, Exists
  <2>5. ChunkOwned'
    BY <2>2, BatchType DEF ChunkOwned, Holds, Exists, TInv
  <2>6. QED
    BY <1>a, <2>3, <2>4, <2>5
<1>8. CASE StoreFault(i)
  BY <1>8, <1>a, <1>b, KeptIInv DEF StoreFault, TInv, TypeOK, Unread
<1>9. QED
  BY <1>1, <1>2, <1>3, <1>4, <1>5, <1>6, <1>7, <1>8 DEF RequestStep

LEMMA WorkerIInv ==
    ASSUME IInv, NEW w \in Workers,
           WorkerStep(w) \/ EmbedFault(w) \/ WorkerStoreFault(w)
    PROVE  IInv'
<1> USE DEF IInv
<1>a. TInv'
  BY WorkerTInv
<1>b. ASSUME UNCHANGED sources
      PROVE  RowsKept
  BY <1>b DEF RowsKept, Exists
<1>1. CASE Take(w)
  <2>1. RowsKept
    BY <1>1, StatusKept DEF Take, Statuses, TInv
  <2>2. QED
    BY <1>1, <2>1, <1>a, KeptIInv DEF Take, requestVars
<1>2. CASE SaveChunks(w)
  <2> DEFINE j == JobOf(w)
  <2>1. CASE ~ Exists(RowOf(j))
    BY <1>2, <2>1, <1>a, <1>b, KeptIInv DEF SaveChunks, requestVars
  <2>2. CASE Exists(RowOf(j))
    <3>1. worker[w] \in Active
      BY <1>2 DEF SaveChunks, TInv, TypeOK, Idle, Active
    <3>2. j \in OpenJobs
      BY <3>1 DEF OpenJobs, ActiveJobs, JobOf, Idle, Active
    <3>3. Holds(j) /\ j \in Requests
      BY <3>2, OpenJobsAreRequests, EntityNotNoRow DEF TInv, Shape, Holds
    <3>4. /\ chunks' = chunks \cup
                {[row |-> RowOf(j), job |-> j, run |-> stalls[j]]}
          /\ UNCHANGED <<sources, born, pc, arg, seen>>
      BY <1>2, <2>2 DEF SaveChunks, requestVars
    <3>5. ChunkOwned'
      BY <2>2, <3>3, <3>4 DEF ChunkOwned, RowOf, Holds, Exists
    <3>6. Binding' /\ OneRowPerKey'
      BY <3>4 DEF Binding, OneRowPerKey, Holds, Exists
    <3>7. QED
      BY <1>a, <3>5, <3>6
  <2>3. QED
    BY <2>1, <2>2
<1>3. CASE Complete(w)
  <2>1. RowsKept
    BY <1>3, StatusKept DEF Complete, Statuses, TInv
  <2>2. QED
    BY <1>3, <2>1, <1>a, KeptIInv DEF Complete, requestVars
<1>4. CASE Fail(w)
  <2>1. RowsKept
    BY <1>4, StatusKept DEF Fail, Statuses, TInv
  <2>2. QED
    BY <1>4, <2>1, <1>a, KeptIInv DEF Fail, requestVars
<1>5. CASE EmbedFault(w)
  BY <1>5, <1>a, <1>b, KeptIInv DEF EmbedFault, requestVars
<1>6. CASE WorkerStoreFault(w)
  BY <1>6, <1>a, <1>b, KeptIInv DEF WorkerStoreFault, requestVars
<1>7. QED
  BY <1>1, <1>2, <1>3, <1>4, <1>5, <1>6 DEF WorkerStep

LEMMA NextIInv == IInv /\ [Next]_vars => IInv'
<1>a. ASSUME UNCHANGED sources
      PROVE  RowsKept
  BY <1>a DEF RowsKept, Exists
<1>1. ASSUME IInv, NEW j \in Requests, QueueStep(j)
      PROVE  IInv'
  BY <1>1, <1>a, QueueTInv, KeptIInv
  DEF IInv, QueueStep, Redeliver, GiveUp, requestVars
<1>2. ASSUME IInv, CrashFault
      PROVE  IInv'
  BY <1>2, <1>a, CrashTInv, KeptIInv
  DEF IInv, CrashFault, TInv, TypeOK, Unread
<1>3. ASSUME IInv, UNCHANGED vars
      PROVE  IInv'
  <2>1. TInv'
    BY <1>3, NextTInv DEF IInv
  <2>2. QED
    BY <1>3, <2>1, <1>a, KeptIInv DEF vars
<1>4. QED
  BY <1>1, <1>2, <1>3, ArriveIInv, RequestIInv, WorkerIInv DEF Next, Fault

\* However requests, workers, store faults and crashes interleave, every batch of
\* chunks hangs on an existing source of the record it was computed for, and a
\* record has at most one source.
THEOREM Integrity == Spec => []IndexIntegrity
<1>1. IInv => IndexIntegrity
  BY BatchType
  DEF IInv, TInv, Binding, OneRowPerKey, ChunkOwned, IndexIntegrity
<1>2. QED
  BY InitIInv, NextIInv, <1>1, PTL DEF Spec

THEOREM IndexInvariant == Spec => []IInv
BY InitIInv, NextIInv, PTL DEF Spec

-----------------------------------------------------------------------------
(***************************************************************************)
(* Isolation of custom sources.  The controller checks the owner on a row  *)
(* that may be gone when indexRecord runs; what makes it safe is that all  *)
(* requests that ever arrived for one custom key are of one user.          *)
(***************************************************************************)
OneUserPerCustom ==
    /\ \A i, j \in Requests :
          /\ pc[i] # "new" /\ pc[j] # "new"
          /\ arg[i].key = arg[j].key /\ arg[i].key \in Customs
          => arg[i].user = arg[j].user
    /\ \A i \in Requests :
          Holds(i) /\ arg[i].key \in Customs => seen[i].user = arg[i].user
    /\ \A r \in Rows :
          Exists(r) /\ sources[r].key \in Customs =>
              \E i \in Requests : /\ pc[i] # "new"
                                  /\ arg[i].key = sources[r].key
                                  /\ arg[i].user = sources[r].user

CInv == IInv /\ OneUserPerCustom

LEMMA InitCInv == Init => CInv
BY InitIInv DEF Init, CInv, OneUserPerCustom, Exists, Holds

\* A step that keeps the arguments and adds no row.
LEMMA KeptCInv ==
    ASSUME CInv, IInv',
           \A r \in Rows :
               Exists(r)' => /\ Exists(r)
                             /\ sources'[r].key = sources[r].key
                             /\ sources'[r].user = sources[r].user,
           \A i \in Requests : pc'[i] = "new" <=> pc[i] = "new",
           UNCHANGED <<arg, seen>>
    PROVE  CInv'
<1>1. OneUserPerCustom'
  <2>1. \A r \in Rows :
           Exists(r)' /\ sources'[r].key \in Customs =>
               \E i \in Requests : /\ pc'[i] # "new"
                                   /\ arg[i].key = sources'[r].key
                                   /\ arg[i].user = sources'[r].user
    BY DEF CInv, OneUserPerCustom
  <2>2. QED
    BY <2>1 DEF CInv, OneUserPerCustom, Holds
<1>2. QED
  BY <1>1 DEF CInv

LEMMA ArriveCInv ==
    ASSUME CInv, NEW i \in Requests, Arrive(i)
    PROVE  CInv'
<1> USE DEF CInv
<1>1. IInv'
  BY ArriveIInv
<1>2. PICK a \in Arg, where \in {"find", "lookup"} :
          /\ Start(i, a, where)
          /\ a.key \in Customs =>
                \A j \in Requests :
                    pc[j] # "new" /\ arg[j].key = a.key => arg[j].user = a.user
  <2>a. Records \cap Customs = {}
    BY ConstantsAssumption
  <2>b. ASSUME NEW r \in Rows, Exists(r), NEW j \in Requests,
               sources[r].key \in Customs,
               pc[j] # "new", arg[j].key = sources[r].key
        PROVE  arg[j].user = sources[r].user
    BY <2>b DEF OneUserPerCustom
  <2>c. \A r \in Rows : Exists(r) => sources[r].key \in Keys
    BY DEF IInv, TInv, TypeOK, Source, Exists
  <2>d. \A k \in Records : Creator[k] \in Users
    BY ConstantsAssumption
  <2>e. Records \subseteq Keys /\ Customs \subseteq Keys
    BY DEF Keys
  <2>1. CASE StartReindex(i) \/ StartIndexRecord(i) \/ StartRemoveIndex(i)
    <3>1. PICK k \in Records, u \in Users, c \in Contents,
               where \in {"find", "lookup"} :
              Start(i, [user |-> u, key |-> k, content |-> c], where)
      BY <2>1, <2>d DEF StartReindex, StartIndexRecord, StartRemoveIndex
    <3>2. /\ [user |-> u, key |-> k, content |-> c] \in Arg
          /\ k \notin Customs
      BY <2>a, <2>e DEF Arg
    <3>3. QED
      BY <3>1, <3>2
  <2>2. CASE StartIndexCustom(i)
    BY <2>2, <2>e DEF StartIndexCustom, Arg
  <2>3. CASE StartUpdateCustom(i)
    <3>1. PICK r \in Rows, u \in Users, c \in Contents :
              /\ Exists(r) /\ sources[r].user = u
              /\ Start(i, [user |-> u, key |-> sources[r].key,
                           content |-> c], "find")
      BY <2>3 DEF StartUpdateCustom
    <3>2. [user |-> u, key |-> sources[r].key, content |-> c] \in Arg
      BY <3>1, <2>c DEF Arg
    <3>3. QED
      BY <3>1, <3>2, <2>b
  <2>4. CASE StartRemoveSource(i)
    <3>1. PICK r \in Rows, u \in Users, c \in Contents :
              /\ Exists(r) /\ sources[r].user = u
              /\ Start(i, [user |-> u, key |-> sources[r].key,
                           content |-> c], "lookup")
      BY <2>4 DEF StartRemoveSource
    <3>2. [user |-> u, key |-> sources[r].key, content |-> c] \in Arg
      BY <3>1, <2>c DEF Arg
    <3>3. QED
      BY <3>1, <3>2, <2>b
  <2>5. QED
    BY <2>1, <2>2, <2>3, <2>4 DEF Arrive
<1>3. /\ pc[i] = "new" /\ ~ Holds(i)
      /\ pc'[i] # "new" /\ arg'[i] = a
      /\ \A j \in Requests : j # i => arg'[j] = arg[j] /\ pc'[j] = pc[j]
      /\ UNCHANGED <<sources, seen>>
  BY <1>2 DEF Start, IInv, TInv, TypeOK, Binding, Unread
<1>4. \A j, k \in Requests :
         /\ pc'[j] # "new" /\ pc'[k] # "new"
         /\ arg'[j].key = arg'[k].key /\ arg'[j].key \in Customs
         => arg'[j].user = arg'[k].user
  BY <1>2, <1>3 DEF OneUserPerCustom
<1>5. \A r \in Rows :
         Exists(r)' /\ sources'[r].key \in Customs =>
             \E j \in Requests : /\ pc'[j] # "new"
                                 /\ arg'[j].key = sources'[r].key
                                 /\ arg'[j].user = sources'[r].user
  BY <1>3 DEF OneUserPerCustom, Exists
<1>6. \A j \in Requests :
         Holds(j)' /\ arg'[j].key \in Customs => seen'[j].user = arg'[j].user
  BY <1>3 DEF OneUserPerCustom, Holds
<1>7. QED
  BY <1>1, <1>4, <1>5, <1>6 DEF OneUserPerCustom

LEMMA RequestCInv ==
    ASSUME CInv, NEW i \in Requests, RequestStep(i) \/ StoreFault(i)
    PROVE  CInv'
<1> USE DEF CInv, Advance
<1>a. IInv'
  BY RequestIInv
<1>b. /\ \A j \in Requests : j # i => pc'[j] = pc[j]
      /\ pc[i] # "new" /\ pc'[i] # "new"
      /\ UNCHANGED arg
  <2>1. \A where \in {"purge", "update", "insert", "enqueue", "remove",
                      "done"} : Advance(i, where) =>
            /\ \A j \in Requests : j # i => pc'[j] = pc[j]
            /\ pc'[i] # "new" /\ UNCHANGED arg
    BY DEF IInv, TInv, TypeOK
  <2>2. QED
    BY <2>1 DEF RequestStep, StoreFault, Find, Purge, Update, Insert, Enqueue,
                Lookup, Remove, InFlight
<1>c. \A j \in Requests : pc'[j] = "new" <=> pc[j] = "new"
  BY <1>b
<1>1. CASE UNCHANGED <<sources, seen>>
  BY <1>1, <1>a, <1>b, <1>c, KeptCInv DEF Exists
<1>2. CASE Find(i) \/ Lookup(i)
  <2>1. CASE UNCHANGED seen
    BY <1>1, <1>2, <2>1 DEF Find, Lookup
  <2>2. CASE ~ UNCHANGED seen
    <3>1. PICK r \in RowsOf(arg[i].key) :
              seen' = [seen EXCEPT ![i] = [id |-> r, user |-> sources[r].user]]
      BY <1>2, <2>2 DEF Find, Lookup
    <3>2. r \in Rows /\ Exists(r) /\ sources[r].key = arg[i].key
      BY DEF RowsOf
    <3>3. arg[i].key \in Customs => sources[r].user = arg[i].user
      BY <3>2, <1>b DEF OneUserPerCustom
    <3>4. /\ seen'[i].user = sources[r].user
          /\ \A j \in Requests : j # i => seen'[j] = seen[j]
          /\ UNCHANGED sources
      BY <3>1, <1>2 DEF Find, Lookup, IInv, TInv, TypeOK
    <3>5. OneUserPerCustom'
      <4>1. \A q \in Rows :
               Exists(q)' /\ sources'[q].key \in Customs =>
                   \E j \in Requests : /\ pc'[j] # "new"
                                       /\ arg'[j].key = sources'[q].key
                                       /\ arg'[j].user = sources'[q].user
        BY <1>b, <1>c, <3>4 DEF OneUserPerCustom, Exists
      <4>2. \A j \in Requests :
               Holds(j)' /\ arg'[j].key \in Customs =>
                   seen'[j].user = arg'[j].user
        BY <1>b, <3>3, <3>4 DEF OneUserPerCustom, Holds
      <4>3. QED
        BY <1>b, <1>c, <4>1, <4>2 DEF OneUserPerCustom
    <3>6. QED
      BY <1>a, <3>5
  <2>3. QED
    BY <2>1, <2>2
<1>3. CASE Purge(i) \/ Enqueue(i) \/ StoreFault(i)
  BY <1>1, <1>3 DEF Purge, Enqueue, StoreFault
\* Update and Insert write a row with the key of the request and a user who,
\* for a custom key, is the user of the request.
<1>4. ASSUME NEW r \in Rows,
             \A q \in Rows : q # r => sources'[q] = sources[q],
             sources'[r] # NoRow,
             sources'[r].key = arg[i].key,
             arg[i].key \in Customs => sources'[r].user = arg[i].user,
             \A j \in Requests :
                 seen'[j] = seen[j] \/ (j = i /\ seen'[j].user = arg[j].user)
      PROVE  CInv'
  <2>1. \A q \in Rows :
           Exists(q)' /\ sources'[q].key \in Customs =>
               \E j \in Requests : /\ pc'[j] # "new"
                                   /\ arg'[j].key = sources'[q].key
                                   /\ arg'[j].user = sources'[q].user
    <3>1. SUFFICES ASSUME NEW q \in Rows, Exists(q)',
                          sources'[q].key \in Customs
                   PROVE  \E j \in Requests :
                              /\ pc'[j] # "new"
                              /\ arg'[j].key = sources'[q].key
                              /\ arg'[j].user = sources'[q].user
      OBVIOUS
    <3>2. CASE q = r
      BY <1>4, <1>b, <3>1, <3>2
    <3>3. CASE q # r
      <4>1. Exists(q) /\ sources[q].key \in Customs /\ sources'[q] = sources[q]
        BY <1>4, <3>1, <3>3 DEF Exists
      <4>2. PICK j \in Requests : /\ pc[j] # "new"
                                  /\ arg[j].key = sources[q].key
                                  /\ arg[j].user = sources[q].user
        BY <4>1 DEF OneUserPerCustom
      <4>3. QED
        BY <4>1, <4>2, <1>b, <1>c
    <3>4. QED
      BY <3>2, <3>3
  <2>2. \A j \in Requests :
           Holds(j)' /\ arg'[j].key \in Customs => seen'[j].user = arg'[j].user
    BY <1>4, <1>b DEF OneUserPerCustom, Holds
  <2>3. QED
    BY <1>a, <1>b, <1>c, <2>1, <2>2 DEF OneUserPerCustom
<1>5. CASE Update(i)
  <2>1. CASE UNCHANGED sources
    BY <1>1, <1>5, <2>1 DEF Update
  <2>2. CASE ~ UNCHANGED sources
    <3> DEFINE r == seen[i].id
    <3>1. /\ Holds(i) /\ r \in Rows
          /\ UNCHANGED seen
          /\ \A q \in Rows : q # r => sources'[q] = sources[q]
      BY <1>5, <2>2, EntityNotNoRow
      DEF Update, IInv, TInv, TypeOK, Shape, Holding, Holds, Entity
    <3>2. arg[i].key \in Customs => seen[i].user = arg[i].user
      BY <3>1 DEF OneUserPerCustom
    <3>3. sources'[r] # NoRow
      <4>1. CASE Exists(r)
        <5>1. sources[r] \in Source
          BY <4>1, <3>1 DEF IInv, TInv, TypeOK, Exists
        <5>2. arg[i].content \in Contents
          BY <1>5 DEF Update, IInv, TInv, Shape, Arg
        <5>3. sources'[r] = [sources[r] EXCEPT !.hash = arg[i].content,
                                               !.status = "pending"]
          BY <1>5, <4>1, <3>1 DEF Update, IInv, TInv, TypeOK
        <5>4. sources'[r] \in Source
          BY <5>1, <5>2, <5>3 DEF Source, Statuses
        <5>5. QED
          BY <5>4, EntityNotNoRow
      <4>2. CASE ~ Exists(r)
        <5>1. sources'[r] = [key |-> arg[i].key, user |-> seen[i].user,
                             hash |-> arg[i].content, status |-> "pending"]
          BY <1>5, <2>2, <4>2, <3>1 DEF Update, IInv, TInv, TypeOK
        <5>2. sources'[r] \in Source
          <6>1. /\ arg[i].key \in Keys /\ arg[i].content \in Contents
                /\ seen[i].user \in Users
            BY <1>5, <3>1, HoldsEntity DEF Update, IInv, TInv, Shape, Arg
          <6>2. QED
            BY <5>1, <6>1 DEF Source, Statuses
        <5>3. QED
          BY <5>2, EntityNotNoRow
      <4>3. QED
        BY <4>1, <4>2
    <3>4. sources'[r].key = arg[i].key /\ sources'[r].user = seen[i].user
      <4>1. Holds(i)'
        BY <3>1 DEF Holds
      <4>2. QED
        BY <1>a, <1>b, <3>1, <3>3, <4>1 DEF IInv, Binding, Exists
    <3>5. QED
      BY <1>4, <3>1, <3>2, <3>3, <3>4
  <2>3. QED
    BY <2>1, <2>2
<1>6. CASE Insert(i)
  <2>1. CASE UNCHANGED <<sources, seen>>
    BY <1>1, <2>1
  <2>2. CASE ~ UNCHANGED <<sources, seen>>
    <3>1. PICK r \in FreshIds :
              /\ seen' = [seen EXCEPT ![i] =
                             [id |-> r, user |-> arg[i].user]]
              /\ sources' = [sources EXCEPT ![r] =
                   [key |-> arg[i].key, user |-> arg[i].user,
                    hash |-> arg[i].content, status |-> "pending"]]
      BY <1>6, <2>2 DEF Insert
    <3>2. r \in Rows
      BY DEF FreshIds
    <3>3. /\ sources'[r] = [key |-> arg[i].key, user |-> arg[i].user,
                            hash |-> arg[i].content, status |-> "pending"]
          /\ \A q \in Rows : q # r => sources'[q] = sources[q]
          /\ seen'[i] = [id |-> r, user |-> arg[i].user]
          /\ \A j \in Requests : j # i => seen'[j] = seen[j]
      BY <3>1, <3>2 DEF IInv, TInv, TypeOK
    <3>4. sources'[r] # NoRow
      <4>1. /\ arg[i].key \in Keys /\ arg[i].content \in Contents
            /\ arg[i].user \in Users
        BY <1>6 DEF Insert, IInv, TInv, Shape, Arg
      <4>2. sources'[r] \in Source
        BY <3>3, <4>1 DEF Source, Statuses
      <4>3. QED
        BY <4>2, EntityNotNoRow
    <3>5. /\ sources'[r].key = arg[i].key /\ sources'[r].user = arg[i].user
          /\ seen'[i].user = arg[i].user
      BY <3>3
    <3>6. QED
      BY <1>4, <3>2, <3>3, <3>4, <3>5
  <2>3. QED
    BY <2>1, <2>2
<1>7. CASE Remove(i)
  BY <1>7, <1>a, <1>b, <1>c, KeptCInv
  DEF Remove, Exists, IInv, TInv, TypeOK, Shape, Holding, Entity
<1>8. QED
  BY <1>2, <1>3, <1>5, <1>6, <1>7 DEF RequestStep

\* Workers, BullMQ and crashes keep the rows and the arguments.
LEMMA OtherCInv ==
    ASSUME CInv, IInv', RowsKept, UNCHANGED <<arg, seen>>,
           \A i \in Requests : pc'[i] = "new" <=> pc[i] = "new"
    PROVE  CInv'
BY KeptCInv DEF RowsKept

LEMMA NextRowsKept ==
    ASSUME TypeOK,
           \/ \E w \in Workers :
                 WorkerStep(w) \/ EmbedFault(w) \/ WorkerStoreFault(w)
           \/ \E j \in Requests : QueueStep(j)
           \/ CrashFault
           \/ UNCHANGED vars
    PROVE  /\ RowsKept /\ UNCHANGED <<arg, seen>>
           /\ \A i \in Requests : pc'[i] = "new" <=> pc[i] = "new"
<1>a. ASSUME UNCHANGED sources
      PROVE  RowsKept
  BY <1>a DEF RowsKept, Exists
<1>1. ASSUME NEW w \in Workers,
             WorkerStep(w) \/ EmbedFault(w) \/ WorkerStoreFault(w)
      PROVE  RowsKept /\ UNCHANGED <<arg, seen, pc>>
  <2>1. CASE Take(w) \/ Complete(w) \/ Fail(w)
    BY <2>1, StatusKept DEF Take, Complete, Fail, Statuses, requestVars
  <2>2. CASE SaveChunks(w) \/ EmbedFault(w) \/ WorkerStoreFault(w)
    BY <2>2, <1>a DEF SaveChunks, EmbedFault, WorkerStoreFault, requestVars
  <2>3. QED
    BY <1>1, <2>1, <2>2 DEF WorkerStep
<1>2. ASSUME NEW j \in Requests, QueueStep(j)
      PROVE  RowsKept /\ UNCHANGED <<arg, seen, pc>>
  BY <1>2, <1>a DEF QueueStep, Redeliver, GiveUp, requestVars
<1>3. CASE CrashFault
  BY <1>3, <1>a DEF CrashFault, TypeOK, InFlight
<1>4. CASE UNCHANGED vars
  BY <1>4, <1>a DEF vars
<1>5. QED
  BY <1>1, <1>2, <1>3, <1>4

LEMMA NextCInv == CInv /\ [Next]_vars => CInv'
<1>1. SUFFICES ASSUME CInv, [Next]_vars PROVE CInv'
  OBVIOUS
<1>2. IInv' /\ TypeOK
  BY <1>1, NextIInv DEF CInv, IInv, TInv
<1>3. CASE \E i \in Requests :
              Arrive(i) \/ RequestStep(i) \/ StoreFault(i)
  BY <1>1, <1>3, ArriveCInv, RequestCInv
<1>4. CASE ~ \E i \in Requests :
              Arrive(i) \/ RequestStep(i) \/ StoreFault(i)
  BY <1>1, <1>2, <1>4, NextRowsKept, OtherCInv DEF Next, Fault
<1>5. QED
  BY <1>3, <1>4

\* What is searchable under a custom source belongs to the source's user,
\* although every check of the owner is made on a read that may be stale.
THEOREM Isolation == Spec => []CustomIsolation
<1>1. CInv => CustomIsolation
  BY BatchType
  DEF CInv, IInv, TInv, Binding, ChunkOwned, OneUserPerCustom, CustomIsolation
<1>2. QED
  BY InitCInv, NextCInv, <1>1, PTL DEF Spec

-----------------------------------------------------------------------------
(***************************************************************************)
(* No source is left COMPLETED and empty, if there is one worker and only  *)
(* the provider fails.  A source without chunks that is COMPLETED, or that *)
(* the worker is about to set to COMPLETED, has a purge behind it, and the *)
(* request of the purge, or its job, is still on the way to the source.    *)
(* With two workers, or with a request that dies after its purge, it is    *)
(* not so.                                                                 *)
(***************************************************************************)
SteadyHost ==
    /\ \A v, w \in Workers : v = w
    /\ "store" \notin Faults
    /\ "crash" \notin Faults

Heading(i) ==
    \/ pc[i] \in {"update", "enqueue"}
    \/ i \in WaitingJobs
    \/ \E w \in Workers : /\ worker[w] # Idle
                          /\ worker[w].job = i
                          /\ worker[w].pc \in {"embed", "fail"}

Outstanding(r) ==
    \E i \in Requests : Holds(i) /\ seen[i].id = r /\ Heading(i)

Empty(r) == Exists(r) /\ ChunksOf(r) = {}

Finishing(r) ==
    \E w \in Workers : /\ worker[w] # Idle
                       /\ worker[w].pc = "complete"
                       /\ seen[worker[w].job].id = r

Filled ==
    \A r \in Rows :
        Empty(r) /\ (sources[r].status = "completed" \/ Finishing(r)) =>
            Outstanding(r)

DInv == IInv /\ Filled

LEMMA InitDInv == Init => DInv
BY InitIInv DEF Init, DInv, Filled, Empty, Exists

\* Row r needs no care: it had its chunks, or the step took it out of reach.
LEMMA KeptFilled ==
    ASSUME Filled, NEW r \in Rows,
           Outstanding(r) => Outstanding(r)',
           Empty(r)' => Empty(r),
           sources'[r].status = "completed" =>
               sources[r].status = "completed" \/ Finishing(r),
           Finishing(r)' => Finishing(r)
    PROVE  Empty(r)' /\ (sources'[r].status = "completed" \/ Finishing(r)') =>
               Outstanding(r)'
BY DEF Filled

\* Requests that were heading for a row go on doing so.
LEMMA KeptOutstanding ==
    ASSUME NEW r,
           \A i \in Requests :
               Holds(i) /\ seen[i].id = r /\ Heading(i) =>
                   Holds(i)' /\ seen'[i].id = r /\ Heading(i)'
    PROVE  Outstanding(r) => Outstanding(r)'
BY DEF Outstanding

LEMMA ArriveFilled ==
    ASSUME DInv, NEW i \in Requests, Arrive(i)
    PROVE  Filled'
<1>1. PICK a \in Arg, where \in {"find", "lookup"} : Start(i, a, where)
  BY ArriveFacts DEF DInv, IInv, TInv
<1>2. /\ UNCHANGED <<sources, chunks, seen, queue, worker>>
      /\ ~ Holds(i)
      /\ \A j \in Requests : j # i => pc'[j] = pc[j]
  BY <1>1
  DEF Start, queueVars, DInv, IInv, TInv, TypeOK, Binding, Unread
<1>3. \A j \in Requests : Holds(j) /\ Heading(j) => Heading(j)'
  BY <1>2 DEF Heading, WaitingJobs
<1>4. ASSUME NEW r \in Rows
      PROVE  Outstanding(r) => Outstanding(r)'
  BY <1>2, <1>3, KeptOutstanding DEF Holds
<1>5. QED
  BY <1>2, <1>4, KeptFilled
  DEF DInv, Filled, Empty, Exists, ChunksOf, Finishing

LEMMA RequestFilled ==
    ASSUME DInv, NEW i \in Requests, RequestStep(i)
    PROVE  Filled'
<1> USE DEF DInv, IInv, TInv, Advance
<1>a. TypeOK' /\ OneRowPerKey'
  BY RequestIInv
<1>b. /\ UNCHANGED worker
      /\ \A j \in Requests : j # i => pc'[j] = pc[j]
      /\ WaitingJobs \subseteq WaitingJobs'
  <2>1. CASE Enqueue(i)
    BY <2>1, WaitingAppend DEF Enqueue, TypeOK
  <2>2. CASE ~ Enqueue(i)
    BY <2>2 DEF RequestStep, Find, Purge, Update, Insert, Lookup, Remove,
                queueVars, WaitingJobs, TypeOK
  <2>3. QED
    BY <2>1, <2>2
<1>c. \A j \in Requests : j # i /\ Heading(j) => Heading(j)'
  BY <1>b DEF Heading
\* The job of a worker is of a request that is done.
<1>d. \A w \in Workers : worker[w] # Idle => worker[w].job # i
  <2>1. i \notin OpenJobs
    BY DEF RequestStep, Find, Purge, Update, Insert, Enqueue, Lookup, Remove,
           Shape
  <2>2. QED
    BY <2>1 DEF OpenJobs, ActiveJobs
<1>e. ASSUME \A j \in Requests : j # i => seen'[j] = seen[j]
      PROVE  \A r \in Rows : Finishing(r)' <=> Finishing(r)
  <2>1. \A w \in Workers : worker[w] # Idle => worker[w].job \in Requests
    BY DEF TypeOK, Active
  <2>2. QED
    BY <1>e, <1>b, <1>d, <2>1 DEF Finishing
<1>1. CASE Find(i) \/ Lookup(i)
  <2>1. UNCHANGED <<sources, chunks>>
        /\ \A j \in Requests : j # i => seen'[j] = seen[j]
    BY <1>1 DEF Find, Lookup, TypeOK
  <2>2. ~ Holds(i)
    BY <1>1 DEF Find, Lookup, Binding, Unread
  <2>3. ASSUME NEW r \in Rows
        PROVE  Outstanding(r) => Outstanding(r)'
    BY <1>c, <2>1, <2>2, KeptOutstanding DEF Holds
  <2>4. QED
    BY <1>e, <2>1, <2>3, KeptFilled DEF Filled, Empty, Exists, ChunksOf
<1>2. CASE Purge(i)
  <2>1. /\ UNCHANGED <<sources, seen>>
        /\ chunks' = chunks \ ChunksOf(seen[i].id)
        /\ Holds(i)
        /\ pc[i] = "purge" /\ pc'[i] = "update"
    BY <1>2, EntityNotNoRow DEF Purge, TypeOK, Shape, Holding, Holds
  <2>2. \A j \in Requests : Heading(j) => Heading(j)'
    BY <1>c, <2>1 DEF Heading
  <2>3. Outstanding(seen[i].id)'
    BY <2>1 DEF Outstanding, Heading, Holds
  <2>4. ASSUME NEW r \in Rows, r # seen[i].id
        PROVE  Empty(r)' => Empty(r)
    BY <2>1, <2>4 DEF Empty, Exists, ChunksOf
  <2>5. ASSUME NEW r \in Rows
        PROVE  Outstanding(r) => Outstanding(r)'
    BY <2>1, <2>2, KeptOutstanding DEF Holds
  <2>6. QED
    BY <1>e, <2>1, <2>3, <2>4, <2>5, KeptFilled DEF Filled
<1>3. CASE Update(i)
  <2>1. /\ UNCHANGED <<chunks, seen>>
        /\ Holds(i) /\ seen[i].id \in Rows
        /\ pc[i] = "update"
    BY <1>3, EntityNotNoRow DEF Update, Shape, Holding, Holds, Entity
  <2>2. CASE Advance(i, "enqueue") /\ Update(i)
    <3>1. pc'[i] = "enqueue"
      BY <2>2 DEF TypeOK
    <3>2. \A j \in Requests : Heading(j) => Heading(j)'
      BY <1>c, <3>1 DEF Heading
    <3>3. Outstanding(seen[i].id)'
      BY <2>1, <3>1 DEF Outstanding, Heading, Holds
    <3>4. \A r \in Rows : r # seen[i].id => sources'[r] = sources[r]
      BY <2>1, <2>2 DEF Update, TypeOK
    <3>5. ASSUME NEW r \in Rows
          PROVE  Outstanding(r) => Outstanding(r)'
      BY <2>1, <3>2, KeptOutstanding DEF Holds
    <3>6. QED
      BY <1>e, <2>1, <3>3, <3>4, <3>5, KeptFilled
      DEF Filled, Empty, Exists, ChunksOf
  <2>3. CASE ~ Exists(seen[i].id) /\ UNCHANGED sources
    <3>1. ASSUME NEW r \in Rows, r # seen[i].id
          PROVE  Outstanding(r) => Outstanding(r)'
      BY <1>c, <2>1, <3>1, KeptOutstanding DEF Holds
    <3>2. QED
      BY <1>e, <2>1, <2>3, <3>1, KeptFilled
      DEF Filled, Empty, Exists, ChunksOf
  <2>4. QED
    BY <1>3, <2>2, <2>3 DEF Update
<1>4. CASE Insert(i)
  <2>1. ~ Holds(i) /\ UNCHANGED chunks
        /\ \A j \in Requests : j # i => seen'[j] = seen[j]
    BY <1>4 DEF Insert, Binding, Unread, TypeOK
  <2>2. ASSUME NEW r \in Rows
        PROVE  Outstanding(r) => Outstanding(r)'
    BY <1>c, <2>1, KeptOutstanding DEF Holds
  <2>3. CASE UNCHANGED sources
    BY <1>e, <2>1, <2>2, <2>3, KeptFilled DEF Filled, Empty, Exists, ChunksOf
  <2>4. CASE ~ UNCHANGED sources
    <3>1. PICK r \in FreshIds :
              /\ seen' = [seen EXCEPT ![i] =
                             [id |-> r, user |-> arg[i].user]]
              /\ sources' = [sources EXCEPT ![r] =
                   [key |-> arg[i].key, user |-> arg[i].user,
                    hash |-> arg[i].content, status |-> "pending"]]
              /\ Advance(i, "enqueue")
      BY <1>4, <2>4 DEF Insert
    <3>2. /\ r \in Rows
          /\ \A q \in Rows : q # r => sources'[q] = sources[q]
          /\ pc'[i] = "enqueue" /\ seen'[i] = [id |-> r, user |-> arg[i].user]
      BY <3>1 DEF FreshIds, TypeOK
    <3>3. Holds(i)' /\ seen'[i].id = r
      <4>1. arg[i].user \in Users
        BY <1>4 DEF Insert, Shape, Arg
      <4>2. seen'[i] \in Entity
        BY <3>2, <4>1 DEF Entity
      <4>3. QED
        BY <3>2, <4>2, EntityNotNoRow DEF Holds
    <3>4. Outstanding(r)'
      BY <3>2, <3>3 DEF Outstanding, Heading
    <3>5. QED
      BY <1>e, <2>1, <2>2, <3>2, <3>4, KeptFilled
      DEF Filled, Empty, Exists, ChunksOf
  <2>5. QED
    BY <2>3, <2>4
<1>5. CASE Enqueue(i)
  <2>1. UNCHANGED <<sources, chunks, seen>>
    BY <1>5 DEF Enqueue
  <2>2. i \in WaitingJobs'
    BY <1>5, WaitingAppend DEF Enqueue, TypeOK
  <2>3. \A j \in Requests : Heading(j) => Heading(j)'
    BY <1>c, <2>2 DEF Heading
  <2>4. ASSUME NEW r \in Rows
        PROVE  Outstanding(r) => Outstanding(r)'
    BY <2>1, <2>3, KeptOutstanding DEF Holds
  <2>5. QED
    BY <1>e, <2>1, <2>4, KeptFilled DEF Filled, Empty, Exists, ChunksOf
<1>6. CASE Remove(i)
  <2>1. /\ UNCHANGED seen
        /\ seen[i].id \in Rows
        /\ sources' = [sources EXCEPT ![seen[i].id] = NoRow]
        /\ chunks' = chunks \ ChunksOf(seen[i].id)
        /\ pc[i] = "remove"
    BY <1>6 DEF Remove, Shape, Holding, Entity
  <2>2. i \notin OpenJobs
    BY <2>1 DEF Shape
  <2>3. ~ Heading(i)
    BY <2>1, <2>2 DEF Heading, OpenJobs, ActiveJobs
  <2>4. ASSUME NEW r \in Rows
        PROVE  Outstanding(r) => Outstanding(r)'
    BY <1>c, <2>1, <2>3, KeptOutstanding DEF Holds
  <2>5. ~ Exists(seen[i].id)'
        /\ \A r \in Rows : r # seen[i].id =>
              sources'[r] = sources[r] /\ (Empty(r)' => Empty(r))
    BY <2>1 DEF TypeOK, Empty, Exists, ChunksOf
  <2>6. QED
    BY <1>e, <2>1, <2>4, <2>5, KeptFilled DEF Filled, Empty, Exists
<1>7. QED
  BY <1>1, <1>2, <1>3, <1>4, <1>5, <1>6 DEF RequestStep

LEMMA StatusSet ==
    ASSUME TypeOK, NEW r \in Rows, NEW s \in Statuses,
           sources' = WithStatus(r, s)
    PROVE  /\ \A q \in Rows : q # r => sources'[q] = sources[q]
           /\ ~ Exists(r) => sources'[r] = sources[r]
           /\ Exists(r) => sources'[r].status = s
           /\ \A q \in Rows : Exists(q)' <=> Exists(q)
<1>1. /\ \A q \in Rows : q # r => sources'[q] = sources[q]
      /\ ~ Exists(r) => sources'[r] = sources[r]
  BY DEF TypeOK, WithStatus, Exists
<1>2. ASSUME Exists(r)
      PROVE  sources'[r].status = s
  <2>1. sources[r] \in Source
    BY <1>2 DEF TypeOK, Exists
  <2>2. sources'[r] = [sources[r] EXCEPT !.status = s]
    BY <1>2 DEF TypeOK, WithStatus, Exists
  <2>3. QED
    BY <2>1, <2>2 DEF Source
<1>3. \A q \in Rows : Exists(q)' <=> Exists(q)
  BY StatusKept DEF RowsKept
<1>4. QED
  BY <1>1, <1>2, <1>3

LEMMA WorkerFilled ==
    ASSUME DInv, SteadyHost, NEW w \in Workers,
           WorkerStep(w) \/ EmbedFault(w)
    PROVE  Filled'
<1> USE DEF DInv, IInv, TInv, Step, Release, requestVars
<1> DEFINE j == worker[w].job
           row == seen[worker[w].job].id
<1>a. \A v \in Workers : v = w
  BY DEF SteadyHost
<1>b. ASSUME worker[w].pc \in {"embed", "complete", "fail"}
      PROVE  /\ worker[w] \in Active /\ worker[w] # Idle
             /\ j \in Requests /\ Holds(j) /\ row \in Rows
  <2>1. worker[w] \in Active /\ worker[w] # Idle
    BY <1>b DEF TypeOK, Idle, Active
  <2>2. j \in OpenJobs
    BY <2>1 DEF OpenJobs, ActiveJobs
  <2>3. QED
    BY <2>1, <2>2, OpenJobsAreRequests, EntityNotNoRow
    DEF Shape, Holds, Entity
\* The worker turns to where with the same job.
<1>c. ASSUME worker[w] \in Active, NEW where \in {"complete", "fail"},
             worker' = [worker EXCEPT ![w].pc = where]
      PROVE  worker'[w] = [pc |-> where, job |-> j] /\ worker'[w] # Idle
  <2>1. worker'[w] = [worker[w] EXCEPT !.pc = where]
    BY <1>c DEF TypeOK
  <2>2. QED
    BY <1>c, <2>1 DEF Active, Idle
<1>1. CASE Take(w)
  <2>1. /\ Head(queue) \in Requests
        /\ WaitingJobs = WaitingJobs' \cup {Head(queue)}
    BY <1>1, WaitingTail DEF Take, TypeOK
  <2>2. /\ worker[w] = Idle
        /\ worker'[w] = [pc |-> "embed", job |-> Head(queue)]
        /\ worker'[w] # Idle
    BY <1>1 DEF Take, TypeOK, Idle
  <2>3. Head(queue) \in OpenJobs
    BY <2>1 DEF OpenJobs
  <2>4. seen[Head(queue)].id \in Rows
    BY <2>3 DEF Shape, Entity
  <2>5. sources' = WithStatus(seen[Head(queue)].id, "processing")
    BY <1>1 DEF Take, RowOf
  <2>6. \A i \in Requests : Heading(i) => Heading(i)'
    BY <1>1, <1>a, <2>1, <2>2 DEF Heading, Take
  <2>7. ASSUME NEW r \in Rows
        PROVE  Outstanding(r) => Outstanding(r)'
    BY <1>1, <2>6, KeptOutstanding DEF Take, Holds
  <2>8. \A r \in Rows : ~ Finishing(r)'
    BY <1>a, <2>2 DEF Finishing
  <2>9. \A r \in Rows : /\ Empty(r)' => Empty(r)
                        /\ Empty(r)' /\ sources'[r].status = "completed" =>
                              sources[r].status = "completed"
    BY <1>1, <2>4, <2>5, StatusSet
    DEF Take, Statuses, Empty, ChunksOf
  <2>10. QED
    BY <2>7, <2>8, <2>9 DEF Filled
<1>2. CASE SaveChunks(w)
  <2>1. /\ worker[w] \in Active /\ worker[w] # Idle /\ worker[w].pc = "embed"
        /\ j \in Requests /\ Holds(j) /\ row \in Rows
        /\ UNCHANGED <<sources, seen, pc, queue>>
    BY <1>2, <1>b DEF SaveChunks
  <2>2. CASE ~ Exists(row) /\ Step(w, "fail") /\ UNCHANGED chunks
    <3>1. worker'[w] = [pc |-> "fail", job |-> j] /\ worker'[w] # Idle
      BY <1>c, <2>1, <2>2
    <3>2. \A i \in Requests : Heading(i) => Heading(i)'
      BY <1>a, <2>1, <3>1 DEF Heading, WaitingJobs
    <3>3. ASSUME NEW r \in Rows
          PROVE  Outstanding(r) => Outstanding(r)'
      BY <2>1, <3>2, KeptOutstanding DEF Holds
    <3>4. \A r \in Rows : ~ Finishing(r)'
      BY <1>a, <3>1 DEF Finishing
    <3>5. QED
      BY <2>1, <2>2, <3>3, <3>4 DEF Filled, Empty, Exists, ChunksOf
  <2>3. CASE /\ Exists(row)
             /\ chunks' = chunks \cup
                   {[row |-> row, job |-> j, run |-> stalls[j]]}
             /\ Step(w, "complete")
    <3>1. worker'[w] = [pc |-> "complete", job |-> j]
      BY <1>c, <2>1, <2>3
    <3>2. \A r \in Rows : r = row => ~ Empty(r)'
      <4> DEFINE c == [row |-> row, job |-> j, run |-> stalls[j]]
      <4>1. c \in chunks' /\ c.row = row
        BY <2>3
      <4>2. PICK b \in chunks' : b.row = row
        BY <4>1
      <4>3. QED
        BY <4>2 DEF Empty, ChunksOf
    <3>3. ASSUME NEW r \in Rows, r # row
          PROVE  Empty(r)' /\ (sources'[r].status = "completed"
                                  \/ Finishing(r)') => Outstanding(r)'
      <4>1. Outstanding(r) => Outstanding(r)'
        <5>1. \A i \in Requests : Heading(i) /\ i # j => Heading(i)'
          BY <1>a, <2>1 DEF Heading, WaitingJobs
        <5>2. QED
          BY <2>1, <3>3, <5>1, KeptOutstanding DEF Holds
      <4>2. Finishing(r)' => Finishing(r)
        BY <1>a, <2>1, <3>1, <3>3 DEF Finishing
      <4>3. Empty(r)' => Empty(r)
        BY <2>1, <2>3 DEF Empty, Exists, ChunksOf
      <4>4. QED
        BY <2>1, <4>1, <4>2, <4>3, KeptFilled
    <3>4. QED
      BY <2>1, <3>2, <3>3 DEF Filled
  <2>4. QED
    BY <1>2, <2>2, <2>3 DEF SaveChunks, RowOf, JobOf
<1>3. CASE Complete(w)
  <2>1. /\ worker[w] # Idle /\ worker[w].pc = "complete"
        /\ j \in Requests /\ Holds(j) /\ row \in Rows
        /\ UNCHANGED <<chunks, seen, pc, queue>>
        /\ sources' = WithStatus(row, "completed")
        /\ worker' = [worker EXCEPT ![w] = Idle]
    BY <1>3, <1>b DEF Complete, RowOf, JobOf
  <2>2. \A i \in Requests : Heading(i) => Heading(i)'
    BY <1>a, <2>1 DEF Heading, WaitingJobs
  <2>3. ASSUME NEW r \in Rows
        PROVE  Outstanding(r) => Outstanding(r)'
    BY <2>1, <2>2, KeptOutstanding DEF Holds
  <2>4. Finishing(row) /\ \A r \in Rows : ~ Finishing(r)'
    BY <1>a, <2>1 DEF Finishing, TypeOK
  <2>5. ASSUME NEW r \in Rows
        PROVE  /\ Empty(r)' => Empty(r)
               /\ sources'[r].status = "completed" =>
                     sources[r].status = "completed" \/ Finishing(r)
    BY <2>1, <2>4, StatusSet DEF Statuses, Empty, ChunksOf
  <2>6. QED
    BY <2>3, <2>4, <2>5, KeptFilled DEF Filled
<1>4. CASE Fail(w)
  <2>1. /\ worker[w] # Idle /\ worker[w].pc = "fail"
        /\ j \in Requests /\ Holds(j) /\ row \in Rows
        /\ UNCHANGED <<chunks, seen, pc, queue>>
        /\ sources' = WithStatus(row, "failed")
        /\ worker' = [worker EXCEPT ![w] = Idle]
    BY <1>4, <1>b DEF Fail, RowOf, JobOf
  <2>2. \A i \in Requests : i # j /\ Heading(i) => Heading(i)'
    BY <1>a, <2>1 DEF Heading, WaitingJobs
  <2>3. ASSUME NEW r \in Rows, r # row
        PROVE  Outstanding(r) => Outstanding(r)'
    BY <2>1, <2>2, <2>3, KeptOutstanding DEF Holds
  <2>4. \A r \in Rows : ~ Finishing(r)'
    BY <1>a, <2>1 DEF Finishing, TypeOK
  <2>5. \A r \in Rows :
           r = row /\ Empty(r)' => sources'[r].status # "completed"
    BY <2>1, StatusSet DEF Statuses, Empty
  <2>6. \A r \in Rows : r # row => /\ sources'[r] = sources[r]
                                   /\ Empty(r)' => Empty(r)
    BY <2>1, StatusSet DEF Statuses, Empty, ChunksOf
  <2>7. QED
    BY <2>3, <2>4, <2>5, <2>6 DEF Filled
<1>5. CASE EmbedFault(w)
  <2>1. /\ worker[w] \in Active /\ worker[w] # Idle /\ worker[w].pc = "embed"
        /\ UNCHANGED <<sources, chunks, seen, pc, queue>>
    BY <1>5, <1>b DEF EmbedFault
  <2>2. worker'[w] = [pc |-> "fail", job |-> j] /\ worker'[w] # Idle
    BY <1>5, <1>c, <2>1 DEF EmbedFault
  <2>3. \A i \in Requests : Heading(i) => Heading(i)'
    BY <1>a, <2>1, <2>2 DEF Heading, WaitingJobs
  <2>4. ASSUME NEW r \in Rows
        PROVE  Outstanding(r) => Outstanding(r)'
    BY <2>1, <2>3, KeptOutstanding DEF Holds
  <2>5. \A r \in Rows : ~ Finishing(r)'
    BY <1>a, <2>2 DEF Finishing
  <2>6. QED
    BY <2>1, <2>4, <2>5 DEF Filled, Empty, Exists, ChunksOf
<1>6. QED
  BY <1>1, <1>2, <1>3, <1>4, <1>5 DEF WorkerStep

\* BullMQ changes neither the rows nor what the worker does.
LEMMA QueueFilled ==
    ASSUME DInv, NEW k \in Requests, QueueStep(k) \/ UNCHANGED vars
    PROVE  Filled'
<1>1. /\ UNCHANGED <<sources, chunks, seen, pc, worker>>
      /\ WaitingJobs \subseteq WaitingJobs'
  <2>1. CASE Redeliver(k)
    BY <2>1, WaitingCons
    DEF Redeliver, requestVars, DInv, IInv, TInv, TypeOK
  <2>2. CASE GiveUp(k) \/ UNCHANGED vars
    BY <2>2 DEF GiveUp, vars, requestVars, WaitingJobs
  <2>3. QED
    BY <2>1, <2>2 DEF QueueStep
<1>2. \A i \in Requests : Heading(i) => Heading(i)'
  BY <1>1 DEF Heading
<1>3. ASSUME NEW r \in Rows
      PROVE  Outstanding(r) => Outstanding(r)'
  BY <1>1, <1>2, KeptOutstanding DEF Holds
<1>4. QED
  BY <1>1, <1>3 DEF DInv, Filled, Empty, Exists, ChunksOf, Finishing

LEMMA NextDInv ==
    ASSUME SteadyHost
    PROVE  DInv /\ [Next]_vars => DInv'
<1>1. SUFFICES ASSUME DInv, [Next]_vars PROVE Filled'
  BY NextIInv DEF DInv
<1>2. /\ ~ CrashFault
      /\ \A i \in Requests : ~ StoreFault(i)
      /\ \A w \in Workers : ~ WorkerStoreFault(w)
  BY DEF SteadyHost, CrashFault, StoreFault, WorkerStoreFault
<1>3. CASE UNCHANGED vars
  BY <1>1, <1>3
  DEF vars, DInv, Filled, Empty, Exists, ChunksOf, Finishing, Outstanding,
      Holds, Heading, WaitingJobs
<1>4. CASE Next
  <2>1. CASE \E i \in Requests : Arrive(i) \/ RequestStep(i) \/ QueueStep(i)
    BY <1>1, <2>1, ArriveFilled, RequestFilled, QueueFilled
  <2>2. CASE \E w \in Workers : WorkerStep(w) \/ EmbedFault(w)
    BY <1>1, <2>2, WorkerFilled
  <2>3. QED
    BY <1>2, <1>4, <2>1, <2>2 DEF Next, Fault
<1>5. QED
  BY <1>1, <1>3, <1>4

\* Once the requests and the jobs for a record are through, a COMPLETED source
\* has chunks, if there is one worker and neither the database nor the process
\* fails; the provider may fail in any job.
THEOREM CompletedNotEmpty ==
    ASSUME SteadyHost
    PROVE  Spec => []CompletedHasChunks
<1>1. DInv => CompletedHasChunks
  <2>1. SUFFICES ASSUME DInv, NEW r \in Rows, Completed(r),
                        ChunksOf(r) = {}
                 PROVE  ~ QuiescentOn(sources[r].key)
    BY DEF CompletedHasChunks
  <2>2. Outstanding(r)
    BY <2>1 DEF DInv, Filled, Empty, Completed
  <2>3. PICK i \in Requests : Holds(i) /\ seen[i].id = r /\ Heading(i)
    BY <2>2 DEF Outstanding
  <2>4. arg[i].key = sources[r].key
    BY <2>1, <2>3 DEF DInv, IInv, Binding, Completed
  <2>5. CASE pc[i] \in {"update", "enqueue"}
    BY <2>3, <2>4, <2>5 DEF QuiescentOn, RequestsOn, InFlight
  <2>6. CASE i \in OpenJobs
    BY <2>3, <2>4, <2>6 DEF QuiescentOn, JobsOn
  <2>7. QED
    BY <2>3, <2>5, <2>6 DEF Heading, OpenJobs, ActiveJobs
<1>2. QED
  BY InitDInv, NextDInv, <1>1, PTL DEF Spec

-----------------------------------------------------------------------------
(***************************************************************************)
(* Requests for a record that wait for one another.  Nobody removes the    *)
(* row that a request holds, so save updates it, and an insert takes a new *)
(* id: no row comes back.                                                  *)
(***************************************************************************)
OneRequestPerKey ==
    \A i, j \in Requests :
        pc[i] \in InFlight /\ pc[j] \in InFlight /\ arg[i].key = arg[j].key => i = j

HeldRowLives == \A i \in Requests : pc[i] \in Holding => Exists(seen[i].id)

SInv == IInv /\ OneRequestPerKey /\ HeldRowLives

(***************************************************************************)
(* The row of a record is current: its content is on the way, or it is     *)
(* what the last of the jobs for the row carries, or all the jobs are      *)
(* through and COMPLETED tells the truth.  The jobs for older contents run *)
(* before, so what they leave behind does not last.                        *)
(***************************************************************************)
Rewritten(r) == \E i \in Requests : pc[i] \in {"update", "enqueue"} /\ seen[i].id = r

Handed == \A i \in Requests :
    pc[i] = "enqueue" => sources[seen[i].id].hash = arg[i].content

Waits(n, r) == n \in 1 .. Len(queue) /\ seen[queue[n]].id = r

Searchable(r) == \E c \in ChunksOf(r) : ContentOf(c) = sources[r].hash

LastWaits(r) == \E n \in 1 .. Len(queue) :
    /\ Waits(n, r)
    /\ arg[queue[n]].content = sources[r].hash
    /\ \A m \in 1 .. Len(queue) : Waits(m, r) => m <= n

NoneWaits(r) == \A n \in 1 .. Len(queue) : ~ Waits(n, r)

Works(w, r) == worker[w] # Idle /\ seen[worker[w].job].id = r

LastRuns(r) == \E w \in Workers :
    /\ Works(w, r)
    /\ arg[worker[w].job].content = sources[r].hash
    /\ worker[w].pc = "complete" => Searchable(r)

Settled(r) ==
    /\ \A w \in Workers : ~ Works(w, r)
    /\ sources[r].status = "completed" => Searchable(r)

Current(r) ==
    \/ Rewritten(r)
    \/ LastWaits(r)
    \/ NoneWaits(r) /\ (LastRuns(r) \/ Settled(r))

NInv == /\ SInv
        /\ stalled = {}
        /\ Handed
        /\ \A r \in Rows : Exists(r) => Current(r)

LEMMA InitSInv == Init => SInv
BY InitIInv DEF Init, SInv, OneRequestPerKey, HeldRowLives, InFlight, Holding

\* The two parts, for a step that lets no request in and removes no row.
LEMMA KeptSerial ==
    ASSUME SInv, UNCHANGED arg,
           \A j \in Requests : pc'[j] \in InFlight => pc[j] \in InFlight
    PROVE  OneRequestPerKey'
BY DEF SInv, OneRequestPerKey

LEMMA KeptHeld ==
    ASSUME SInv, \A r \in Rows : Exists(r) => Exists(r)',
           \A j \in Requests : pc'[j] \in Holding =>
              \/ pc[j] \in Holding /\ seen'[j] = seen[j]
              \/ seen'[j].id \in Rows /\ sources'[seen'[j].id] # NoRow
    PROVE  HeldRowLives'
<1>1. \A j \in Requests : pc[j] \in Holding => seen[j].id \in Rows
  BY DEF SInv, IInv, TInv, Shape, Entity
<1>2. QED
  BY <1>1 DEF SInv, HeldRowLives, Exists

LEMMA ArriveSerial ==
    ASSUME Arrivals = "serial", SInv, NEW i \in Requests, Arrive(i)
    PROVE  OneRequestPerKey' /\ HeldRowLives'
<1>1. PICK a \in Arg, where \in {"find", "lookup"} : Start(i, a, where)
  BY ArriveFacts DEF SInv, IInv, TInv
<1>2. /\ pc' = [pc EXCEPT ![i] = where] /\ arg' = [arg EXCEPT ![i] = a]
      /\ UNCHANGED <<sources, seen>>
      /\ RequestsOn(a.key) = {}
  BY <1>1 DEF Start, Admitted
<1>3. /\ \A j \in Requests : j # i => pc'[j] = pc[j] /\ arg'[j] = arg[j]
      /\ pc'[i] = where /\ arg'[i] = a
  BY <1>2 DEF SInv, IInv, TInv, TypeOK
<1>4. OneRequestPerKey'
  BY <1>2, <1>3 DEF SInv, OneRequestPerKey, RequestsOn
<1>5. HeldRowLives'
  BY <1>2, <1>3, KeptHeld DEF Exists, Holding
<1>6. QED
  BY <1>4, <1>5

\* A request that removes a row is the only one that holds it.
LEMMA OneHolder ==
    ASSUME SInv, NEW i \in Requests, NEW j \in Requests,
           pc[i] \in Holding, pc[j] \in Holding, seen[i].id = seen[j].id
    PROVE  i = j
<1>1. seen[i] \in Entity /\ seen[j] \in Entity
  BY DEF SInv, IInv, TInv, Shape
<1>2. Holds(i) /\ Holds(j)
  BY <1>1, EntityNotNoRow DEF Holds
<1>3. arg[i].key = arg[j].key
  BY <1>2 DEF SInv, IInv, Binding
<1>4. pc[i] \in InFlight /\ pc[j] \in InFlight
  BY DEF Holding, InFlight
<1>5. QED
  BY <1>3, <1>4 DEF SInv, OneRequestPerKey

\* Where request i goes, and what the others keep.
LEMMA RequestMoves ==
    ASSUME SInv, NEW i \in Requests, RequestStep(i) \/ StoreFault(i)
    PROVE  /\ pc[i] \in InFlight
           /\ UNCHANGED <<arg, worker, stalled>>
           /\ \A j \in Requests : j # i => pc'[j] = pc[j] /\ seen'[j] = seen[j]
BY DEF SInv, IInv, TInv, TypeOK, RequestStep, StoreFault, InFlight, Advance,
       Find, Purge, Update, Insert, Enqueue, Lookup, Remove, queueVars

\* An edit of an existing row finds it.
LEMMA UpdateFinds ==
    ASSUME SInv, NEW i \in Requests, Update(i)
    PROVE  /\ seen[i].id \in Rows /\ Exists(seen[i].id)
           /\ sources' = [sources EXCEPT ![seen[i].id].hash = arg[i].content,
                                         ![seen[i].id].status = "pending"]
           /\ Advance(i, "enqueue")
           /\ UNCHANGED <<chunks, born, seen, queueVars>>
<1>1. pc[i] \in Holding
  BY DEF Update, Holding
<1>2. Exists(seen[i].id) /\ seen[i] \in Entity
  BY <1>1 DEF SInv, HeldRowLives, IInv, TInv, Shape
<1>3. QED
  BY <1>2 DEF Update, Entity

LEMMA UpdatedRow ==
    ASSUME SInv, NEW i \in Requests, Update(i)
    PROVE  /\ \A r \in Rows : r # seen[i].id => sources'[r] = sources[r]
           /\ sources'[seen[i].id] \in Source
           /\ sources'[seen[i].id].hash = arg[i].content
           /\ sources'[seen[i].id].status = "pending"
           /\ \A r \in Rows : Exists(r)' <=> Exists(r)
<1> DEFINE q == seen[i].id
           row == [sources[q] EXCEPT !.hash = arg[i].content,
                                     !.status = "pending"]
<1>1. q \in Rows /\ Exists(q) /\ sources[q] \in Source
  BY UpdateFinds DEF SInv, IInv, TInv, TypeOK, Exists
<1>a. sources \in [Rows -> Source \cup {NoRow}]
  BY DEF SInv, IInv, TInv, TypeOK
<1>b. sources' = [sources EXCEPT ![q].hash = arg[i].content,
                                ![q].status = "pending"]
  BY UpdateFinds
<1>2. sources' = [sources EXCEPT ![q] = row]
  BY <1>1, <1>a, <1>b
<1>3. arg[i].content \in Contents
  BY DEF Update, SInv, IInv, TInv, Shape, Arg
<1>4. row \in Source /\ row.hash = arg[i].content /\ row.status = "pending"
  BY <1>1, <1>3 DEF Source, Statuses
<1>5. \A r \in Rows : r # q => sources'[r] = sources[r]
  BY <1>1, <1>2, <1>a
<1>6. sources'[q] = row
  BY <1>1, <1>2, <1>a
<1>7. QED
  BY <1>1, <1>4, <1>5, <1>6, EntityNotNoRow DEF Exists

LEMMA InsertedRow ==
    ASSUME SInv, NEW i \in Requests, Insert(i), ~ UNCHANGED sources
    PROVE  \E r \in Rows \ born :
              /\ ~ Exists(r)
              /\ \A q \in Rows : q # r => sources'[q] = sources[q]
              /\ Exists(r)' /\ sources'[r].hash = arg[i].content
              /\ sources'[r].status = "pending"
              /\ seen'[i].id = r /\ seen'[i] \in Entity
              /\ pc'[i] = "enqueue"
<1> USE DEF SInv, IInv, TInv
<1>1. PICK r \in FreshIds :
        /\ seen' = [seen EXCEPT ![i] = [id |-> r, user |-> arg[i].user]]
        /\ sources' = [sources EXCEPT ![r] =
              [key |-> arg[i].key, user |-> arg[i].user,
               hash |-> arg[i].content, status |-> "pending"]]
        /\ Advance(i, "enqueue")
  BY DEF Insert
<1>2. arg[i] \in Arg
  BY DEF Insert, Shape
<1>3. [key |-> arg[i].key, user |-> arg[i].user,
       hash |-> arg[i].content, status |-> "pending"] \in Source
  BY <1>2 DEF Arg, Source, Statuses
<1>4. r \in Rows \ born
  BY <1>1 DEF FreshIds
<1>5. ~ Exists(r)
  BY <1>4 DEF Binding
<1>6. /\ sources'[r] = [key |-> arg[i].key, user |-> arg[i].user,
                        hash |-> arg[i].content, status |-> "pending"]
      /\ \A q \in Rows : q # r => sources'[q] = sources[q]
  BY <1>1, <1>4 DEF TypeOK
<1>7. seen'[i] = [id |-> r, user |-> arg[i].user] /\ pc'[i] = "enqueue"
  BY <1>1 DEF TypeOK, Advance
<1>8. seen'[i] \in Entity
  BY <1>2, <1>4, <1>7 DEF Entity, Arg
<1>9. Exists(r)'
  BY <1>3, <1>6, EntityNotNoRow DEF Exists
<1>10. QED
  BY <1>4, <1>5, <1>6, <1>7, <1>8, <1>9

LEMMA RequestSerial ==
    ASSUME SInv, NEW i \in Requests, RequestStep(i) \/ StoreFault(i)
    PROVE  /\ OneRequestPerKey' /\ HeldRowLives'
           /\ \A r \in born : ~ Exists(r) => ~ Exists(r)'
<1>a. /\ pc[i] \in InFlight /\ UNCHANGED arg
      /\ \A j \in Requests : j # i => pc'[j] = pc[j] /\ seen'[j] = seen[j]
  BY RequestMoves
<1>b. OneRequestPerKey'
  BY <1>a, KeptSerial
<1>c. pc \in [Requests -> {"new", "done"} \cup InFlight] /\ born \subseteq Rows
  BY DEF SInv, IInv, TInv, TypeOK
<1>d. \A j \in Requests : pc[j] \in Holding => seen[j].id \in Rows
  BY DEF SInv, IInv, TInv, Shape, Entity
<1>1. CASE Find(i) \/ Lookup(i)
  <2>1. UNCHANGED sources
    BY <1>1 DEF Find, Lookup
  <2>2. pc'[i] \in Holding => seen'[i].id \in Rows /\ Exists(seen'[i].id)
    <3>1. CASE RowsOf(arg[i].key) = {}
      BY <1>1, <1>c, <3>1 DEF Find, Lookup, Advance, Holding
    <3>2. CASE RowsOf(arg[i].key) # {}
      <4>1. PICK r \in RowsOf(arg[i].key) :
               seen' = [seen EXCEPT ![i] = [id |-> r, user |-> sources[r].user]]
        BY <1>1, <3>2 DEF Find, Lookup
      <4>2. seen'[i].id = r
        BY <4>1 DEF SInv, IInv, TInv, TypeOK
      <4>3. QED
        BY <2>1, <4>1, <4>2 DEF RowsOf, Exists
    <3>3. QED
      BY <3>1, <3>2
  <2>3. QED
    BY <1>a, <1>b, <2>1, <2>2, KeptHeld DEF Exists
<1>2. CASE Purge(i) \/ Enqueue(i) \/ StoreFault(i)
  <2>1. UNCHANGED <<sources, seen>> /\ (pc'[i] \in Holding => pc[i] \in Holding)
    BY <1>2, <1>c DEF Purge, Enqueue, StoreFault, Advance, Holding
  <2>2. QED
    BY <1>a, <1>b, <2>1, KeptHeld DEF Exists
<1>3. CASE Update(i)
  <2>1. \A r \in Rows : Exists(r)' <=> Exists(r)
    BY <1>3, UpdatedRow
  <2>2. UNCHANGED seen /\ pc[i] \in Holding
    BY <1>3 DEF Update, Holding
  <2>3. QED
    BY <1>a, <1>b, <1>c, <2>1, <2>2, KeptHeld
<1>4. CASE Insert(i)
  <2>1. CASE UNCHANGED sources
    <3>1. pc'[i] \notin Holding
      <4>1. CASE Advance(i, "done")
        BY <1>c, <4>1 DEF Advance, Holding
      <4>2. CASE \E r \in FreshIds : sources' = [sources EXCEPT ![r] =
                      [key |-> arg[i].key, user |-> arg[i].user,
                       hash |-> arg[i].content, status |-> "pending"]]
        <5>1. PICK r \in FreshIds : sources' = [sources EXCEPT ![r] =
                      [key |-> arg[i].key, user |-> arg[i].user,
                       hash |-> arg[i].content, status |-> "pending"]]
          BY <4>2
        <5>2. r \in Rows /\ ~ Exists(r)
          BY <5>1 DEF FreshIds, SInv, IInv, Binding
        <5>3. arg[i] \in Arg
          BY <1>4 DEF Insert, SInv, IInv, TInv, Shape
        <5>4. sources'[r] \in Source
          BY <5>1, <5>2, <5>3 DEF SInv, IInv, TInv, TypeOK, Arg, Source, Statuses
        <5>5. QED
          BY <2>1, <5>2, <5>4, EntityNotNoRow DEF Exists
      <4>3. QED
        BY <1>4, <4>1, <4>2 DEF Insert
    <3>2. QED
      BY <1>a, <1>b, <2>1, <3>1, KeptHeld DEF Exists
  <2>2. CASE ~ UNCHANGED sources
    <3>1. PICK r \in Rows \ born :
              /\ \A q \in Rows : q # r => sources'[q] = sources[q]
              /\ Exists(r)' /\ seen'[i].id = r
      BY <1>4, <2>2, InsertedRow
    <3>2. \A q \in Rows : Exists(q) => Exists(q)'
      BY <3>1 DEF Exists
    <3>3. \A q \in born : ~ Exists(q) => ~ Exists(q)'
      BY <1>c, <3>1 DEF Exists
    <3>4. QED
      BY <1>a, <1>b, <3>1, <3>2, <3>3, KeptHeld DEF Exists
  <2>3. QED
    BY <2>1, <2>2
<1>5. CASE Remove(i)
  <2>1. /\ pc[i] \in Holding /\ pc'[i] = "done" /\ UNCHANGED seen
        /\ sources' = [sources EXCEPT ![seen[i].id] = NoRow]
    BY <1>5, <1>c DEF Remove, Advance, Holding
  <2>2. \A r \in Rows : r # seen[i].id => sources'[r] = sources[r]
    BY <2>1 DEF SInv, IInv, TInv, TypeOK
  <2>3. ASSUME NEW j \in Requests, pc'[j] \in Holding
        PROVE  sources'[seen'[j].id] # NoRow
    <3>1. j # i /\ pc[j] \in Holding /\ seen'[j] = seen[j]
      BY <1>a, <2>1, <2>3 DEF Holding
    <3>2. seen[j].id # seen[i].id
      BY <2>1, <3>1, OneHolder
    <3>3. QED
      BY <1>d, <2>2, <3>1, <3>2 DEF SInv, HeldRowLives, Exists
  <2>4. \A r \in Rows : ~ Exists(r) => ~ Exists(r)'
    BY <2>1, <2>2, <1>d DEF SInv, IInv, TInv, TypeOK, Exists
  <2>5. QED
    BY <1>b, <1>c, <2>3, <2>4 DEF HeldRowLives, Exists
<1>6. QED
  BY <1>1, <1>2, <1>3, <1>4, <1>5 DEF RequestStep

LEMMA NextSerial ==
    ASSUME Arrivals = "serial", SInv, [Next]_vars
    PROVE  SInv' /\ \A r \in born : ~ Exists(r) => ~ Exists(r)'
<1>1. IInv' /\ TypeOK
  BY NextIInv DEF SInv, IInv, TInv
<1>2. CASE \E i \in Requests : Arrive(i)
  <2>1. UNCHANGED sources
    BY <1>1, <1>2, ArriveFacts DEF Start
  <2>2. QED
    BY <1>1, <1>2, <2>1, ArriveSerial DEF SInv, Exists
<1>3. CASE \E i \in Requests : RequestStep(i) \/ StoreFault(i)
  BY <1>1, <1>3, RequestSerial DEF SInv
<1>4. CASE \/ \E w \in Workers :
                 WorkerStep(w) \/ EmbedFault(w) \/ WorkerStoreFault(w)
           \/ \E j \in Requests : QueueStep(j)
           \/ CrashFault
           \/ UNCHANGED vars
  <2>1. RowsKept /\ UNCHANGED <<arg, seen>>
    BY <1>1, <1>4, NextRowsKept
  <2>2. \A j \in Requests : pc'[j] = pc[j] \/ pc'[j] = "done"
    BY <1>1, <1>4
    DEF WorkerStep, Take, SaveChunks, Complete, Fail, EmbedFault,
        WorkerStoreFault, QueueStep, Redeliver, GiveUp, CrashFault, vars,
        requestVars, TypeOK
  <2>3. OneRequestPerKey'
    BY <2>1, <2>2, KeptSerial DEF InFlight
  <2>4. HeldRowLives'
    BY <2>1, <2>2, KeptHeld DEF RowsKept, Holding
  <2>5. QED
    BY <1>1, <2>1, <2>3, <2>4 DEF RowsKept, SInv, TypeOK
<1>5. QED
  BY <1>2, <1>3, <1>4 DEF Next, Fault

\* If requests for a record wait for one another, a source that was removed
\* stays so: no save of a request that had read it inserts it again, whatever
\* faults and crashes cut requests and jobs short.
THEOREM RemovalStands ==
    ASSUME Arrivals = "serial"
    PROVE  Spec => RemovedStaysRemoved
<1>1. SInv /\ [Next]_vars => [\A r \in born : ~ Exists(r) => ~ Exists(r)']_vars
  BY NextSerial
<1>2. SInv /\ [Next]_vars => SInv'
  BY NextSerial
<1>3. QED
  BY InitSInv, <1>1, <1>2, PTL DEF Spec, RemovedStaysRemoved

-----------------------------------------------------------------------------
(* The current row, under the same condition and one steady host. *)

LEMMA InitNInv == Init => NInv
BY InitSInv DEF Init, NInv, Handed, Exists

\* A step that keeps the text of row r and the jobs, and adds no COMPLETED.
LEMMA KeptLine ==
    ASSUME TypeOK, NEW r \in Rows,
           sources'[r].hash = sources[r].hash,
           sources'[r].status = "completed" => sources[r].status = "completed",
           \A j \in OpenJobs : seen'[j] = seen[j] /\ arg'[j] = arg[j],
           UNCHANGED <<queue, worker>>,
           Searchable(r) => Searchable(r)',
           Rewritten(r) => Rewritten(r)',
           Current(r)
    PROVE  Current(r)'
<1>1. \A n \in 1 .. Len(queue) :
         /\ queue'[n] = queue[n]
         /\ seen'[queue[n]] = seen[queue[n]] /\ arg'[queue[n]] = arg[queue[n]]
  BY DEF OpenJobs, WaitingJobs
<1>2. \A w \in Workers : worker[w] # Idle =>
         /\ seen'[worker[w].job] = seen[worker[w].job]
         /\ arg'[worker[w].job] = arg[worker[w].job]
  BY DEF OpenJobs, ActiveJobs
<1>3. \A n \in 1 .. Len(queue) : Waits(n, r)' <=> Waits(n, r)
  BY <1>1 DEF Waits
<1>4. \A w \in Workers : Works(w, r)' <=> Works(w, r)
  BY <1>2 DEF Works
<1>5. LastWaits(r) => LastWaits(r)'
  BY <1>1, <1>3 DEF LastWaits
<1>6. NoneWaits(r) => NoneWaits(r)'
  BY <1>3 DEF NoneWaits
<1>7. LastRuns(r) => LastRuns(r)'
  BY <1>2, <1>4 DEF LastRuns, Works
<1>8. Settled(r) => Settled(r)'
  BY <1>4 DEF Settled
<1>9. QED
  BY <1>5, <1>6, <1>7, <1>8 DEF Current

\* Chunks that stay, with the text of their row, keep it searchable.
LEMMA KeptSearchable ==
    ASSUME IInv, NEW r \in Rows,
           \A i \in Requests : pc[i] # "new" => arg'[i] = arg[i],
           sources'[r].hash = sources[r].hash,
           ChunksOf(r) \subseteq chunks'
    PROVE  Searchable(r) => Searchable(r)'
<1>1. ASSUME NEW c \in ChunksOf(r)
      PROVE  c \in ChunksOf(r)' /\ arg'[c.job] = arg[c.job]
  <2>1. c \in chunks /\ c.row = r
    BY <1>1 DEF ChunksOf
  <2>2. c.job \in Requests /\ Holds(c.job)
    BY <2>1, BatchType DEF IInv, TInv, ChunkOwned
  <2>3. pc[c.job] # "new"
    BY <2>2 DEF IInv, Binding, Unread
  <2>4. QED
    BY <1>1, <2>1, <2>2, <2>3 DEF ChunksOf
<1>2. QED
  BY <1>1 DEF Searchable, ContentOf

\* What a request holds, and what it asked for, is settled when its job is open.
LEMMA OpenIsDone ==
    ASSUME TInv, NEW j \in OpenJobs
    PROVE  j \in Requests /\ pc[j] = "done" /\ seen[j] \in Entity
BY OpenJobsAreRequests DEF TInv, Shape

LEMMA ArriveCurrent ==
    ASSUME NInv, NEW i \in Requests, Arrive(i)
    PROVE  Handed' /\ stalled' = {} /\ \A r \in Rows : Exists(r)' => Current(r)'
<1> USE DEF NInv, SInv, IInv, TInv
<1>1. PICK a \in Arg, where \in {"find", "lookup"} : Start(i, a, where)
  BY ArriveFacts
<1>2. /\ UNCHANGED <<sources, chunks, seen, queue, worker, stalled>>
      /\ pc[i] = "new" /\ pc'[i] = where
      /\ \A j \in Requests : j # i => pc'[j] = pc[j] /\ arg'[j] = arg[j]
  BY <1>1 DEF Start, queueVars, TypeOK
<1>3. Handed'
  BY <1>2 DEF Handed
<1>4. ASSUME NEW r \in Rows, Exists(r)'
      PROVE  Current(r)'
  <2>1. Current(r)
    BY <1>2, <1>4 DEF Exists
  <2>2. \A j \in OpenJobs : arg'[j] = arg[j]
    BY <1>2, OpenIsDone
  <2>3. Searchable(r) => Searchable(r)'
    BY <1>2, KeptSearchable DEF ChunksOf
  <2>4. Rewritten(r) => Rewritten(r)'
    BY <1>2 DEF Rewritten
  <2>5. QED
    BY <1>2, <2>1, <2>2, <2>3, <2>4, KeptLine
<1>5. QED
  BY <1>2, <1>3, <1>4

\* A step of request i that keeps the jobs; r is a row it does not touch.
LEMMA UntouchedRow ==
    ASSUME NInv, NEW i \in Requests, RequestStep(i), ~ Enqueue(i),
           NEW r \in Rows, Current(r), sources'[r] = sources[r],
           ChunksOf(r) \subseteq chunks',
           pc[i] = "update" => seen[i].id # r
    PROVE  Current(r)'
<1> USE DEF NInv, SInv, IInv, TInv
<1>1. /\ pc[i] \in InFlight /\ UNCHANGED arg
      /\ \A j \in Requests : j # i => pc'[j] = pc[j] /\ seen'[j] = seen[j]
  BY RequestMoves
<1>2. UNCHANGED <<queue, worker>> /\ pc[i] # "enqueue"
  BY DEF RequestStep, Find, Purge, Update, Insert, Lookup, Remove, queueVars
<1>3. \A j \in OpenJobs : seen'[j] = seen[j]
  BY <1>1, OpenIsDone DEF InFlight
<1>4. Searchable(r) => Searchable(r)'
  BY <1>1, KeptSearchable
<1>5. Rewritten(r) => Rewritten(r)'
  BY <1>1, <1>2 DEF Rewritten
<1>6. QED
  BY <1>1, <1>2, <1>3, <1>4, <1>5, KeptLine

\* The job that was added is the last in line.
LEMMA EnqueueCurrent ==
    ASSUME NInv, NEW i \in Requests, Enqueue(i)
    PROVE  Handed' /\ \A r \in Rows : Exists(r)' => Current(r)'
<1> USE DEF NInv, SInv, IInv, TInv
<1>1. /\ UNCHANGED <<sources, chunks, arg, seen, worker>>
      /\ pc[i] = "enqueue" /\ pc'[i] = "done"
      /\ queue' = Append(queue, i)
      /\ \A j \in Requests : j # i => pc'[j] = pc[j]
  BY DEF Enqueue, Advance, TypeOK
<1>2. Handed'
  BY <1>1 DEF Handed
<1>k. PICK k \in Nat : k = Len(queue) + 1
  BY DEF TypeOK
<1>3. /\ Len(queue') = k /\ Len(queue) = k - 1
      /\ \A n \in 1 .. Len(queue) : queue'[n] = queue[n]
      /\ queue'[k] = i
      /\ k \in 1 .. Len(queue')
  BY <1>1, <1>k DEF TypeOK
<1>4. ASSUME NEW r \in Rows, Exists(r)'
      PROVE  Current(r)'
  <2>1. Current(r)
    BY <1>1, <1>4 DEF Exists
  <2>2. CASE r = seen[i].id
    <3>1. arg[i].content = sources[r].hash
      BY <1>1, <2>2 DEF Handed
    <3>2. Waits(k, r)'
      BY <1>1, <1>3, <2>2 DEF Waits
    <3>3. \A m \in 1 .. Len(queue') : m <= k
      BY <1>3
    <3>4. LastWaits(r)'
      BY <1>1, <1>3, <3>1, <3>2, <3>3 DEF LastWaits
    <3>5. QED
      BY <3>4 DEF Current
  <2>3. CASE r # seen[i].id
    <3>1. ~ Waits(k, r)'
      BY <1>1, <1>3, <2>3 DEF Waits
    <3>2. \A n \in 1 .. Len(queue') :
             n \in 1 .. Len(queue) \/ n = k
      BY <1>3
    <3>3. \A n \in 1 .. Len(queue) : Waits(n, r)' <=> Waits(n, r)
      BY <1>1, <1>3 DEF Waits
    <3>4. Searchable(r)' <=> Searchable(r)
      BY <1>1 DEF Searchable, ChunksOf, ContentOf
    <3>5. Rewritten(r) => Rewritten(r)'
      BY <1>1, <2>3 DEF Rewritten
    <3>6. ASSUME LastWaits(r)
          PROVE  LastWaits(r)'
      <4>1. PICK n \in 1 .. Len(queue) :
              /\ Waits(n, r) /\ arg[queue[n]].content = sources[r].hash
              /\ \A m \in 1 .. Len(queue) : Waits(m, r) => m <= n
        BY <3>6 DEF LastWaits
      <4>2. n \in 1 .. Len(queue') /\ Waits(n, r)'
        BY <1>3, <3>3, <4>1
      <4>3. \A m \in 1 .. Len(queue') : Waits(m, r)' => m <= n
        BY <3>1, <3>2, <3>3, <4>1
      <4>4. QED
        BY <1>1, <1>3, <4>1, <4>2, <4>3 DEF LastWaits
    <3>7. NoneWaits(r) => NoneWaits(r)'
      BY <3>1, <3>2, <3>3 DEF NoneWaits
    <3>8. (LastRuns(r) => LastRuns(r)') /\ (Settled(r) => Settled(r)')
      BY <1>1, <3>4 DEF LastRuns, Settled, Works
    <3>9. QED
      BY <2>1, <3>5, <3>6, <3>7, <3>8 DEF Current
  <2>4. QED
    BY <2>2, <2>3
<1>5. QED
  BY <1>2, <1>4

LEMMA RequestCurrent ==
    ASSUME NInv, NEW i \in Requests, RequestStep(i)
    PROVE  Handed' /\ stalled' = {} /\ \A r \in Rows : Exists(r)' => Current(r)'
<1> USE DEF NInv, SInv, IInv, TInv
<1>a. /\ pc[i] \in InFlight /\ UNCHANGED <<arg, stalled>>
      /\ \A j \in Requests : j # i => pc'[j] = pc[j] /\ seen'[j] = seen[j]
  BY RequestMoves
<1>b. \A j \in Requests : pc[j] \in Holding =>
         seen[j] \in Entity /\ seen[j].id \in Rows /\ Exists(seen[j].id)
  BY DEF Shape, Entity, HeldRowLives
\* Handed, once the row and the text of the others' are kept.
<1>c. ASSUME \A j \in Requests : j # i /\ pc[j] = "enqueue" =>
                 sources'[seen[j].id].hash = sources[seen[j].id].hash,
             pc'[i] = "enqueue" => sources'[seen'[i].id].hash = arg[i].content
      PROVE  Handed'
  BY <1>a, <1>c DEF Handed
<1>1. CASE Find(i) \/ Lookup(i) \/ (Insert(i) /\ UNCHANGED sources)
  <2>1. UNCHANGED <<sources, chunks>> /\ ~ Enqueue(i) /\ pc[i] # "update"
    BY <1>1 DEF Find, Lookup, Insert, Enqueue
  <2>2. pc'[i] # "enqueue"
    <3>1. CASE Find(i) \/ Lookup(i)
      BY <3>1 DEF Find, Lookup, Advance, TypeOK
    <3>2. CASE Insert(i) /\ UNCHANGED sources
      <4>1. SUFFICES ASSUME pc'[i] \in Holding PROVE FALSE
        BY DEF Holding
      <4>2. CASE Advance(i, "done")
        BY <4>1, <4>2 DEF Advance, TypeOK, Holding
      <4>3. CASE \E r \in FreshIds : sources' = [sources EXCEPT ![r] =
                      [key |-> arg[i].key, user |-> arg[i].user,
                       hash |-> arg[i].content, status |-> "pending"]]
        <5>1. PICK r \in FreshIds : sources' = [sources EXCEPT ![r] =
                      [key |-> arg[i].key, user |-> arg[i].user,
                       hash |-> arg[i].content, status |-> "pending"]]
          BY <4>3
        <5>2. r \in Rows /\ ~ Exists(r)
          BY <5>1 DEF FreshIds, Binding
        <5>3. arg[i] \in Arg
          BY <3>2 DEF Insert, Shape
        <5>4. sources'[r] \in Source
          BY <5>1, <5>2, <5>3 DEF TypeOK, Arg, Source, Statuses
        <5>5. QED
          BY <3>2, <5>2, <5>4, EntityNotNoRow DEF Exists
      <4>4. QED
        BY <3>2, <4>2, <4>3 DEF Insert
    <3>3. QED
      BY <1>1, <3>1, <3>2
  <2>3. Handed'
    BY <1>c, <2>1, <2>2
  <2>4. ASSUME NEW r \in Rows, Exists(r)'
        PROVE  Current(r)'
    BY <2>1, <2>4, UntouchedRow DEF Exists, ChunksOf
  <2>5. QED
    BY <1>a, <2>3, <2>4
<1>2. CASE Purge(i)
  <2>1. /\ pc[i] \in Holding /\ pc'[i] = "update" /\ ~ Enqueue(i)
        /\ pc[i] = "purge"
        /\ UNCHANGED <<sources, seen>>
        /\ chunks' = chunks \ ChunksOf(seen[i].id)
    BY <1>2 DEF Purge, Enqueue, Advance, TypeOK, Holding
  <2>2. Handed'
    BY <1>c, <2>1
  <2>3. Rewritten(seen[i].id)'
    BY <2>1 DEF Rewritten
  <2>4. ASSUME NEW r \in Rows, Exists(r), r # seen[i].id
        PROVE  Current(r)'
    BY <2>1, <2>4, UntouchedRow DEF ChunksOf
  <2>5. QED
    BY <1>a, <2>1, <2>2, <2>3, <2>4 DEF Current, Exists
<1>3. CASE Update(i)
  <2>1. /\ pc[i] \in Holding /\ pc'[i] = "enqueue" /\ ~ Enqueue(i)
        /\ UNCHANGED <<chunks, seen>>
    BY <1>3, UpdateFinds DEF Update, Enqueue, Advance, TypeOK, Holding
  <2>2. /\ \A r \in Rows : r # seen[i].id => sources'[r] = sources[r]
        /\ sources'[seen[i].id].hash = arg[i].content
    BY <1>3, UpdatedRow
  <2>3. \A j \in Requests : j # i /\ pc[j] = "enqueue" => seen[j].id # seen[i].id
    BY <2>1, OneHolder DEF Holding
  <2>4. Handed'
    BY <1>b, <1>c, <2>1, <2>2, <2>3 DEF Holding
  <2>5. Rewritten(seen[i].id)'
    BY <2>1 DEF Rewritten
  <2>6. ASSUME NEW r \in Rows, Exists(r)', r # seen[i].id
        PROVE  Current(r)'
    <3>1. sources'[r] = sources[r] /\ Exists(r)
      BY <2>2, <2>6 DEF Exists
    <3>2. ChunksOf(r) \subseteq chunks'
      BY <2>1 DEF ChunksOf
    <3>3. QED
      BY <2>1, <2>6, <3>1, <3>2, UntouchedRow
  <2>7. QED
    BY <1>a, <2>1, <2>4, <2>5, <2>6 DEF Current
<1>4. CASE Insert(i) /\ ~ UNCHANGED sources
  <2>1. PICK r \in Rows \ born :
              /\ ~ Exists(r)
              /\ \A q \in Rows : q # r => sources'[q] = sources[q]
              /\ sources'[r].hash = arg[i].content
              /\ seen'[i].id = r
              /\ pc'[i] = "enqueue"
    BY <1>4, InsertedRow
  <2>2. UNCHANGED chunks /\ pc[i] = "insert" /\ ~ Enqueue(i)
    BY <1>4 DEF Insert, Enqueue
  <2>3. Handed'
    <3>1. \A j \in Requests : pc[j] = "enqueue" => seen[j].id # r
      BY <1>b, <2>1 DEF Holding
    <3>2. QED
      BY <1>b, <1>c, <2>1, <3>1 DEF Holding
  <2>4. Rewritten(r)'
    BY <2>1 DEF Rewritten
  <2>5. ASSUME NEW q \in Rows, Exists(q)', q # r
        PROVE  Current(q)'
    <3>1. sources'[q] = sources[q] /\ Exists(q)
      BY <2>1, <2>5 DEF Exists
    <3>2. ChunksOf(q) \subseteq chunks'
      BY <2>2 DEF ChunksOf
    <3>3. QED
      BY <1>4, <2>2, <2>5, <3>1, <3>2, UntouchedRow
  <2>6. QED
    BY <1>a, <2>3, <2>4, <2>5 DEF Current
<1>5. CASE Remove(i)
  <2>1. /\ pc[i] \in Holding /\ pc'[i] = "done" /\ UNCHANGED seen
        /\ pc[i] = "remove" /\ ~ Enqueue(i)
        /\ sources' = [sources EXCEPT ![seen[i].id] = NoRow]
        /\ chunks' = chunks \ ChunksOf(seen[i].id)
    BY <1>5 DEF Remove, Enqueue, Advance, TypeOK, Holding
  <2>2. /\ \A r \in Rows : r # seen[i].id => sources'[r] = sources[r]
        /\ ~ Exists(seen[i].id)'
    BY <1>b, <2>1 DEF TypeOK, Exists
  <2>3. \A j \in Requests : j # i /\ pc[j] = "enqueue" => seen[j].id # seen[i].id
    BY <2>1, OneHolder DEF Holding
  <2>4. Handed'
    BY <1>b, <1>c, <2>1, <2>2, <2>3 DEF Holding
  <2>5. ASSUME NEW r \in Rows, Exists(r)'
        PROVE  Current(r)'
    <3>1. r # seen[i].id
      BY <2>1, <2>2, <2>5
    <3>2. sources'[r] = sources[r] /\ Exists(r)
      BY <2>2, <2>5, <3>1 DEF Exists
    <3>3. ChunksOf(r) \subseteq chunks'
      BY <2>1, <3>1 DEF ChunksOf
    <3>4. QED
      BY <2>1, <2>5, <3>2, <3>3, UntouchedRow
  <2>6. QED
    BY <1>a, <2>4, <2>5
<1>6. CASE Enqueue(i)
  BY <1>a, <1>6, EnqueueCurrent
<1>7. QED
  BY <1>1, <1>2, <1>3, <1>4, <1>5, <1>6 DEF RequestStep

\* What the worker's job is about.
LEMMA AtWork ==
    ASSUME NInv, NEW w \in Workers, worker[w].pc \in {"embed", "complete", "fail"}
    PROVE  /\ worker[w] \in Active /\ worker[w] # Idle
           /\ worker[w].job \in OpenJobs
           /\ seen[worker[w].job].id \in Rows
<1> USE DEF NInv, SInv, IInv, TInv
<1>1. worker[w] \in Active /\ worker[w] # Idle
  BY DEF TypeOK, Idle, Active
<1>2. worker[w].job \in OpenJobs
  BY <1>1 DEF OpenJobs, ActiveJobs
<1>3. QED
  BY <1>1, <1>2, OpenIsDone DEF Entity

\* A worker takes the first job of the line; the last of the jobs for a row
\* stays the last, or is the one it took.
LEMMA TakeCurrent ==
    ASSUME NInv, SteadyHost, NEW w \in Workers, Take(w), NEW r \in Rows, Current(r)
    PROVE  Current(r)'
<1> USE DEF NInv, SInv, IInv, TInv
<1>1. /\ worker[w] = Idle /\ queue # <<>>
      /\ queue' = Tail(queue)
      /\ worker' = [worker EXCEPT ![w] = [pc |-> "embed", job |-> Head(queue)]]
      /\ sources' = WithStatus(seen[Head(queue)].id, "processing")
      /\ UNCHANGED <<chunks, pc, arg, seen>>
  BY DEF Take, requestVars, RowOf
<1>2. /\ Len(queue') = Len(queue) - 1 /\ Len(queue) \in Nat /\ Len(queue) > 0
      /\ \A n \in 1 .. Len(queue') : queue'[n] = queue[n + 1]
      /\ Head(queue) = queue[1]
  BY <1>1 DEF TypeOK
<1>3. seen[Head(queue)].id \in Rows
  <2>1. 1 \in 1 .. Len(queue)
    BY <1>2
  <2>2. Head(queue) \in OpenJobs
    BY <1>2, <2>1 DEF OpenJobs, WaitingJobs
  <2>3. QED
    BY <2>2, OpenIsDone DEF Entity
<1>4. /\ sources'[r].hash = sources[r].hash
      /\ r # seen[Head(queue)].id => sources'[r] = sources[r]
  <2>1. /\ \A q \in Rows : q # seen[Head(queue)].id => sources'[q] = sources[q]
        /\ ~ Exists(seen[Head(queue)].id) =>
               sources'[seen[Head(queue)].id] = sources[seen[Head(queue)].id]
    BY <1>1, <1>3, StatusSet DEF Statuses
  <2>2. CASE Exists(r) /\ r = seen[Head(queue)].id
    <3>1. sources[r] \in Source
      BY <2>2 DEF Exists, TypeOK
    <3>2. sources'[r] = [sources[r] EXCEPT !.status = "processing"]
      BY <1>1, <2>2 DEF WithStatus, Exists, TypeOK
    <3>3. QED
      BY <2>2, <3>1, <3>2 DEF Source
  <2>3. QED
    BY <2>1, <2>2
<1>5. /\ worker'[w] = [pc |-> "embed", job |-> Head(queue)] /\ worker'[w] # Idle
      /\ \A v \in Workers : v = w
  BY <1>1 DEF TypeOK, SteadyHost, Idle
<1>6. \A n \in 1 .. Len(queue') :
         n + 1 \in 1 .. Len(queue) /\ (Waits(n, r)' <=> Waits(n + 1, r))
  BY <1>1, <1>2 DEF Waits
<1>7. CASE Rewritten(r)
  BY <1>1, <1>7 DEF Rewritten, Current
<1>8. CASE LastWaits(r)
  <2>1. PICK n \in 1 .. Len(queue) :
          /\ Waits(n, r) /\ arg[queue[n]].content = sources[r].hash
          /\ \A m \in 1 .. Len(queue) : Waits(m, r) => m <= n
    BY <1>8 DEF LastWaits
  <2>2. CASE n = 1
    <3>1. NoneWaits(r)'
      <4>1. SUFFICES ASSUME NEW m \in 1 .. Len(queue'), Waits(m, r)' PROVE FALSE
        BY DEF NoneWaits
      <4>2. m + 1 <= 1
        BY <1>6, <2>1, <2>2, <4>1
      <4>3. QED
        BY <1>2, <4>2
    <3>2. /\ Works(w, r)' /\ arg'[worker'[w].job].content = sources'[r].hash
          /\ worker'[w].pc # "complete"
      BY <1>1, <1>2, <1>4, <1>5, <2>1, <2>2 DEF Works, Waits
    <3>3. QED
      BY <3>1, <3>2 DEF LastRuns, Current
  <2>3. CASE n # 1
    <3>1. PICK k \in 1 .. Len(queue') : k + 1 = n
      <4>1. n - 1 \in 1 .. Len(queue') /\ (n - 1) + 1 = n
        BY <1>2, <2>1, <2>3
      <4>2. QED
        BY <4>1
    <3>2. Waits(k, r)' /\ arg'[queue'[k]].content = sources'[r].hash
      BY <1>1, <1>2, <1>4, <1>6, <2>1, <3>1
    <3>3. ASSUME NEW m \in 1 .. Len(queue'), Waits(m, r)'
          PROVE  m <= k
      <4>1. m + 1 <= n
        BY <1>6, <2>1, <3>3
      <4>2. QED
        BY <1>2, <3>1, <4>1
    <3>4. QED
      BY <3>2, <3>3 DEF LastWaits, Current
  <2>4. QED
    BY <2>2, <2>3
<1>9. CASE NoneWaits(r) /\ (LastRuns(r) \/ Settled(r))
  <2>1. NoneWaits(r)'
    BY <1>6, <1>9 DEF NoneWaits
  <2>2. r # seen[Head(queue)].id
    <3>1. 1 \in 1 .. Len(queue)
      BY <1>2
    <3>2. ~ Waits(1, r)
      BY <1>9, <3>1 DEF NoneWaits
    <3>3. QED
      BY <1>2, <3>1, <3>2 DEF Waits
  <2>3. ~ LastRuns(r)
    BY <1>1, <1>5 DEF LastRuns, Works
  <2>4. Settled(r)'
    <3>1. \A v \in Workers : ~ Works(v, r)'
      BY <1>1, <1>5, <2>2 DEF Works
    <3>2. Searchable(r) => Searchable(r)'
      BY <1>1, <1>4 DEF Searchable, ChunksOf, ContentOf
    <3>3. QED
      BY <1>4, <1>9, <2>2, <2>3, <3>1, <3>2 DEF Settled
  <2>5. QED
    BY <2>1, <2>4 DEF Current
<1>10. QED
  BY <1>7, <1>8, <1>9 DEF Current

\* What a worker does with its job leaves the line, and the rows that the job
\* is not for; for its own row what follows from the new state is enough.
LEMMA WorkedRow ==
    ASSUME NInv, SteadyHost, NEW w \in Workers, NEW r \in Rows, Current(r),
           worker[w] # Idle,
           UNCHANGED <<queue, pc, arg, seen>>,
           chunks \subseteq chunks',
           sources'[r].hash = sources[r].hash,
           Works(w, r) => \/ LastRuns(r) => LastRuns(r)' \/ Settled(r)'
                          \/ Rewritten(r),
           ~ Works(w, r) => /\ sources'[r] = sources[r]
                            /\ ~ Works(w, r)'
    PROVE  Current(r)'
<1>1. \A v \in Workers : v = w
  BY DEF SteadyHost
<1>2. Searchable(r) => Searchable(r)'
  BY DEF Searchable, ChunksOf, ContentOf
<1>3. Rewritten(r) => Rewritten(r)'
  BY DEF Rewritten
<1>4. \A n : Waits(n, r)' <=> Waits(n, r)
  BY DEF Waits
<1>5. LastWaits(r) => LastWaits(r)'
  BY <1>4 DEF LastWaits
<1>6. NoneWaits(r) => NoneWaits(r)'
  BY <1>4 DEF NoneWaits
<1>7. Works(w, r) => ~ Settled(r)
  BY DEF Settled
<1>8. ~ Works(w, r) => ~ LastRuns(r)
  BY <1>1 DEF LastRuns
<1>9. ~ Works(w, r) /\ Settled(r) => Settled(r)'
  BY <1>1, <1>2 DEF Settled
<1>10. QED
  BY <1>3, <1>5, <1>6, <1>7, <1>8, <1>9 DEF Current

\* A worker changes no more than the status of its row.
LEMMA WorkerRows ==
    ASSUME NInv, NEW w \in Workers, WorkerStep(w) \/ EmbedFault(w)
    PROVE  /\ UNCHANGED <<pc, arg, seen, stalled>>
           /\ \A r \in Rows : Exists(r)' <=> Exists(r)
           /\ \A r \in Rows : Exists(r) => /\ sources'[r].hash = sources[r].hash
                                           /\ sources'[r].key = sources[r].key
<1> USE DEF NInv, SInv, IInv, TInv
<1>a. /\ UNCHANGED <<pc, arg, seen, stalled>>
      /\ \A r \in Rows : Exists(r)' <=> Exists(r)
      /\ \A r \in Rows : Exists(r) => sources'[r].key = sources[r].key
  BY NextRowsKept
  DEF RowsKept, WorkerStep, Take, SaveChunks, Complete, Fail, EmbedFault,
      requestVars
<1>b. \A r \in Rows : Exists(r) => sources'[r].hash = sources[r].hash
  <2>1. ASSUME NEW q \in Rows, NEW s \in Statuses, sources' = WithStatus(q, s),
               NEW r \in Rows, Exists(r)
        PROVE  sources'[r].hash = sources[r].hash
    <3>1. CASE r = q
      <4>1. sources[r] \in Source
        BY <2>1 DEF Exists, TypeOK
      <4>2. sources'[r] = [sources[r] EXCEPT !.status = s]
        BY <2>1, <3>1 DEF WithStatus, Exists, TypeOK
      <4>3. QED
        BY <4>1, <4>2 DEF Source
    <3>2. CASE r # q
      BY <2>1, <3>2, StatusSet
    <3>3. QED
      BY <3>1, <3>2
  <2>2. CASE Take(w)
    <3>1. Head(queue) \in OpenJobs
      <4>1. Head(queue) \in WaitingJobs
        BY <2>2, WaitingTail DEF Take, TypeOK
      <4>2. QED
        BY <4>1 DEF OpenJobs
    <3>2. seen[Head(queue)].id \in Rows
      BY <3>1, OpenIsDone DEF Entity
    <3>3. QED
      BY <2>1, <2>2, <3>2 DEF Take, RowOf, Statuses
  <2>3. CASE Complete(w)
    BY <2>1, <2>3, AtWork DEF Complete, RowOf, JobOf, Statuses
  <2>4. CASE Fail(w)
    BY <2>1, <2>4, AtWork DEF Fail, RowOf, JobOf, Statuses
  <2>5. CASE SaveChunks(w) \/ EmbedFault(w)
    BY <2>5 DEF SaveChunks, EmbedFault
  <2>6. QED
    BY <2>2, <2>3, <2>4, <2>5 DEF WorkerStep
<1>c. QED
  BY <1>a, <1>b

LEMMA WorkerCurrent ==
    ASSUME NInv, SteadyHost, NEW w \in Workers, WorkerStep(w) \/ EmbedFault(w)
    PROVE  Handed' /\ stalled' = {} /\ \A r \in Rows : Exists(r)' => Current(r)'
<1> USE DEF NInv, SInv, IInv, TInv
<1> DEFINE j == worker[w].job
           row == seen[worker[w].job].id
<1>a. /\ UNCHANGED <<pc, arg, seen, stalled>>
      /\ \A r \in Rows : Exists(r)' <=> Exists(r)
  BY WorkerRows
<1>b. \A r \in Rows : Exists(r) => sources'[r].hash = sources[r].hash
  BY WorkerRows
<1>c. Handed'
  <2>1. \A i \in Requests : pc[i] = "enqueue" =>
           seen[i].id \in Rows /\ Exists(seen[i].id)
    BY DEF HeldRowLives, Holding, Shape, Entity
  <2>2. QED
    BY <1>a, <1>b, <2>1 DEF Handed
<1>d. \A r \in Rows : Works(w, r) => row = r
  BY DEF Works
<1>1. CASE Take(w)
  BY <1>a, <1>c, <1>1, TakeCurrent
<1>2. CASE SaveChunks(w) \/ EmbedFault(w)
  <2>1. /\ worker[w] # Idle /\ worker[w] \in Active /\ worker[w].pc = "embed"
        /\ UNCHANGED <<sources, queue>> /\ chunks \subseteq chunks'
    BY <1>2, AtWork DEF SaveChunks, EmbedFault
  <2>2. PICK p \in {"complete", "fail"} :
            /\ worker' = [worker EXCEPT ![w].pc = p]
            /\ p = "complete" => [row |-> row, job |-> j, run |-> stalls[j]] \in chunks'
    BY <1>2 DEF SaveChunks, EmbedFault, Step, JobOf, RowOf
  <2>3. worker'[w] = [pc |-> p, job |-> j]
    <3>1. worker'[w] = [worker[w] EXCEPT !.pc = p]
      BY <2>2 DEF TypeOK
    <3>2. QED
      BY <2>1, <3>1 DEF Active
  <2>4. worker'[w] # Idle /\ worker'[w].job = j /\ worker'[w].pc = p
    BY <2>3 DEF Idle
  <2>5. ASSUME NEW r \in Rows
        PROVE  Works(w, r)' <=> Works(w, r)
    BY <1>a, <2>1, <2>4 DEF Works
  <2>6. ASSUME NEW r \in Rows, Works(w, r), LastRuns(r)
        PROVE  LastRuns(r)'
    <3>1. arg[j].content = sources[r].hash
      BY <2>6 DEF LastRuns, SteadyHost
    <3>2. p = "complete" => Searchable(r)'
      <4>1. SUFFICES ASSUME p = "complete" PROVE Searchable(r)'
        OBVIOUS
      <4>2. PICK c \in chunks' : c.row = row /\ c.job = j
        BY <2>2, <4>1
      <4>3. QED
        BY <1>a, <1>d, <2>1, <2>6, <3>1, <4>2 DEF Searchable, ChunksOf, ContentOf
    <3>3. QED
      BY <1>a, <2>1, <2>4, <2>5, <2>6, <3>1, <3>2 DEF LastRuns
  <2>7. ASSUME NEW r \in Rows, Exists(r)'
        PROVE  Current(r)'
    BY <1>a, <2>1, <2>5, <2>6, <2>7, WorkedRow
  <2>8. QED
    BY <1>a, <1>c, <2>7
<1>3. CASE Complete(w) \/ Fail(w)
  <2>1. PICK s \in {"completed", "failed"} :
            /\ sources' = WithStatus(row, s)
            /\ s = "completed" => worker[w].pc = "complete"
    BY <1>3 DEF Complete, Fail, RowOf, JobOf
  <2>2. /\ worker[w] # Idle /\ row \in Rows
        /\ worker' = [worker EXCEPT ![w] = Idle]
        /\ UNCHANGED <<queue, chunks>>
    BY <1>3, AtWork DEF Complete, Fail, Release
  <2>3. worker'[w] = Idle /\ \A v \in Workers : v = w
    BY <2>2 DEF TypeOK, SteadyHost
  <2>4. \A r \in Rows : ~ Works(w, r)'
    BY <2>3 DEF Works
  <2>5. \A r \in Rows : r # row => sources'[r] = sources[r]
    BY <2>1, <2>2, StatusSet DEF Statuses
  <2>6. \A r \in Rows : r # row <=> ~ Works(w, r)
    BY <2>2 DEF Works
  <2>7. ASSUME NEW r \in Rows, Exists(r), Works(w, r), LastRuns(r)
        PROVE  Settled(r)'
    <3>1. sources'[r].status = s
      BY <2>1, <2>2, <2>6, <2>7, StatusSet DEF Statuses
    <3>2. s = "completed" => Searchable(r)
      BY <2>1, <2>3, <2>7 DEF LastRuns
    <3>3. Searchable(r) => Searchable(r)'
      BY <1>a, <1>b, <2>2, <2>7 DEF Searchable, ChunksOf, ContentOf
    <3>4. QED
      BY <2>3, <2>4, <3>1, <3>2, <3>3 DEF Settled
  <2>8. ASSUME NEW r \in Rows, Exists(r)'
        PROVE  Current(r)'
    BY <1>a, <1>b, <2>2, <2>4, <2>5, <2>6, <2>7, <2>8, WorkedRow
  <2>9. QED
    BY <1>a, <1>c, <2>8
<1>4. QED
  BY <1>1, <1>2, <1>3 DEF WorkerStep

LEMMA NextNInv ==
    ASSUME Arrivals = "serial", SteadyHost, NInv, [Next]_vars
    PROVE  NInv'
<1>1. SInv'
  BY NextSerial DEF NInv
<1>2. /\ ~ CrashFault
      /\ \A i \in Requests : ~ StoreFault(i) /\ ~ QueueStep(i)
      /\ \A w \in Workers : ~ WorkerStoreFault(w)
  BY DEF SteadyHost, CrashFault, StoreFault, WorkerStoreFault, QueueStep,
         Redeliver, GiveUp, NInv
<1>3. CASE UNCHANGED vars
  BY <1>1, <1>3
  DEF vars, NInv, Handed, Exists, Current, Rewritten, LastWaits, NoneWaits, Waits,
      LastRuns, Settled, Works, Searchable, ChunksOf, ContentOf
<1>4. CASE Next
  BY <1>1, <1>2, <1>4, ArriveCurrent, RequestCurrent, WorkerCurrent
  DEF Next, Fault, NInv
<1>5. QED
  BY <1>3, <1>4

LEMMA NInvCompleted == NInv => CompletedHasCurrentContent
<1>1. SUFFICES ASSUME NInv, NEW r \in Rows, Completed(r),
                      QuiescentOn(sources[r].key)
               PROVE  Searchable(r)
  BY DEF CompletedHasCurrentContent, Searchable
<1>a. TInv /\ Binding
  BY <1>1 DEF NInv, SInv, IInv
<1>2. Current(r) /\ Exists(r)
  BY <1>1 DEF NInv, Completed
<1>3. ASSUME NEW i \in Requests, seen[i].id = r, Holds(i)
      PROVE  /\ pc[i] \notin InFlight
             /\ i \notin OpenJobs
  <2>1. arg[i].key = sources[r].key
    BY <1>a, <1>2, <1>3 DEF Binding
  <2>2. /\ i \notin {j \in Requests : pc[j] \in InFlight /\ arg[j].key = sources[r].key}
        /\ i \notin {j \in OpenJobs : arg[j].key = sources[r].key}
    BY <1>1 DEF QuiescentOn, RequestsOn, JobsOn
  <2>3. QED
    BY <2>1, <2>2
<1>4. \A j \in OpenJobs : seen[j].id # r
  BY <1>a, <1>3, OpenIsDone, EntityNotNoRow DEF Holds
<1>5. ~ Rewritten(r)
  <2>1. SUFFICES ASSUME NEW i \in Requests, pc[i] \in {"update", "enqueue"},
                        seen[i].id = r
                 PROVE  FALSE
    BY DEF Rewritten
  <2>2. Holds(i)
    BY <1>a, <2>1, EntityNotNoRow DEF TInv, Shape, Holding, Holds
  <2>3. QED
    BY <1>3, <2>1, <2>2 DEF InFlight
<1>6. ~ LastWaits(r)
  BY <1>4 DEF LastWaits, Waits, OpenJobs, WaitingJobs
<1>7. ~ LastRuns(r)
  BY <1>4 DEF LastRuns, Works, OpenJobs, ActiveJobs
<1>8. QED
  BY <1>1, <1>2, <1>5, <1>6, <1>7 DEF Current, Settled, Completed

\* If requests for a record wait for one another, there is one worker and only
\* the provider fails, a COMPLETED source whose requests and jobs are through
\* can be found by its current text, whatever jobs for older texts left.
THEOREM CompletedIsCurrent ==
    ASSUME Arrivals = "serial", SteadyHost
    PROVE  Spec => []CompletedHasCurrentContent
<1>1. NInv /\ [Next]_vars => NInv'
  BY NextNInv
<1>2. QED
  BY InitNInv, <1>1, NInvCompleted, PTL DEF Spec
=============================================================================
