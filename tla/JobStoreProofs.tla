--------------------------- MODULE JobStoreProofs ---------------------------
(***************************************************************************)
(* Proofs about the in-memory job store, for every number of streams,     *)
(* every bound of the queues and of the events, and jobs of every origin. *)
(*                                                                         *)
(* IInv has five parts besides the types.  Stages: the entry's status and *)
(* its timer follow the job's coroutine and its soft limit.  Order: where  *)
(* every event is (in a queue, in a put that waits for the loop, with a    *)
(* stream), each is in one place only, a stream is ahead of its queue and  *)
(* a waiting put is behind everything.  CutFails: only of a job that fails *)
(* is a stream cut short.  And if an entry outlives the recording of its   *)
(* failure: Lost, a reader whose queue is not the job's shared it with a   *)
(* stream now closed; and Verdict, until the job is over there is one      *)
(* queue, and after it that queue has the verdict until a stream is told   *)
(* it, as long as none left or was cut short.                              *)
(*                                                                         *)
(* Events move in five ways (an emission, a worker's emission, a put the  *)
(* loop runs, a stream that begins, a delivery); each has a lemma that    *)
(* says what it does, and every other step leaves them where they are     *)
(* (Kinds).                                                                *)
(***************************************************************************)
EXTENDS JobStore, SequenceTheorems, TLAPS

-----------------------------------------------------------------------------
(* Queues.                                                                 *)

\* What queue p holds; a queue not yet made holds nothing.
Held(qs, p) == IF p \in 1..Len(qs) THEN qs[p] ELSE <<>>

\* No queue is longer than its bound.
Bounded(qs) ==
    QueueMaxSize > 0 => \A q \in 1..Len(qs) : Len(qs[q]) <= QueueMaxSize

\* Event e is put at the end of queue q, which may lose its first event.
PutInto(q, e) ==
    /\ \A p \in Nat : p # q => Held(queues', p) = Held(queues, p)
    /\ \E k \in {0, 1} :
          /\ Len(Held(queues', q)) = Len(Held(queues, q)) + 1 - k
          /\ \A i \in 1..(Len(Held(queues, q)) - k) :
                Held(queues', q)[i] = Held(queues, q)[i + k]
          /\ Held(queues', q)[Len(Held(queues', q))] = e
          /\ k = 1 => Held(queues, q) # <<>>

\* Nothing is put anywhere, nor taken.
HeldStay == \A p \in Nat : Held(queues', p) = Held(queues, p)

\* The bounds are numbers.
LEMMA Bounds ==
    QueueMaxSize \in Nat /\ MaxProgress \in Nat /\ MaxWorker \in Nat
BY QueueAssumption, BoundAssumption

\* Queues hold events.
LEMMA HeldType ==
    ASSUME NEW qs \in Seq(Seq(Event)), NEW p \in Nat
    PROVE /\ Held(qs, p) \in Seq(Event) /\ Len(Held(qs, p)) \in Nat
          /\ \A i \in 1..Len(Held(qs, p)) :
                Held(qs, p)[i] \in Event /\ Held(qs, p)[i].no \in Nat
<1>1. Held(qs, p) \in Seq(Event)
  <2>1. CASE p \in 1..Len(qs)
    BY <2>1, ElementOfSeq DEF Held
  <2>2. CASE p \notin 1..Len(qs)
    BY <2>2, EmptySeq DEF Held
  <2> QED  BY <2>1, <2>2
<1>2. \A i \in 1..Len(Held(qs, p)) : Held(qs, p)[i] \in Event
  BY <1>1, ElementOfSeq
<1>3. \A e \in Event : e.no \in Nat
  BY DEF Event
<1> QED
  BY <1>1, <1>2, <1>3, LenProperties

\* A put keeps the bound and the order of what stays.
LEMMA PutEffect ==
    ASSUME NEW q \in Seq(Event), NEW e \in Event
    PROVE LET r == PutWithOverflow(q, e) IN
          /\ r \in Seq(Event)
          /\ \E k \in {0, 1} :
                /\ Len(r) = Len(q) + 1 - k
                /\ \A i \in 1..(Len(q) - k) : r[i] = q[i + k]
                /\ r[Len(r)] = e
                /\ k = 1 => q # <<>>
          /\ QueueMaxSize > 0 /\ Len(q) <= QueueMaxSize =>
                 Len(r) <= QueueMaxSize
<1>1. Len(q) \in Nat
  BY LenProperties
<1>2. CASE QueueMaxSize = 0 \/ Len(q) < QueueMaxSize
  <2>1. PutWithOverflow(q, e) = Append(q, e)
    BY <1>2 DEF PutWithOverflow
  <2> QED  BY <1>1, <1>2, <2>1, AppendProperties, Bounds
<1>3. CASE ~(QueueMaxSize = 0 \/ Len(q) < QueueMaxSize)
  <2>1. PutWithOverflow(q, e) = Append(Tail(q), e)
    BY <1>3 DEF PutWithOverflow
  <2>2. Len(q) > 0 /\ q # <<>>
    BY <1>1, <1>3, Bounds, EmptySeq
  <2>3. /\ Tail(q) \in Seq(Event) /\ Len(Tail(q)) = Len(q) - 1
        /\ \A i \in 1..Len(Tail(q)) : Tail(q)[i] = q[i + 1]
    BY <2>2, HeadTailProperties
  <2> DEFINE r == Append(Tail(q), e)
  <2>4. /\ r \in Seq(Event) /\ Len(r) = Len(q)
        /\ \A i \in 1..(Len(q) - 1) : r[i] = q[i + 1]
        /\ r[Len(q)] = e
    BY <1>1, <2>3, AppendProperties
  <2> HIDE DEF r
  <2>5. \E k \in {0, 1} :
            /\ Len(r) = Len(q) + 1 - k
            /\ \A i \in 1..(Len(q) - k) : r[i] = q[i + k]
            /\ r[Len(r)] = e
            /\ k = 1 => q # <<>>
    <3> WITNESS 1 \in {0, 1}
    <3> QED  BY <1>1, <2>2, <2>4
  <2> QED  BY <2>1, <2>4, <2>5 DEF r
<1> QED
  BY <1>2, <1>3

\* _ensure_queue returns a queue there is, and adds at most an empty one.
LEMMA EnsureEffect ==
    ASSUME TypeOK
    PROVE /\ WithEnsuredQueue \in Seq(Seq(Event))
          /\ EnsuredQueue \in 1..Len(WithEnsuredQueue)
          /\ Len(queues) \in Nat /\ Len(queues) <= Len(WithEnsuredQueue)
          /\ \A p \in Nat :
                Held(WithEnsuredQueue, p) = Held(queues, p)
          /\ Bounded(WithEnsuredQueue)
          /\ current # 0 => EnsuredQueue = current /\ WithEnsuredQueue = queues
          /\ current = 0 => /\ EnsuredQueue = Len(queues) + 1
                            /\ Len(WithEnsuredQueue) = Len(queues) + 1
<1>1. /\ queues \in Seq(Seq(Event)) /\ Len(queues) \in Nat
      /\ current \in 0..Len(queues) /\ Bounded(queues)
  BY LenProperties DEF TypeOK, Bounded
<1>2. CASE current = 0
  <2>1. /\ EnsuredQueue = Len(queues) + 1
        /\ WithEnsuredQueue = Append(queues, <<>>)
    BY <1>1, <1>2 DEF EnsuredQueue, WithEnsuredQueue
  <2>2. <<>> \in Seq(Event) /\ Len(<<>>) = 0
    BY EmptySeq
  <2> DEFINE w == Append(queues, <<>>)
  <2>3. /\ w \in Seq(Seq(Event)) /\ Len(w) = Len(queues) + 1
        /\ \A p \in 1..Len(queues) : w[p] = queues[p]
        /\ w[Len(queues) + 1] = <<>>
    BY <1>1, <2>2, AppendProperties
  <2> HIDE DEF w
  <2>4. Bounded(w)
    <3> SUFFICES ASSUME QueueMaxSize > 0, NEW p \in 1..Len(w)
                 PROVE Len(w[p]) <= QueueMaxSize
      BY DEF Bounded
    <3>1. CASE p \in 1..Len(queues)
      BY <1>1, <2>3, <3>1 DEF Bounded
    <3>2. CASE p = Len(queues) + 1
      BY <2>2, <2>3, <3>2, Bounds
    <3> QED  BY <1>1, <2>3, <3>1, <3>2
  <2> QED  BY <1>1, <1>2, <2>1, <2>3, <2>4 DEF w, Held
<1>3. CASE current # 0
  <2>1. EnsuredQueue = current /\ WithEnsuredQueue = queues
    BY <1>1, <1>3 DEF EnsuredQueue, WithEnsuredQueue
  <2> QED  BY <1>1, <1>3, <2>1 DEF Held
<1> QED
  BY <1>2, <1>3

\* A put into one of a sequence of queues.
LEMMA PutIntoOne ==
    ASSUME NEW w \in Seq(Seq(Event)), NEW q \in 1..Len(w), NEW e \in Event,
           \A p \in Nat :
           Held(w, p) = Held(queues, p),
           Bounded(w),
           queues' = [w EXCEPT ![q] = PutWithOverflow(@, e)]
    PROVE /\ queues' \in Seq(Seq(Event)) /\ Len(queues') = Len(w)
          /\ Bounded(queues') /\ PutInto(q, e)
<1> DEFINE r == PutWithOverflow(w[q], e)
<1>1. w[q] \in Seq(Event) /\ Len(w) \in Nat
  BY ElementOfSeq, LenProperties
<1>2. /\ r \in Seq(Event)
      /\ QueueMaxSize > 0 /\ Len(w[q]) <= QueueMaxSize =>
             Len(r) <= QueueMaxSize
      /\ \E k \in {0, 1} :
            /\ Len(r) = Len(w[q]) + 1 - k
            /\ \A i \in 1..(Len(w[q]) - k) : r[i] = w[q][i + k]
            /\ r[Len(r)] = e
            /\ k = 1 => w[q] # <<>>
  BY <1>1, PutEffect
<1>3. queues' = [w EXCEPT ![q] = r]
  OBVIOUS
<1> HIDE DEF r
<1>4. /\ queues' \in Seq(Seq(Event)) /\ Len(queues') = Len(w)
      /\ \A p \in 1..Len(w) : queues'[p] = IF p = q THEN r ELSE w[p]
  BY <1>2, <1>3, ExceptSeq
<1>5. Bounded(queues')
  BY <1>2, <1>4 DEF Bounded
<1>6. /\ Held(queues', q) = r /\ Held(queues, q) = w[q]
      /\ \A p \in Nat : p # q => Held(queues', p) = Held(queues, p)
  BY <1>1, <1>4 DEF Held
<1> QED
  BY <1>2, <1>4, <1>5, <1>6 DEF PutInto

-----------------------------------------------------------------------------
(* Types, and what the steps that move events do.                          *)

CallType(n) == [queue : 1..n, event : Event]

\* The three groups of TypeOK.
JobTyped ==
    /\ producer \in {"extracting", "submitting", "pending", "running",
                     "failing", "ended"}
    /\ softLimit \in {"ahead", "passed", "crossed"}
    /\ status \in Status /\ timer \in {"off", "armed", "due"}
QueuesTyped ==
    /\ queues \in Seq(Seq(Event)) /\ Bounded(queues)
    /\ Len(queues) \in Nat /\ current \in 0..Len(queues)
    /\ calls \in Seq(CallType(Len(queues)))
    /\ emitted \in Nat
ClientsTyped ==
    /\ client \in [Clients -> {"new", "admitted"} \cup Open \cup Closed]
    /\ queue \in [Clients -> 0..Len(queues)]
    /\ \A c \in Clients : client[c] \in Open => queue[c] # 0
    /\ mustPoll \in [Clients -> BOOLEAN]
    /\ received \in [Clients -> Seq(Event)]

\* Together they are TypeOK.
LEMMA TypeSplit == TypeOK <=> JobTyped /\ QueuesTyped /\ ClientsTyped
<1>1. queues \in Seq(Seq(Event)) => Len(queues) \in Nat
  BY LenProperties
<1> QED
  BY <1>1 DEF TypeOK, JobTyped, QueuesTyped, ClientsTyped, Bounded, CallType

\* Calls stay typed when queues are added.
LEMMA CallsGrow ==
    ASSUME NEW m \in Nat, NEW n \in Nat, m <= n, NEW s \in Seq(CallType(m))
    PROVE s \in Seq(CallType(n))
<1>1. CallType(m) \subseteq CallType(n)
  BY DEF CallType
<1> QED
  BY <1>1, SeqMonotonic

\* The event a step emits.
Emitted(terminal, by) == [no |-> emitted + 1, terminal |-> terminal, by |-> by]

\* An emission puts its event into the job's queue.
LEMMA EmitEffect ==
    ASSUME TypeOK, NEW terminal \in BOOLEAN, Emit(terminal)
    PROVE /\ QueuesTyped' /\ Len(queues) <= Len(queues')
          /\ current' = EnsuredQueue /\ current' \in 1..Len(queues')
          /\ Len(queues') = Len(WithEnsuredQueue)
          /\ \E q \in Nat : /\ q = EnsuredQueue
                            /\ PutInto(q, Emitted(terminal, "loop"))
          /\ emitted' = emitted + 1 /\ emitted \in Nat /\ calls' = calls
<1> DEFINE w == WithEnsuredQueue
<1>0. PICK e \in Event : e = Emitted(terminal, "loop")
  <2>1. Emitted(terminal, "loop") \in Event
    BY DEF TypeOK, Event, Emitted
  <2> QED  BY <2>1
<1>1. emitted \in Nat /\ calls \in Seq(CallType(Len(queues)))
  BY DEF TypeOK, CallType
<1>2. /\ EnsuredQueue \in 1..Len(w) /\ w \in Seq(Seq(Event)) /\ Bounded(w)
      /\ Len(queues) \in Nat /\ Len(queues) <= Len(w) /\ Len(w) \in Nat
      /\ \A p \in Nat : Held(w, p) = Held(queues, p)
  BY EnsureEffect, LenProperties
<1>3. PICK q \in Nat : q = EnsuredQueue
  BY <1>2
<1>4. /\ current' = q /\ emitted' = emitted + 1 /\ calls' = calls
      /\ queues' = [w EXCEPT ![q] = PutWithOverflow(@, e)]
  BY <1>0, <1>3 DEF Emit, Emitted
<1> HIDE DEF w
<1>5. /\ queues' \in Seq(Seq(Event)) /\ Len(queues') = Len(w)
      /\ Bounded(queues') /\ PutInto(q, e)
  BY <1>2, <1>3, <1>4, PutIntoOne
<1>6. calls' \in Seq(CallType(Len(queues')))
  BY <1>1, <1>2, <1>4, <1>5, CallsGrow
<1>7. current' \in 1..Len(queues')
  BY <1>2, <1>3, <1>4, <1>5
<1>8. QueuesTyped'
  BY <1>1, <1>2, <1>4, <1>5, <1>6, <1>7 DEF QueuesTyped
<1>9. Len(queues') = Len(WithEnsuredQueue)
  BY <1>5 DEF w
<1> QED
  BY <1>0, <1>1, <1>2, <1>3, <1>4, <1>5, <1>7, <1>8, <1>9

\* The first call is of a queue there is.
LEMMA FirstCall ==
    ASSUME TypeOK, calls # <<>>
    PROVE /\ Head(calls) = calls[1] /\ 1 \in 1..Len(calls)
          /\ Len(calls) \in Nat
          /\ Head(calls) \in CallType(Len(queues))
          /\ Head(calls).queue \in 1..Len(queues)
          /\ Head(calls).queue \in Nat
          /\ Head(calls).event \in Event
          /\ Tail(calls) \in Seq(CallType(Len(queues)))
          /\ Len(Tail(calls)) = Len(calls) - 1
          /\ \A i \in 1..Len(Tail(calls)) : Tail(calls)[i] = calls[i + 1]
<1>1. calls \in Seq(CallType(Len(queues))) /\ Len(queues) \in Nat
  BY TypeSplit DEF QueuesTyped
<1>2. /\ Head(calls) \in CallType(Len(queues))
      /\ Tail(calls) \in Seq(CallType(Len(queues)))
      /\ Len(Tail(calls)) = Len(calls) - 1
      /\ \A i \in 1..Len(Tail(calls)) : Tail(calls)[i] = calls[i + 1]
  BY <1>1, HeadTailProperties
<1>3. Len(calls) \in Nat \ {0} /\ Head(calls) = calls[1]
  BY <1>1, EmptySeq
<1>4. Head(calls).queue \in 1..Len(queues) /\ Head(calls).event \in Event
  BY <1>2 DEF CallType
<1> QED
  BY <1>1, <1>2, <1>3, <1>4

\* The loop runs a worker's put.
LEMMA RunCallEffect ==
    ASSUME TypeOK, RunCall
    PROVE /\ calls # <<>> /\ QueuesTyped' /\ Len(queues') = Len(queues)
          /\ \E q \in Nat : /\ q = calls[1].queue /\ q \in 1..Len(queues)
                            /\ PutInto(q, calls[1].event)
          /\ calls[1].event \in Event
          /\ Len(calls) \in Nat \ {0} /\ Len(calls') = Len(calls) - 1
          /\ \A i \in 1..Len(calls') : calls'[i] = calls[i + 1]
          /\ UNCHANGED <<jobVars, current, emitted, clientVars>>
<1>1. /\ calls # <<>> /\ calls' = Tail(calls)
      /\ UNCHANGED <<jobVars, current, emitted, clientVars>>
  BY DEF RunCall
<1>2. /\ calls[1].queue \in 1..Len(queues) /\ calls[1].event \in Event
      /\ calls[1].queue \in Nat /\ Head(calls) = calls[1]
      /\ Tail(calls) \in Seq(CallType(Len(queues)))
  BY <1>1, FirstCall
<1>3. PICK q \in Nat, e \in Event : q = calls[1].queue /\ e = calls[1].event
  BY <1>2
<1>4. queues' = [queues EXCEPT ![q] = PutWithOverflow(@, e)]
  BY <1>2, <1>3 DEF RunCall
<1>5. QueuesTyped
  BY TypeSplit
<1>7. /\ queues' \in Seq(Seq(Event)) /\ Len(queues') = Len(queues)
      /\ Bounded(queues') /\ PutInto(q, e)
  BY <1>2, <1>3, <1>4, <1>5, PutIntoOne DEF QueuesTyped
<1>8. QueuesTyped'
  BY <1>1, <1>2, <1>5, <1>7 DEF QueuesTyped
<1> QED
  BY <1>1, <1>2, <1>3, <1>7, <1>8, FirstCall

\* A step that only makes the job's queue sure.
LEMMA EnsureStepEffect ==
    ASSUME TypeOK, current' = EnsuredQueue, queues' = WithEnsuredQueue
    PROVE /\ queues' \in Seq(Seq(Event)) /\ Bounded(queues')
          /\ Len(queues) \in Nat /\ Len(queues') \in Nat
          /\ Len(queues) <= Len(queues')
          /\ current' \in 1..Len(queues') /\ HeldStay
<1>1. Len(WithEnsuredQueue) \in Nat
  BY EnsureEffect, LenProperties
<1> QED
  BY <1>1, EnsureEffect DEF HeldStay, Held

\* A worker's emission hands the put to the loop.
LEMMA WorkerEmitEffect ==
    ASSUME TypeOK, WorkerEmit
    PROVE LET call == [queue |-> EnsuredQueue,
                       event |-> Emitted(FALSE, "worker")]
          IN  /\ QueuesTyped' /\ Len(queues) <= Len(queues') /\ HeldStay
              /\ current' = EnsuredQueue
              /\ Len(queues') = Len(WithEnsuredQueue)
              /\ calls' = Append(calls, call) /\ Len(calls) \in Nat
              /\ Len(calls') = Len(calls) + 1
              /\ \A i \in 1..Len(calls) : calls'[i] = calls[i]
              /\ calls'[Len(calls) + 1] = call
              /\ emitted' = emitted + 1 /\ emitted \in Nat
              /\ producer = "running" /\ UNCHANGED <<jobVars, clientVars>>
<1> DEFINE call == [queue |-> EnsuredQueue, event |-> Emitted(FALSE, "worker")]
           n == Len(queues')
<1>1. /\ current' = EnsuredQueue /\ queues' = WithEnsuredQueue
      /\ emitted' = emitted + 1 /\ calls' = Append(calls, call)
      /\ producer = "running" /\ UNCHANGED <<jobVars, clientVars>>
  BY DEF WorkerEmit, Emitted
<1>2. /\ queues' \in Seq(Seq(Event)) /\ Bounded(queues')
      /\ Len(queues) \in Nat /\ n \in Nat /\ Len(queues) <= n
      /\ current' \in 1..n /\ HeldStay
  BY <1>1, EnsureStepEffect
<1>3. emitted \in Nat /\ calls \in Seq(CallType(Len(queues)))
  BY TypeSplit DEF QueuesTyped
<1>4. calls \in Seq(CallType(n))
  BY <1>2, <1>3, CallsGrow
<1>5. call \in CallType(n)
  BY <1>1, <1>2, <1>3 DEF CallType, Event, Emitted
<1> HIDE DEF call
<1>6. /\ calls' \in Seq(CallType(n)) /\ Len(calls') = Len(calls) + 1
      /\ Len(calls) \in Nat
      /\ \A i \in 1..Len(calls) : calls'[i] = calls[i]
      /\ calls'[Len(calls) + 1] = call
  BY <1>1, <1>4, <1>5, AppendProperties, LenProperties
<1>7. QueuesTyped'
  BY <1>1, <1>2, <1>3, <1>6 DEF QueuesTyped
<1> QED
  BY <1>1, <1>2, <1>3, <1>6, <1>7 DEF call

\* Event e, the first of queue q, has moved to its reader c.
Delivered(c, q, e) ==
    /\ q = queue[c] /\ q \in 1..Len(queues)
    /\ Len(Held(queues, q)) \in Nat \ {0} /\ Held(queues, q)[1] = e
    /\ QueuesTyped' /\ Len(queues') = Len(queues)
    /\ \A p \in Nat : p # q => Held(queues', p) = Held(queues, p)
    /\ Len(Held(queues', q)) = Len(Held(queues, q)) - 1
    /\ \A i \in 1..(Len(Held(queues, q)) - 1) :
          Held(queues', q)[i] = Held(queues, q)[i + 1]
    /\ received' \in [Clients -> Seq(Event)]
    /\ \A d \in Clients : d # c => received'[d] = received[d]
    /\ Len(received[c]) \in Nat
    /\ Len(received'[c]) = Len(received[c]) + 1
    /\ \A i \in 1..Len(received[c]) : received'[c][i] = received[c][i]
    /\ received'[c][Len(received[c]) + 1] = e
    /\ client[c] = "waiting"
    /\ client' = [client EXCEPT ![c] = IF e.terminal THEN "tellingDone"
                                       ELSE "waiting"]
    /\ mustPoll' \in [Clients -> BOOLEAN]
    /\ UNCHANGED <<jobVars, current, calls, emitted, queue>>

\* A delivery moves the first event of the reader's queue to the reader.
LEMMA DeliverEffect ==
    ASSUME TypeOK, NEW c \in Clients, Deliver(c)
    PROVE \E q \in Nat, e \in Event : Delivered(c, q, e)
<1>1. QueuesTyped /\ ClientsTyped
  BY TypeSplit
<1>2. queue[c] \in 1..Len(queues) /\ Len(queues) \in Nat
  BY <1>1 DEF Deliver, QueuesTyped, ClientsTyped, Open
<1>3. PICK q \in Nat : q = queue[c] /\ q \in 1..Len(queues)
  BY <1>2
<1> DEFINE h == queues[q]
<1>4. h \in Seq(Event) /\ Held(queues, q) = h /\ h # <<>>
  BY <1>1, <1>3, ElementOfSeq DEF QueuesTyped, Held, Deliver
<1>5. PICK e \in Event : e = Head(h)
  BY <1>4, HeadTailProperties
<1>6. /\ client[c] = "waiting"
      /\ received' = [received EXCEPT ![c] = Append(@, e)]
      /\ client' = [client EXCEPT ![c] = IF e.terminal THEN "tellingDone"
                                         ELSE "waiting"]
      /\ queues' = [queues EXCEPT ![q] = Tail(h)]
      /\ mustPoll' = [mustPoll EXCEPT ![c] = @ /\ ~e.terminal]
      /\ UNCHANGED <<jobVars, current, calls, emitted, queue>>
  BY <1>3, <1>5 DEF Deliver, Moves
<1>7. /\ e = h[1] /\ Len(h) \in Nat \ {0}
      /\ Tail(h) \in Seq(Event) /\ Len(Tail(h)) = Len(h) - 1
      /\ \A i \in 1..Len(Tail(h)) : Tail(h)[i] = h[i + 1]
  BY <1>4, <1>5, HeadTailProperties, EmptySeq
<1>8. PICK t \in Seq(Event) : t = Tail(h)
  BY <1>7
<1>9. /\ queues' \in Seq(Seq(Event)) /\ Len(queues') = Len(queues)
      /\ \A p \in 1..Len(queues) :
            queues'[p] = IF p = q THEN t ELSE queues[p]
  BY <1>1, <1>3, <1>6, <1>8, ExceptSeq DEF QueuesTyped
<1>10. /\ Held(queues', q) = t
       /\ \A p \in Nat : p # q => Held(queues', p) = Held(queues, p)
  BY <1>2, <1>3, <1>9 DEF Held
<1>11. Bounded(queues')
  <2> SUFFICES ASSUME QueueMaxSize > 0, NEW p \in 1..Len(queues)
               PROVE Len(queues'[p]) <= QueueMaxSize
    BY <1>9 DEF Bounded
  <2>1. Len(queues[p]) <= QueueMaxSize
    BY <1>1 DEF QueuesTyped, Bounded
  <2>2. CASE p = q
    <3>1. queues'[p] = t /\ Len(t) = Len(h) - 1 /\ Len(h) <= QueueMaxSize
      BY <1>7, <1>8, <1>9, <2>1, <2>2
    <3>2. Len(h) \in Nat
      BY <1>7
    <3> HIDE DEF h
    <3> QED  BY <3>1, <3>2, Bounds
  <2> QED  BY <1>9, <2>1, <2>2
<1>12. QueuesTyped'
  BY <1>1, <1>6, <1>9, <1>11 DEF QueuesTyped
<1>13. received \in [Clients -> Seq(Event)]
          /\ mustPoll \in [Clients -> BOOLEAN]
  BY <1>1 DEF ClientsTyped
<1>14. /\ Append(received[c], e) \in Seq(Event)
       /\ Len(received[c]) \in Nat
       /\ Len(Append(received[c], e)) = Len(received[c]) + 1
       /\ \A i \in 1..Len(received[c]) :
             Append(received[c], e)[i] = received[c][i]
       /\ Append(received[c], e)[Len(received[c]) + 1] = e
  BY <1>13, AppendProperties, LenProperties
<1>15. /\ received' \in [Clients -> Seq(Event)]
       /\ \A d \in Clients : d # c => received'[d] = received[d]
       /\ received'[c] = Append(received[c], e)
  BY <1>6, <1>13, <1>14
<1>16. mustPoll' \in [Clients -> BOOLEAN]
  BY <1>5, <1>6, <1>13 DEF Event
<1>17. /\ Len(Held(queues, q)) \in Nat \ {0} /\ Held(queues, q)[1] = e
       /\ Len(Held(queues', q)) = Len(Held(queues, q)) - 1
       /\ \A i \in 1..(Len(Held(queues, q)) - 1) :
             Held(queues', q)[i] = Held(queues, q)[i + 1]
  <2>1. Held(queues, q) = h /\ Held(queues', q) = t
    BY <1>4, <1>10
  <2>2. /\ e = h[1] /\ Len(h) \in Nat \ {0} /\ Len(t) = Len(h) - 1
        /\ \A i \in 1..Len(t) : t[i] = h[i + 1]
    BY <1>7, <1>8
  <2> HIDE DEF h
  <2> QED  BY <2>1, <2>2
<1> QED
  <2> WITNESS q \in Nat, e \in Event
  <2> QED
    BY <1>3, <1>6, <1>9, <1>10, <1>12, <1>14, <1>15, <1>16, <1>17
       DEF Delivered

\* The step moves no event, and no stream begins.
Idle ==
    /\ UNCHANGED <<queues, calls, emitted, queue, received>>
    /\ current' \in {0, current}
    /\ client' \in [Clients -> {"new", "admitted"} \cup Open \cup Closed]
    /\ \A c \in Clients :
          /\ client'[c] \in {"new", "admitted"} =>
                 client[c] \in {"new", "admitted"}
          /\ client'[c] \in Open => client[c] \in Open
    /\ mustPoll' \in [Clients -> BOOLEAN]

\* The job emits.
Emits == \E terminal \in BOOLEAN : Emit(terminal) /\ UNCHANGED clientVars

\* Every step is of one of six kinds.
LEMMA Kinds ==
    ASSUME TypeOK, [Next]_vars
    PROVE \/ Idle \/ Emits \/ WorkerEmit \/ RunCall
          \/ \E c \in Clients : Subscribe(c) \/ Deliver(c)
<1> DEFINE Goal == \/ Idle \/ Emits \/ WorkerEmit \/ RunCall
                   \/ \E c \in Clients : Subscribe(c) \/ Deliver(c)
<1>1. ClientsTyped
  BY TypeSplit
<1>2. CASE JobStep
  <2>1. CASE Submit \/ Run \/ Progress
    BY <2>1 DEF Submit, Run, Progress, Emits
  <2>2. CASE Complete \/ FailEvent \/ FailAtOnce \/ SoftDeadline \/ ChatFails
    BY <2>2 DEF Complete, FailEvent, FailAtOnce, SoftDeadline, ChatFails, Emits
  <2>3. CASE FailEntry
    BY <1>1, <2>3 DEF FailEntry, Idle, queueVars, clientVars, ClientsTyped
  <2> QED  BY <1>2, <2>1, <2>2, <2>3 DEF JobStep
<1>3. CASE StoreStep
  <2>1. CASE TtlNears
    BY <1>1, <2>1 DEF TtlNears, Idle, queueVars, ClientsTyped
  <2>2. CASE Expire \/ DeleteJob
    BY <1>1, <2>2 DEF Expire, DeleteJob, Idle, clientVars, ClientsTyped
  <2> QED  BY <1>3, <2>1, <2>2 DEF StoreStep
<1>4. ASSUME NEW c \in Clients, ClientStep(c) PROVE Goal
  <2> DEFINE State == {"new", "admitted"} \cup Open \cup Closed
  <2>1. CASE Admit(c)
    <3>1. /\ client' = [client EXCEPT ![c] = "admitted"]
          /\ client[c] = "new"
          /\ UNCHANGED <<queueVars, queue, mustPoll, received>>
      BY <2>1 DEF Admit, Moves
    <3> QED  BY <1>1, <3>1
             DEF Idle, queueVars, ClientsTyped, Open, Closing
  <2>2. CASE Ping(c)
    BY <1>1, <2>2 DEF Ping, NoLongerPolls, Idle, queueVars, ClientsTyped
  <2>3. CASE PollEnds(c)
    <3>1. /\ client' = [client EXCEPT ![c] = IF Ended THEN "polled"
                                             ELSE "cutShort"]
          /\ mustPoll' = [mustPoll EXCEPT ![c] = FALSE]
          /\ current' \in {0, current}
          /\ UNCHANGED <<queues, calls, emitted, queue, received>>
      BY <2>3 DEF PollEnds, Moves, DropQueue, NoLongerPolls
    <3> QED  BY <1>1, <3>1 DEF Idle, ClientsTyped, Open, Closing, Closed
  <2>4. CASE Disconnect(c)
    <3>1. /\ client' = [client EXCEPT ![c] =
                          IF client[c] = "waiting" THEN "leaving" ELSE "left"]
          /\ mustPoll' = [mustPoll EXCEPT ![c] = FALSE]
          /\ UNCHANGED <<queueVars, queue, received>>
      BY <2>4 DEF Disconnect, Moves, NoLongerPolls
    <3> QED  BY <1>1, <3>1
             DEF Idle, queueVars, ClientsTyped, Open, Closing, Closed
  <2>5. CASE Leave(c)
    <3>1. /\ client' = [client EXCEPT ![c] =
                          IF client[c] = "leaving" THEN "left" ELSE "told"]
          /\ current' \in {0, current}
          /\ UNCHANGED <<queues, calls, emitted, queue, mustPoll, received>>
      BY <2>5 DEF Leave, Moves, DropQueue
    <3> QED  BY <1>1, <3>1 DEF Idle, ClientsTyped, Open, Closing, Closed
  <2> QED  BY <1>4, <2>1, <2>2, <2>3, <2>4, <2>5 DEF ClientStep
<1>5. CASE UNCHANGED vars
  BY <1>1, <1>5 DEF vars, queueVars, clientVars, Idle, ClientsTyped
<1> QED
  BY <1>2, <1>3, <1>4, <1>5 DEF Next

\* A stream begins at the job's queue.
LEMMA SubscribeEffect ==
    ASSUME TypeOK, NEW c \in Clients, Subscribe(c)
    PROVE /\ QueuesTyped' /\ Len(queues) <= Len(queues') /\ HeldStay
          /\ Len(queues') = Len(WithEnsuredQueue)
          /\ current' = EnsuredQueue /\ current' \in 1..Len(queues')
          /\ client[c] = "admitted"
          /\ client' = [client EXCEPT ![c] = "waiting"]
          /\ queue' = [queue EXCEPT ![c] = current']
          /\ UNCHANGED <<jobVars, calls, emitted, mustPoll, received>>
<1>1. /\ current' = EnsuredQueue /\ queues' = WithEnsuredQueue
      /\ client[c] = "admitted"
      /\ client' = [client EXCEPT ![c] = "waiting"]
      /\ queue' = [queue EXCEPT ![c] = current']
      /\ UNCHANGED <<jobVars, calls, emitted, mustPoll, received>>
  BY DEF Subscribe, Moves
<1>2. /\ queues' \in Seq(Seq(Event)) /\ Bounded(queues')
      /\ Len(queues) \in Nat /\ Len(queues') \in Nat
      /\ Len(queues) <= Len(queues')
      /\ current' \in 1..Len(queues') /\ HeldStay
  BY <1>1, EnsureStepEffect
<1>3. calls' \in Seq(CallType(Len(queues'))) /\ emitted' \in Nat
  BY <1>1, <1>2, TypeSplit, CallsGrow DEF QueuesTyped
<1>4. QueuesTyped'
  BY <1>2, <1>3 DEF QueuesTyped
<1> QED
  BY <1>1, <1>2, <1>4

\* Every step keeps the queues typed and bounded.
LEMMA QueuesStep == ASSUME TypeOK, [Next]_vars PROVE QueuesTyped'
<1>1. CASE Idle
  <2>1. QueuesTyped
    BY TypeSplit
  <2> QED  BY <1>1, <2>1 DEF Idle, QueuesTyped
<1>2. CASE Emits
  BY <1>2, EmitEffect DEF Emits
<1>3. CASE WorkerEmit
  BY <1>3, WorkerEmitEffect
<1>4. CASE RunCall
  BY <1>4, RunCallEffect
<1>5. ASSUME NEW c \in Clients, Subscribe(c) PROVE QueuesTyped'
  BY <1>5, SubscribeEffect
<1>6. ASSUME NEW c \in Clients, Deliver(c) PROVE QueuesTyped'
  BY <1>6, DeliverEffect DEF Delivered
<1> QED
  BY <1>1, <1>2, <1>3, <1>4, <1>5, <1>6, Kinds

\* Queues are never taken away.
LEMMA QueuesGrow ==
    ASSUME TypeOK, [Next]_vars
    PROVE /\ Len(queues) \in Nat /\ Len(queues') \in Nat
          /\ Len(queues) <= Len(queues')
<1>1. Len(queues) \in Nat /\ Len(queues') \in Nat
  BY TypeSplit, QueuesStep DEF QueuesTyped
<1>2. CASE Idle
  BY <1>1, <1>2 DEF Idle
<1>3. CASE Emits
  BY <1>3, EmitEffect DEF Emits
<1>4. CASE WorkerEmit
  BY <1>4, WorkerEmitEffect
<1>5. CASE RunCall
  BY <1>1, <1>5, RunCallEffect
<1>6. ASSUME NEW c \in Clients, Subscribe(c) PROVE Len(queues) <= Len(queues')
  BY <1>6, SubscribeEffect
<1>7. ASSUME NEW c \in Clients, Deliver(c) PROVE Len(queues) <= Len(queues')
  BY <1>1, <1>7, DeliverEffect DEF Delivered
<1> QED
  BY <1>1, <1>2, <1>3, <1>4, <1>5, <1>6, <1>7, Kinds

\* Every step keeps the streams typed.
LEMMA ClientsStep == ASSUME TypeOK, [Next]_vars PROVE ClientsTyped'
<1>1. ClientsTyped
  BY TypeSplit
<1>2. queue \in [Clients -> 0..Len(queues')]
  BY <1>1, QueuesGrow DEF ClientsTyped
<1>3. CASE Idle
  BY <1>1, <1>2, <1>3 DEF Idle, ClientsTyped
<1>4. CASE UNCHANGED clientVars
  BY <1>1, <1>2, <1>4 DEF clientVars, ClientsTyped
<1>5. ASSUME NEW c \in Clients, Subscribe(c) PROVE ClientsTyped'
  <2>1. /\ current' \in 1..Len(queues') /\ Len(queues') \in Nat
        /\ client' = [client EXCEPT ![c] = "waiting"]
        /\ queue' = [queue EXCEPT ![c] = current']
        /\ UNCHANGED <<mustPoll, received>>
    BY <1>5, SubscribeEffect, QueuesGrow
  <2>2. current' \in 0..Len(queues') /\ current' # 0
    BY <2>1
  <2> QED  BY <1>1, <1>2, <2>1, <2>2 DEF ClientsTyped, Open
<1>6. ASSUME NEW c \in Clients, Deliver(c) PROVE ClientsTyped'
  <2>1. PICK e \in Event :
            /\ client[c] = "waiting"
            /\ client' = [client EXCEPT ![c] = IF e.terminal THEN "tellingDone"
                                               ELSE "waiting"]
            /\ received' \in [Clients -> Seq(Event)]
            /\ mustPoll' \in [Clients -> BOOLEAN]
            /\ queue' = queue
    BY <1>6, DeliverEffect DEF Delivered
  <2> QED  BY <1>1, <1>2, <2>1 DEF ClientsTyped, Open, Closing
<1> QED
  BY <1>3, <1>4, <1>5, <1>6, Kinds DEF Emits, WorkerEmit, RunCall

\* The entry's status and its timer follow the job's coroutine: an entry is
\* over only when the job has failed or ended, and a timer runs only then.  The
\* soft limit may make the entry early, or take its failure back.
Stages ==
    /\ producer = "extracting" => status = "absent"
    /\ producer = "submitting" =>
          \/ status = "absent"
          \/ origin = "scheduler" /\ status = "running"
    /\ producer = "pending" => status \in {"pending", "running"}
    /\ producer = "running" => status = "running"
    /\ producer = "failing" => status \in {"failed", "running", "absent"}
    /\ producer = "ended" => status # "pending"
    /\ timer # "off" => status \in TerminalStatus
    /\ ~TtlOvertakes =>
          /\ timer = "due" => producer = "ended"
          /\ producer = "failing" => status # "absent"

\* Every step keeps the job typed and its entry in step.
LEMMA JobStepKeeps ==
    ASSUME TypeOK, Stages, [Next]_vars PROVE JobTyped' /\ Stages'
<1> DEFINE Goal == JobTyped' /\ Stages'
<1>0. JobTyped
  BY TypeSplit
<1> USE <1>0 DEF JobTyped, Stages, TerminalStatus, Status
<1>1. CASE Submit \/ Run \/ Complete
  BY <1>1 DEF Submit, Run, Complete, SetJob
<1>2. CASE FailEntry \/ FailAtOnce \/ SoftDeadline
  BY <1>2 DEF FailEntry, FailAtOnce, SoftDeadline, Working, SetJob
<1>3. CASE Progress \/ FailEvent \/ ChatFails \/ WorkerEmit
  BY <1>3 DEF Progress, FailEvent, ChatFails, WorkerEmit, jobVars
<1>4. CASE StoreStep
  BY <1>4 DEF StoreStep, RunCall, TtlNears, Expire, DeleteJob, jobVars
<1>5. ASSUME NEW c \in Clients, ClientStep(c) PROVE Goal
  BY <1>5 DEF ClientStep, Admit, Subscribe, Deliver, Ping, PollEnds,
      Disconnect, Leave, jobVars
<1>6. CASE UNCHANGED vars
  BY <1>6 DEF vars, jobVars
<1> QED
  BY <1>1, <1>2, <1>3, <1>4, <1>5, <1>6 DEF Next, JobStep

-----------------------------------------------------------------------------
(* The order of events.                                                    *)

\* Event e may come before f: another event, and of one emitter an earlier.
Before(e, f) == e.no # f.no /\ (e.by = f.by => e.no < f.no)

\* Nobody has an event that was not emitted.
Numbered ==
    /\ \A p \in Nat : \A i \in 1..Len(Held(queues, p)) :
          Held(queues, p)[i].no <= emitted
    /\ \A k \in 1..Len(calls) : calls[k].event.no <= emitted
    /\ \A c \in Clients : \A i \in 1..Len(received[c]) :
          received[c][i].no <= emitted
\* A queue is in order, and shares no event with another.
QueueOrder ==
    \A p \in Nat : \A i, j \in 1..Len(Held(queues, p)) :
       i < j => Before(Held(queues, p)[i], Held(queues, p)[j])
QueuesApart ==
    \A p, q \in Nat : p # q =>
       \A i \in 1..Len(Held(queues, p)), j \in 1..Len(Held(queues, q)) :
          Held(queues, p)[i].no # Held(queues, q)[j].no
\* So is what a stream was given; it is ahead of what its queue holds.
StreamOrder ==
    \A c \in Clients : \A i, j \in 1..Len(received[c]) :
       i < j => Before(received[c][i], received[c][j])
StreamsApart ==
    \A c, d \in Clients : c # d =>
       \A i \in 1..Len(received[c]), j \in 1..Len(received[d]) :
          received[c][i].no # received[d][j].no
StreamsAhead ==
    \A c \in Clients, p \in Nat :
       \A i \in 1..Len(received[c]), j \in 1..Len(Held(queues, p)) :
          /\ received[c][i].no # Held(queues, p)[j].no
          /\ p = queue[c] => Before(received[c][i], Held(queues, p)[j])
\* The puts that wait for the loop are in order, and behind everything else.
CallsOrder ==
    \A i, j \in 1..Len(calls) : i < j => Before(calls[i].event, calls[j].event)
AfterAll(e) ==
    /\ \A p \in Nat : \A i \in 1..Len(Held(queues, p)) :
          Before(Held(queues, p)[i], e)
    /\ \A c \in Clients : \A i \in 1..Len(received[c]) :
          Before(received[c][i], e)
CallsLast ==
    \A k \in 1..Len(calls) :
       /\ calls[k].event.by = "worker" /\ ~calls[k].event.terminal
       /\ AfterAll(calls[k].event)
\* A stream that has not begun was given nothing.
Unread ==
    \A c \in Clients : client[c] \in {"new", "admitted"} => received[c] = <<>>

Carried ==
    QueueOrder /\ QueuesApart /\ StreamOrder /\ StreamsApart /\ StreamsAhead
Order == Carried /\ Numbered /\ CallsOrder /\ CallsLast /\ Unread

\* What a queue holds after a step it held before, in the same order, but for
\* event e at the end of queue q.
Places(q, e) ==
    \A p \in Nat : LET now == Held(queues', p)
                       old == Held(queues, p)
                   IN  /\ \A i \in 1..Len(now) :
                             \/ \E a \in 1..Len(old) : now[i] = old[a]
                             \/ p = q /\ now[i] = e
                       /\ \A i, j \in 1..Len(now) : i < j =>
                             \E a \in 1..Len(old) :
                                /\ now[i] = old[a]
                                /\ \/ \E b \in 1..Len(old) :
                                         a < b /\ now[j] = old[b]
                                   \/ p = q /\ now[j] = e

\* A put places its event last.
LEMMA PutPlaces ==
    ASSUME TypeOK, QueuesTyped', NEW q \in Nat, NEW e \in Event, PutInto(q, e)
    PROVE Places(q, e)
<1> SUFFICES ASSUME NEW p \in Nat,
                    NEW now, now = Held(queues', p),
                    NEW old, old = Held(queues, p)
             PROVE /\ \A i \in 1..Len(now) :
                         \/ \E a \in 1..Len(old) : now[i] = old[a]
                         \/ p = q /\ now[i] = e
                   /\ \A i, j \in 1..Len(now) : i < j =>
                         \E a \in 1..Len(old) :
                            /\ now[i] = old[a]
                            /\ \/ \E b \in 1..Len(old) :
                                     a < b /\ now[j] = old[b]
                               \/ p = q /\ now[j] = e
  BY DEF Places
<1>1. Len(now) \in Nat /\ Len(old) \in Nat
  BY HeldType DEF TypeOK, QueuesTyped
<1>2. CASE p # q
  <2>1. now = old
    BY <1>2 DEF PutInto
  <2> QED  BY <1>1, <2>1
<1>3. CASE p = q
  <2>1. PICK k \in {0, 1} :
            /\ Len(now) = Len(old) + 1 - k
            /\ \A i \in 1..(Len(old) - k) : now[i] = old[i + k]
            /\ now[Len(now)] = e
    BY <1>3 DEF PutInto
  <2>2. ASSUME NEW i \in 1..Len(now), i # Len(now)
        PROVE i + k \in 1..Len(old) /\ now[i] = old[i + k]
    <3>1. i \in 1..(Len(old) - k) /\ i + k \in 1..Len(old)
      BY <1>1, <2>1, <2>2
    <3> QED  BY <2>1, <3>1
  <2>3. ASSUME NEW i \in 1..Len(now), NEW j \in 1..Len(now), i < j
        PROVE /\ i # Len(now) /\ i + k < j + k
    BY <1>1, <2>3
  <2> QED  BY <1>3, <2>1, <2>2, <2>3
<1> QED
  BY <1>2, <1>3

\* An event that may follow all there are, placed last, keeps the order.
LEMMA CarriedPut ==
    ASSUME Carried, NEW q \in Nat, NEW e, Places(q, e), AfterAll(e),
           UNCHANGED <<queue, received>>
    PROVE Carried'
<1>1. QueueOrder'
  BY DEF Places, Carried, QueueOrder, AfterAll
<1>2. QueuesApart'
  <2> SUFFICES ASSUME NEW p \in Nat, NEW r \in Nat, p # r,
                      NEW i \in 1..Len(Held(queues', p)),
                      NEW j \in 1..Len(Held(queues', r))
               PROVE Held(queues', p)[i].no # Held(queues', r)[j].no
    BY DEF QueuesApart
  <2>1. \/ \E a \in 1..Len(Held(queues, p)) :
              Held(queues', p)[i] = Held(queues, p)[a]
        \/ p = q /\ Held(queues', p)[i] = e
    BY DEF Places
  <2>2. \/ \E b \in 1..Len(Held(queues, r)) :
              Held(queues', r)[j] = Held(queues, r)[b]
        \/ r = q /\ Held(queues', r)[j] = e
    BY DEF Places
  <2> QED  BY <2>1, <2>2 DEF Carried, QueuesApart, AfterAll, Before
<1>3. StreamsAhead'
  BY DEF Places, Carried, StreamsAhead, AfterAll, Before
<1> QED
  BY <1>1, <1>2, <1>3 DEF Carried, StreamOrder, StreamsApart

\* The length of a queue and of a stream is a number.
LEMMA Lengths ==
    ASSUME TypeOK, [Next]_vars
    PROVE /\ \A p \in Nat : Len(Held(queues, p)) \in Nat
                /\ Len(Held(queues', p)) \in Nat
          /\ \A c \in Clients :
                Len(received[c]) \in Nat /\ Len(received'[c]) \in Nat
          /\ Len(calls) \in Nat /\ Len(calls') \in Nat
<1>1. QueuesTyped /\ QueuesTyped' /\ ClientsTyped /\ ClientsTyped'
  BY TypeSplit, QueuesStep, ClientsStep
<1>2. \A p \in Nat :
          Len(Held(queues, p)) \in Nat /\ Len(Held(queues', p)) \in Nat
  BY <1>1, HeldType DEF QueuesTyped
<1>4. \A c \in Clients : received[c] \in Seq(Event)
         /\ received'[c] \in Seq(Event)
  BY <1>1 DEF ClientsTyped
<1>5. Len(calls) \in Nat /\ Len(calls') \in Nat
  BY <1>1, LenProperties DEF QueuesTyped
<1> QED
  BY <1>2, <1>4, <1>5, LenProperties

\* A new event is after all.
LEMMA NewIsAfterAll ==
    ASSUME TypeOK, Numbered, NEW e \in Event, e.no = emitted + 1
    PROVE /\ AfterAll(e)
          /\ \A k \in 1..Len(calls) : Before(calls[k].event, e)
<1>1. QueuesTyped /\ ClientsTyped
  BY TypeSplit
<1>2. \A f \in Event : f.no \in Nat
  BY DEF Event
<1>3. ASSUME NEW f \in Event, f.no <= emitted PROVE Before(f, e)
  BY <1>1, <1>2, <1>3 DEF Before, QueuesTyped
<1>4. \A p \in Nat : \A i \in 1..Len(Held(queues, p)) :
         Held(queues, p)[i] \in Event
  BY <1>1, HeldType DEF QueuesTyped
<1>5. ASSUME NEW c \in Clients, NEW i \in 1..Len(received[c])
      PROVE received[c][i] \in Event
  BY <1>1, ElementOfSeq DEF ClientsTyped
<1>6. ASSUME NEW k \in 1..Len(calls) PROVE calls[k].event \in Event
  <2>1. calls[k] \in CallType(Len(queues))
    BY <1>1, ElementOfSeq DEF QueuesTyped
  <2> QED  BY <2>1 DEF CallType
<1> QED
  BY <1>3, <1>4, <1>5, <1>6 DEF Numbered, AfterAll

\* Events keep their numbers.
LEMMA StillNumbered ==
    ASSUME TypeOK, Numbered, emitted' \in {emitted, emitted + 1}
    PROVE /\ \A p \in Nat : \A i \in 1..Len(Held(queues, p)) :
                Held(queues, p)[i].no <= emitted'
          /\ \A k \in 1..Len(calls) : calls[k].event.no <= emitted'
          /\ \A c \in Clients : \A i \in 1..Len(received[c]) :
                received[c][i].no <= emitted'
<1>1. QueuesTyped /\ ClientsTyped
  BY TypeSplit
<1>2. ASSUME NEW f \in Event, f.no <= emitted PROVE f.no <= emitted'
  BY <1>1, <1>2 DEF QueuesTyped, Event
<1>3. \A p \in Nat : \A i \in 1..Len(Held(queues, p)) :
         Held(queues, p)[i] \in Event
  BY <1>1, HeldType DEF QueuesTyped
<1>4. ASSUME NEW c \in Clients, NEW i \in 1..Len(received[c])
      PROVE received[c][i] \in Event
  BY <1>1, ElementOfSeq DEF ClientsTyped
<1>5. ASSUME NEW k \in 1..Len(calls) PROVE calls[k].event \in Event
  <2>1. calls[k] \in CallType(Len(queues))
    BY <1>1, ElementOfSeq DEF QueuesTyped
  <2> QED  BY <2>1 DEF CallType
<1> QED
  BY <1>2, <1>3, <1>4, <1>5 DEF Numbered

\* The job's emissions keep the order.
LEMMA OrderEmits == ASSUME TypeOK, Order, [Next]_vars, Emits PROVE Order'
<1>1. PICK terminal \in BOOLEAN : Emit(terminal) /\ UNCHANGED clientVars
  BY DEF Emits
<1>2. PICK q \in Nat : PutInto(q, Emitted(terminal, "loop"))
  BY <1>1, EmitEffect
<1>3. /\ QueuesTyped' /\ emitted' = emitted + 1 /\ emitted \in Nat
      /\ calls' = calls
  BY <1>1, EmitEffect
<1>4. PICK e \in Event : e = Emitted(terminal, "loop")
  <2>1. Emitted(terminal, "loop") \in Event
    BY <1>3 DEF Event, Emitted
  <2> QED  BY <2>1
<1>5. e.no = emitted + 1 /\ e.by = "loop"
  BY <1>4 DEF Emitted
<1>6. AfterAll(e) /\ \A k \in 1..Len(calls) : Before(calls[k].event, e)
  BY <1>5, NewIsAfterAll DEF Order
<1>7. PutInto(q, e)
  BY <1>2, <1>4
<1>8. Places(q, e)
  BY <1>3, <1>7, PutPlaces
<1>9. client' = client /\ queue' = queue /\ received' = received
  BY <1>1 DEF clientVars
<1>10. Carried'
  BY <1>6, <1>8, <1>9, CarriedPut, Lengths DEF Order
<1>11. Numbered'
  BY <1>3, <1>5, <1>8, <1>9, StillNumbered DEF Places, Numbered, Order
<1>12. CallsOrder'
  BY <1>3 DEF Order, CallsOrder
<1>13. CallsLast'
  <2> SUFFICES ASSUME NEW k \in 1..Len(calls)
               PROVE /\ calls[k].event.by = "worker"
                           /\ ~calls[k].event.terminal
                     /\ AfterAll(calls[k].event)'
    BY <1>3 DEF CallsLast
  <2> PICK f : f = calls[k].event
    OBVIOUS
  <2>1. f.by = "worker" /\ ~f.terminal /\ AfterAll(f) /\ Before(e, f)
    BY <1>5, <1>6 DEF Order, CallsLast, Before
  <2>2. ASSUME NEW p \in Nat, NEW i \in 1..Len(Held(queues', p))
        PROVE Before(Held(queues', p)[i], f)
    BY <1>8, <2>1 DEF Places, AfterAll
  <2> QED  BY <1>3, <1>9, <2>1, <2>2 DEF AfterAll
<1>14. Unread'
  BY <1>9 DEF Order, Unread
<1> QED
  BY <1>10, <1>11, <1>12, <1>13, <1>14 DEF Order

\* Where nothing moves, the order stays.
LEMMA CarriedStay ==
    ASSUME Carried, HeldStay, UNCHANGED <<queue, received>> PROVE Carried'
<1>1. QueueOrder'
  BY DEF HeldStay, Carried, QueueOrder
<1>2. QueuesApart'
  <2> SUFFICES ASSUME NEW p \in Nat, NEW q \in Nat, p # q,
                      NEW i \in 1..Len(Held(queues', p)),
                      NEW j \in 1..Len(Held(queues', q))
               PROVE Held(queues', p)[i].no # Held(queues', q)[j].no
    BY DEF QueuesApart
  <2>1. Held(queues', p) = Held(queues, p)
           /\ Held(queues', q) = Held(queues, q)
    BY DEF HeldStay
  <2> QED  BY <2>1 DEF Carried, QueuesApart
<1>3. StreamsAhead'
  BY DEF HeldStay, Carried, StreamsAhead
<1> QED
  BY <1>1, <1>2, <1>3 DEF Carried, StreamOrder, StreamsApart

\* What the loop gives a queue was behind everything else.
LEMMA OrderRunCall == ASSUME TypeOK, Order, [Next]_vars, RunCall PROVE Order'
<1>1. /\ QueuesTyped' /\ calls # <<>> /\ calls[1].event \in Event
      /\ Len(calls) \in Nat \ {0} /\ Len(calls') = Len(calls) - 1
      /\ \A i \in 1..Len(calls') : calls'[i] = calls[i + 1]
      /\ emitted' = emitted /\ client' = client /\ queue' = queue
      /\ received' = received
  BY RunCallEffect DEF clientVars
<1>2. PICK q \in Nat, e \in Event : e = calls[1].event /\ PutInto(q, e)
  BY <1>1, RunCallEffect
<1>3. Places(q, e)
  BY <1>1, <1>2, PutPlaces
<1>4. AfterAll(e) /\ e.no <= emitted
  BY <1>1, <1>2 DEF Order, CallsLast, Numbered
<1>5. Carried'
  BY <1>1, <1>3, <1>4, CarriedPut DEF Order
<1>6. ASSUME NEW k \in 1..Len(calls')
      PROVE k + 1 \in 1..Len(calls) /\ calls'[k] = calls[k + 1] /\ 1 < k + 1
  BY <1>1, <1>6
<1>7. Numbered'
  BY <1>1, <1>3, <1>4, <1>6 DEF Places, Numbered, Order
<1>8. CallsOrder'
  <2> SUFFICES ASSUME NEW i \in 1..Len(calls'), NEW j \in 1..Len(calls'), i < j
               PROVE Before(calls'[i].event, calls'[j].event)
    BY DEF CallsOrder
  <2>1. i + 1 < j + 1
    BY <1>1
  <2> QED  BY <1>6, <2>1 DEF Order, CallsOrder
<1>9. CallsLast'
  <2> SUFFICES ASSUME NEW k \in 1..Len(calls'), NEW f, f = calls'[k].event
               PROVE f.by = "worker" /\ ~f.terminal /\ AfterAll(f)'
    BY DEF CallsLast, AfterAll
  <2>1. f = calls[k + 1].event /\ Before(e, f)
    BY <1>1, <1>2, <1>6 DEF Order, CallsOrder
  <2>2. f.by = "worker" /\ ~f.terminal /\ AfterAll(f)
    BY <1>6, <2>1 DEF Order, CallsLast
  <2>3. ASSUME NEW p \in Nat, NEW i \in 1..Len(Held(queues', p))
        PROVE Before(Held(queues', p)[i], f)
    BY <1>3, <2>1, <2>2 DEF Places, AfterAll
  <2> QED  BY <1>1, <2>2, <2>3 DEF AfterAll
<1>10. Unread'
  BY <1>1 DEF Order, Unread
<1> QED
  BY <1>5, <1>7, <1>8, <1>9, <1>10 DEF Order

\* A worker's put goes behind everything else.
LEMMA OrderWorkerEmit ==
    ASSUME TypeOK, Order, [Next]_vars, WorkerEmit PROVE Order'
<1>1. PICK e : e = Emitted(FALSE, "worker")
  OBVIOUS
<1>2. /\ HeldStay /\ Len(calls) \in Nat /\ Len(calls') = Len(calls) + 1
      /\ \A i \in 1..Len(calls) : calls'[i] = calls[i]
      /\ calls'[Len(calls) + 1].event = e
      /\ emitted' = emitted + 1 /\ emitted \in Nat
      /\ client' = client /\ queue' = queue /\ received' = received
  <2>1. calls'[Len(calls) + 1] = [queue |-> EnsuredQueue, event |-> e]
    BY <1>1, WorkerEmitEffect
  <2>2. calls'[Len(calls) + 1].event = e
    BY <2>1
  <2> QED  BY <2>2, WorkerEmitEffect DEF clientVars
<1>3. /\ e \in Event /\ e.no = emitted + 1 /\ e.by = "worker" /\ ~e.terminal
  BY <1>1, <1>2 DEF Event, Emitted
<1>4. AfterAll(e) /\ \A k \in 1..Len(calls) : Before(calls[k].event, e)
  BY <1>3, NewIsAfterAll DEF Order
<1>5. ASSUME NEW k \in 1..Len(calls')
      PROVE \/ k \in 1..Len(calls) /\ calls'[k] = calls[k]
            \/ k = Len(calls) + 1 /\ calls'[k].event = e
  BY <1>2
<1>6. Carried'
  BY <1>2, CarriedStay DEF Order
<1>7. Numbered'
  <2>1. \A p \in Nat : \A i \in 1..Len(Held(queues', p)) :
           Held(queues', p)[i].no <= emitted'
    BY <1>2, StillNumbered DEF HeldStay, Order
  <2>2. \A k \in 1..Len(calls') : calls'[k].event.no <= emitted'
    BY <1>2, <1>3, <1>5, StillNumbered DEF Order
  <2>3. \A c \in Clients : \A i \in 1..Len(received'[c]) :
           received'[c][i].no <= emitted'
    BY <1>2, StillNumbered DEF Order
  <2> QED  BY <2>1, <2>2, <2>3 DEF Numbered
<1>8. CallsOrder'
  <2> SUFFICES ASSUME NEW i \in 1..Len(calls'), NEW j \in 1..Len(calls'), i < j
               PROVE Before(calls'[i].event, calls'[j].event)
    BY DEF CallsOrder
  <2>1. i \in 1..Len(calls) /\ calls'[i] = calls[i]
    BY <1>2
  <2> QED  BY <1>4, <1>5, <2>1 DEF Order, CallsOrder
<1>9. CallsLast'
  BY <1>2, <1>3, <1>4, <1>5 DEF HeldStay, Order, CallsLast, AfterAll
<1>10. Unread'
  BY <1>2 DEF Order, Unread
<1> QED
  BY <1>6, <1>7, <1>8, <1>9, <1>10 DEF Order

\* A stream that begins was given nothing yet.
LEMMA OrderSubscribe ==
    ASSUME TypeOK, Order, [Next]_vars, NEW c \in Clients, Subscribe(c)
    PROVE Order'
<1>1. /\ HeldStay /\ client[c] = "admitted"
      /\ client' = [client EXCEPT ![c] = "waiting"]
      /\ queue' = [queue EXCEPT ![c] = current']
      /\ calls' = calls /\ emitted' = emitted /\ received' = received
  BY SubscribeEffect
<1>2. /\ \A d \in Clients : d # c => queue'[d] = queue[d]
            /\ client'[d] = client[d]
      /\ client'[c] = "waiting"
  BY <1>1, TypeSplit DEF ClientsTyped
<1>3. received[c] = <<>> /\ Len(received[c]) = 0
  BY <1>1, EmptySeq DEF Order, Unread
<1>4. StreamsAhead'
  BY <1>1, <1>2, <1>3 DEF HeldStay, Order, Carried, StreamsAhead
<1>5. Carried'
  BY <1>1, <1>4 DEF HeldStay, Order, Carried, QueueOrder, QueuesApart,
      StreamOrder, StreamsApart
<1>6. Numbered' /\ CallsOrder'
  BY <1>1 DEF HeldStay, Order, Numbered, CallsOrder
<1>7. CallsLast' /\ Unread'
  BY <1>1, <1>2 DEF HeldStay, Order, CallsLast, AfterAll, Unread
<1> QED
  BY <1>5, <1>6, <1>7 DEF Order

\* A reader is given the first event of its queue.
LEMMA OrderDeliver ==
    ASSUME TypeOK, Order, [Next]_vars, NEW c \in Clients, Deliver(c)
    PROVE Order'
<1>1. PICK q \in Nat, e \in Event : Delivered(c, q, e)
  BY DeliverEffect
<1> USE DEF Delivered
\* What a queue holds it held, and the reader's own held it behind e.
<1>2. ASSUME NEW p \in Nat
      PROVE /\ \A i \in 1..Len(Held(queues', p)) :
                  \E a \in 1..Len(Held(queues, p)) :
                     /\ Held(queues', p)[i] = Held(queues, p)[a]
                     /\ p = q => 1 < a
            /\ \A i, j \in 1..Len(Held(queues', p)) : i < j =>
                  \E a, b \in 1..Len(Held(queues, p)) :
                     /\ a < b
                     /\ Held(queues', p)[i] = Held(queues, p)[a]
                     /\ Held(queues', p)[j] = Held(queues, p)[b]
  <2>1. CASE p # q
    BY <1>1, <2>1
  <2>2. CASE p = q
    <3>1. PICK n \in Nat \ {0} : n = Len(Held(queues, q))
      BY <1>1
    <3>2. ASSUME NEW i \in 1..(n - 1)
          PROVE /\ i + 1 \in 1..n /\ 1 < i + 1
                /\ Held(queues', q)[i] = Held(queues, q)[i + 1]
      BY <1>1, <3>1
    <3>3. \A i, j \in 1..(n - 1) : i < j => i + 1 < j + 1
      OBVIOUS
    <3>4. Len(Held(queues', q)) = n - 1
      BY <1>1, <3>1
    <3> QED  BY <2>2, <3>1, <3>2, <3>3, <3>4
  <2> QED  BY <2>1, <2>2
\* What a stream has it had, or it is e, the last.
<1>3. ASSUME NEW d \in Clients
      PROVE /\ \A i \in 1..Len(received'[d]) :
                  \/ i \in 1..Len(received[d])
                        /\ received'[d][i] = received[d][i]
                  \/ d = c /\ received'[d][i] = e
            /\ \A i, j \in 1..Len(received'[d]) : i < j =>
                  i \in 1..Len(received[d]) /\ received'[d][i] = received[d][i]
  <2>1. CASE d # c
    <3>1. received'[d] = received[d] /\ Len(received[d]) \in Nat
      BY <1>1, <2>1, Lengths
    <3> QED  BY <2>1, <3>1
  <2>2. CASE d = c
    <3>1. /\ Len(received[c]) \in Nat
          /\ Len(received'[c]) = Len(received[c]) + 1
          /\ \A i \in 1..Len(received[c]) : received'[c][i] = received[c][i]
          /\ received'[c][Len(received[c]) + 1] = e
      BY <1>1
    <3> HIDE DEF Delivered
    <3> QED  BY <2>2, <3>1
  <2> QED  BY <2>1, <2>2
\* The reader's event was in its queue.
<1>4. /\ \A p \in Nat : \A i \in 1..Len(Held(queues', p)) :
            /\ e.no # Held(queues', p)[i].no
            /\ p = q => Before(e, Held(queues', p)[i])
      /\ \A d \in Clients : \A i \in 1..Len(received[d]) :
            /\ received[d][i].no # e.no
            /\ d = c => Before(received[d][i], e)
      /\ \A k \in 1..Len(calls) : Before(e, calls[k].event)
      /\ e.no <= emitted
  <2>1. 1 \in 1..Len(Held(queues, q))
    BY <1>1
  <2>2. ASSUME NEW p \in Nat, NEW i \in 1..Len(Held(queues', p))
        PROVE /\ e.no # Held(queues', p)[i].no
              /\ p = q => Before(e, Held(queues', p)[i])
    <3>1. PICK a \in 1..Len(Held(queues, p)) :
              /\ Held(queues', p)[i] = Held(queues, p)[a]
              /\ p = q => 1 < a
      BY <1>2
    <3>2. CASE p = q
      BY <1>1, <2>1, <3>1, <3>2 DEF Order, Carried, QueueOrder, Before
    <3>3. CASE p # q
      <4>1. Held(queues, q)[1] = e
        BY <1>1
      <4> HIDE DEF Delivered
      <4> QED  BY <2>1, <3>1, <3>3, <4>1 DEF Order, Carried, QueuesApart
    <3> QED  BY <3>2, <3>3
  <2>3. ASSUME NEW d \in Clients, NEW i \in 1..Len(received[d])
        PROVE /\ received[d][i].no # e.no
              /\ d = c => Before(received[d][i], e)
    BY <1>1, <2>1 DEF Order, Carried, StreamsAhead
  <2>4. ASSUME NEW k \in 1..Len(calls) PROVE Before(e, calls[k].event)
    BY <1>1, <2>1 DEF Order, CallsLast, AfterAll
  <2>5. e.no <= emitted
    BY <1>1, <2>1 DEF Order, Numbered
  <2> QED  BY <2>2, <2>3, <2>4, <2>5
<1>5. QueueOrder'
  <2> SUFFICES ASSUME NEW p \in Nat, NEW i \in 1..Len(Held(queues', p)),
                      NEW j \in 1..Len(Held(queues', p)), i < j
               PROVE Before(Held(queues', p)[i], Held(queues', p)[j])
    BY DEF QueueOrder
  <2> QED  BY <1>2 DEF Order, Carried, QueueOrder
<1>6. QueuesApart'
  <2> SUFFICES ASSUME NEW p \in Nat, NEW r \in Nat, p # r,
                      NEW i \in 1..Len(Held(queues', p)),
                      NEW j \in 1..Len(Held(queues', r))
               PROVE Held(queues', p)[i].no # Held(queues', r)[j].no
    BY DEF QueuesApart
  <2>1. PICK a \in 1..Len(Held(queues, p)), b \in 1..Len(Held(queues, r)) :
            /\ Held(queues', p)[i] = Held(queues, p)[a]
            /\ Held(queues', r)[j] = Held(queues, r)[b]
    BY <1>2
  <2> QED  BY <2>1 DEF Order, Carried, QueuesApart
<1>7. StreamOrder' /\ StreamsApart'
  <2>1. ASSUME NEW d \in Clients, NEW i \in 1..Len(received'[d]),
               NEW j \in 1..Len(received'[d]), i < j
        PROVE Before(received'[d][i], received'[d][j])
    <3>1. i \in 1..Len(received[d]) /\ received'[d][i] = received[d][i]
      BY <1>3, <2>1
    <3>2. \/ j \in 1..Len(received[d]) /\ received'[d][j] = received[d][j]
          \/ d = c /\ received'[d][j] = e
      BY <1>3
    <3> QED  BY <1>4, <2>1, <3>1, <3>2 DEF Order, Carried, StreamOrder
  <2>2. ASSUME NEW d \in Clients, NEW f \in Clients, d # f,
               NEW i \in 1..Len(received'[d]), NEW j \in 1..Len(received'[f])
        PROVE received'[d][i].no # received'[f][j].no
    <3>1. \/ i \in 1..Len(received[d]) /\ received'[d][i] = received[d][i]
          \/ d = c /\ received'[d][i] = e
      BY <1>3
    <3>2. \/ j \in 1..Len(received[f]) /\ received'[f][j] = received[f][j]
          \/ f = c /\ received'[f][j] = e
      BY <1>3
    <3> QED  BY <1>4, <2>2, <3>1, <3>2 DEF Order, Carried, StreamsApart
  <2> QED  BY <2>1, <2>2 DEF StreamOrder, StreamsApart
<1>8. StreamsAhead'
  <2> SUFFICES ASSUME NEW d \in Clients, NEW p \in Nat,
                      NEW i \in 1..Len(received'[d]),
                      NEW j \in 1..Len(Held(queues', p))
               PROVE /\ received'[d][i].no # Held(queues', p)[j].no
                     /\ p = queue'[d] =>
                            Before(received'[d][i], Held(queues', p)[j])
    BY DEF StreamsAhead
  <2>1. CASE i \in 1..Len(received[d]) /\ received'[d][i] = received[d][i]
    <3>1. PICK a \in 1..Len(Held(queues, p)) :
              Held(queues', p)[j] = Held(queues, p)[a]
      BY <1>2
    <3> QED  BY <1>1, <2>1, <3>1 DEF Order, Carried, StreamsAhead
  <2>2. CASE d = c /\ received'[d][i] = e
    BY <1>1, <1>4, <2>2
  <2> QED  BY <1>3, <2>1, <2>2
<1>9. Numbered'
  <2>1. \A p \in Nat : \A i \in 1..Len(Held(queues', p)) :
           Held(queues', p)[i].no <= emitted
    BY <1>2 DEF Order, Numbered
  <2>2. \A d \in Clients : \A i \in 1..Len(received'[d]) :
           received'[d][i].no <= emitted
    BY <1>3, <1>4 DEF Order, Numbered
  <2> QED  BY <1>1, <2>1, <2>2 DEF Order, Numbered
<1>10. CallsOrder'
  BY <1>1 DEF Order, CallsOrder
<1>11. CallsLast'
  <2> SUFFICES ASSUME NEW k \in 1..Len(calls), NEW f, f = calls[k].event
               PROVE f.by = "worker" /\ ~f.terminal /\ AfterAll(f)'
    BY <1>1 DEF CallsLast, AfterAll
  <2>1. f.by = "worker" /\ ~f.terminal /\ AfterAll(f) /\ Before(e, f)
    BY <1>4 DEF Order, CallsLast
  <2>2. ASSUME NEW p \in Nat, NEW i \in 1..Len(Held(queues', p))
        PROVE Before(Held(queues', p)[i], f)
    BY <1>2, <2>1 DEF AfterAll
  <2>3. ASSUME NEW d \in Clients, NEW i \in 1..Len(received'[d])
        PROVE Before(received'[d][i], f)
    BY <1>3, <2>1 DEF AfterAll
  <2> QED  BY <1>1, <2>1, <2>2, <2>3 DEF AfterAll
<1>12. Unread'
  BY <1>1, TypeSplit DEF ClientsTyped, Order, Unread
<1> QED
  BY <1>5, <1>6, <1>7, <1>8, <1>9, <1>10, <1>11, <1>12 DEF Order, Carried

\* Every step keeps the order.
LEMMA OrderStep == ASSUME TypeOK, Order, [Next]_vars PROVE Order'
<1>1. CASE Idle
  BY <1>1 DEF Idle, Order, Carried, Numbered, QueueOrder, QueuesApart,
      StreamOrder, StreamsApart, StreamsAhead, CallsOrder, CallsLast, AfterAll,
      Unread
<1> QED
  BY <1>1, Kinds, OrderEmits, OrderWorkerEmit, OrderRunCall, OrderSubscribe,
     OrderDeliver

\* A reader sees each event at most once, and in order.
LEMMA OrderGivesOrderedOnce == ASSUME TypeOK, Order PROVE OrderedOnce
<1>1. ASSUME NEW c \in Clients, NEW i \in 1..Len(received[c]),
             NEW j \in 1..Len(received[c]), i < j
      PROVE Before(received[c][i], received[c][j])
  BY <1>1 DEF Order, Carried, StreamOrder
<1>2. ASSUME NEW c \in Clients, NEW d \in Clients,
             NEW i \in 1..Len(received[c]), NEW j \in 1..Len(received[d]),
             received[c][i].no = received[d][j].no
      PROVE c = d /\ i = j
  <2>1. c = d
    BY <1>2 DEF Order, Carried, StreamsApart
  <2>2. ~(i < j) /\ ~(j < i)
    BY <1>1, <1>2, <2>1 DEF Before
  <2> QED  BY <2>1, <2>2
<1> QED
  BY <1>1, <1>2 DEF OrderedOnce, Before

-----------------------------------------------------------------------------
(* Whose queue is lost.                                                    *)

\* The job has an entry, or may still make its first.
Known == status # "absent" \/ producer \in {"extracting", "submitting"}

\* A reader whose queue is not the job's shared it with a stream now closed.
Lost ==
    \A c \in Clients : client[c] = "waiting" /\ queue[c] # current /\ Known =>
       \E d \in Clients \ {c} : queue[d] = queue[c] /\ client[d] \in Closed

\* An entry that is gone does not come back, as long as it outlives the
\* recording of a failure.
LEMMA KnownStays ==
    ASSUME ~TtlOvertakes, TypeOK, Stages, [Next]_vars, Known' PROVE Known
<1> USE DEF Known, Stages
<1>1. CASE JobStep
  BY <1>1 DEF JobStep, Submit, Run, Progress, Complete, FailEntry, FailEvent,
      FailAtOnce, SoftDeadline, Working, ChatFails, WorkerEmit, jobVars
<1>2. CASE StoreStep
  BY <1>2 DEF StoreStep, RunCall, TtlNears, Expire, DeleteJob, jobVars
<1>3. ASSUME NEW c \in Clients, ClientStep(c) PROVE Known
  BY <1>3 DEF ClientStep, Admit, Subscribe, Deliver, Ping, PollEnds,
      Disconnect, Leave, jobVars
<1>4. CASE UNCHANGED vars
  BY <1>4 DEF vars, jobVars
<1> QED
  BY <1>1, <1>2, <1>3, <1>4 DEF Next

\* What becomes of a stream: closed it stays closed with its queue, gone or
\* told it stays so, and one that waits has waited or begins now.
LEMMA StreamMoves ==
    ASSUME TypeOK, [Next]_vars, NEW d \in Clients
    PROVE /\ client[d] \in Closed => client'[d] \in Closed
                /\ queue'[d] = queue[d]
          /\ client[d] \in {"leaving", "left"} =>
                 client'[d] \in {"leaving", "left"}
          /\ client[d] \in {"tellingDone", "told"} =>
                 client'[d] \in {"tellingDone", "told"}
          /\ client'[d] = "waiting" =>
                 \/ client[d] = "waiting" /\ queue'[d] = queue[d]
                 \/ Subscribe(d) /\ queue'[d] = current'
          /\ client'[d] = "polled" => client[d] = "polled" \/ PollEnds(d)
          /\ client'[d] = "cutShort" => client[d] = "cutShort" \/ PollEnds(d)
          /\ client[d] = "cutShort" => client'[d] = "cutShort"
<1> DEFINE Goal ==
      /\ client[d] \in Closed => client'[d] \in Closed /\ queue'[d] = queue[d]
      /\ client[d] \in {"leaving", "left"} =>
            client'[d] \in {"leaving", "left"}
      /\ client[d] \in {"tellingDone", "told"} =>
             client'[d] \in {"tellingDone", "told"}
      /\ client'[d] = "waiting" =>
             \/ client[d] = "waiting" /\ queue'[d] = queue[d]
             \/ Subscribe(d) /\ queue'[d] = current'
      /\ client'[d] = "polled" => client[d] = "polled" \/ PollEnds(d)
      /\ client'[d] = "cutShort" => client[d] = "cutShort" \/ PollEnds(d)
      /\ client[d] = "cutShort" => client'[d] = "cutShort"
<1>1. client \in [Clients -> {"new", "admitted"} \cup Open \cup Closed]
  BY TypeSplit DEF ClientsTyped
<1>2. queue \in [Clients -> 0..Len(queues)]
  BY TypeSplit DEF ClientsTyped
<1>3. CASE client' = client /\ queue' = queue
  BY <1>3
<1>4. ASSUME NEW c \in Clients, ClientStep(c), c # d PROVE Goal
  <2>1. client'[d] = client[d] /\ queue'[d] = queue[d]
    BY <1>1, <1>2, <1>4 DEF ClientStep, Admit, Subscribe, Deliver, Ping,
        PollEnds, Disconnect, Leave, Moves
  <2> QED  BY <2>1
<1>5. CASE ClientStep(d)
  <2>1. CASE Admit(d)
    BY <1>1, <2>1 DEF Admit, Moves, Closed
  <2>2. CASE Subscribe(d)
    BY <1>1, <1>2, <2>2 DEF Subscribe, Moves, Closed
  <2>3. CASE Deliver(d)
    BY <1>1, <2>3 DEF Deliver, Moves, Closed
  <2>4. CASE PollEnds(d)
    BY <1>1, <2>4 DEF PollEnds, PollElapses, Moves, Closed
  <2>5. CASE Disconnect(d)
    BY <1>1, <2>5 DEF Disconnect, Moves, Closed
  <2>6. CASE Leave(d)
    BY <1>1, <2>6 DEF Leave, Moves, Closed, Closing
  <2>7. CASE Ping(d)
    BY <1>3, <2>7 DEF Ping
  <2> QED  BY <1>5, <2>1, <2>2, <2>3, <2>4, <2>5, <2>6, <2>7 DEF ClientStep
<1>6. CASE JobStep \/ StoreStep \/ UNCHANGED vars
  BY <1>3, <1>6 DEF JobStep, Submit, Run, Progress, Complete, FailEntry,
      FailEvent, FailAtOnce, SoftDeadline, ChatFails, WorkerEmit, StoreStep, RunCall,
      TtlNears, Expire, DeleteJob, clientVars, vars
<1> QED
  BY <1>4, <1>5, <1>6 DEF Next

\* How the job comes to hold another queue, or none.
LEMMA CurrentMoves ==
    ASSUME ~TtlOvertakes, TypeOK, Stages, [Next]_vars
    PROVE \/ current' = current \/ current = 0 \/ ~Known'
          \/ \E d \in Clients : /\ current = queue[d] /\ queue' = queue
                                /\ client'[d] \in Closed
<1> DEFINE Goal ==
      \/ current' = current \/ current = 0 \/ ~Known'
      \/ \E d \in Clients : /\ current = queue[d] /\ queue' = queue
                            /\ client'[d] \in Closed
<1>1. \A terminal \in BOOLEAN : Emit(terminal) => Goal
  BY DEF Emit, EnsuredQueue
<1>2. CASE JobStep
  <2>1. CASE FailEntry
    BY <2>1 DEF FailEntry, queueVars
  <2>2. CASE WorkerEmit
    BY <2>2 DEF WorkerEmit, EnsuredQueue
  <2> QED  BY <1>1, <1>2, <2>1, <2>2 DEF JobStep, Submit, Run, Progress,
               Complete, FailEvent, FailAtOnce, SoftDeadline, ChatFails
<1>3. CASE StoreStep
  <2>1. CASE RunCall \/ TtlNears
    BY <2>1 DEF RunCall, TtlNears, queueVars
  <2>2. CASE Expire \/ DeleteJob
    <3>1. /\ producer' = producer /\ status' = "absent"
          /\ producer \notin {"extracting", "submitting"}
      BY <2>2 DEF Expire, DeleteJob, Stages, TerminalStatus
    <3> QED  BY <3>1 DEF Known, Stages
  <2> QED  BY <1>3, <2>1, <2>2 DEF StoreStep
<1>4. ASSUME NEW c \in Clients, ClientStep(c) PROVE Goal
  <2>1. CASE Subscribe(c)
    BY <2>1 DEF Subscribe, EnsuredQueue
  <2>2. CASE Admit(c) \/ Deliver(c) \/ Ping(c) \/ Disconnect(c)
    BY <2>2 DEF Admit, Deliver, Ping, Disconnect, queueVars
  <2>3. CASE PollEnds(c) \/ Leave(c)
    <3>1. /\ current' = IF current = queue[c] THEN 0 ELSE current
          /\ queue' = queue
          /\ \E to \in Closed : client' = [client EXCEPT ![c] = to]
      BY <2>3 DEF PollEnds, Leave, DropQueue, Moves, Closed
    <3>2. client'[c] \in Closed
      BY <3>1, TypeSplit DEF ClientsTyped
    <3> QED  BY <3>1, <3>2
  <2> QED  BY <1>4, <2>1, <2>2, <2>3 DEF ClientStep
<1>5. CASE UNCHANGED vars
  BY <1>5 DEF vars, queueVars
<1> QED
  BY <1>2, <1>3, <1>4, <1>5 DEF Next

\* Every step keeps it so: a queue is dropped by a stream that ends with it.
LEMMA LostStep ==
    ASSUME ~TtlOvertakes, TypeOK, Stages, Lost, [Next]_vars PROVE Lost'
<1> SUFFICES ASSUME NEW c \in Clients, client'[c] = "waiting",
                    queue'[c] # current', Known'
             PROVE \E d \in Clients \ {c} :
                       queue'[d] = queue'[c] /\ client'[d] \in Closed
  BY DEF Lost
<1>1. client[c] = "waiting" /\ queue'[c] = queue[c] /\ Known
  BY StreamMoves, KnownStays
<1>2. queue[c] # 0
  BY <1>1, TypeSplit DEF ClientsTyped, Open
<1>3. CASE queue[c] # current
  <2>1. PICK d \in Clients \ {c} : queue[d] = queue[c] /\ client[d] \in Closed
    BY <1>1, <1>3 DEF Lost
  <2> QED  BY <1>1, <2>1, StreamMoves
<1>4. CASE queue[c] = current
  <2>1. PICK d \in Clients : /\ current = queue[d] /\ queue' = queue
                             /\ client'[d] \in Closed
    BY <1>1, <1>2, <1>4, CurrentMoves
  <2>2. d # c
    BY <2>1 DEF Closed
  <2> QED  BY <1>4, <2>1, <2>2
<1> QED
  BY <1>3, <1>4

-----------------------------------------------------------------------------
(* Who is told the verdict.                                                *)

Polled == \E c \in Clients : client[c] = "polled"
Gone == \E c \in Clients : client[c] \in {"leaving", "left"}
Told == \E c \in Clients : client[c] \in {"tellingDone", "told"}
Cut == \E c \in Clients : client[c] = "cutShort"

\* No event of the loop is in a queue.
OnlyWorkers ==
    \A p \in Nat : \A i \in 1..Len(Held(queues, p)) :
       Held(queues, p)[i].by = "worker"

\* The job's one queue holds the verdict at i, with only puts of worker
\* threads behind it; or those puts alone, when they pushed it out (i = 0).
VerdictAt(h, i) ==
    /\ i = 0 \/ h[i].terminal
    /\ \A j \in 1..Len(h) : j > i => h[j].by = "worker"
VerdictAhead ==
    /\ Len(queues) = 1 /\ current = 1 /\ Len(Held(queues, 1)) > 0
    /\ \E i \in 0..Len(Held(queues, 1)) : VerdictAt(Held(queues, 1), i)

\* Until the job is over no stream is closed by a poll and the first queue is
\* the only one.  After it, the entry is gone; or a worker's late put is all
\* that the last reader saw; or the queue still has the verdict.
Phase ==
    \/ /\ producer # "ended" /\ ~Polled
       /\ \/ Len(queues) = 0 /\ current = 0
          \/ Len(queues) = 1 /\ current = 1
    \/ producer = "ended" /\ status = "absent" /\ ~Polled
    \/ producer = "ended" /\ OnlyWorkers /\ LateWorkerPut
    \/ producer = "ended" /\ ~Polled /\ VerdictAhead

\* As long as nobody has left, was told or was cut short.
Verdict == ~Gone /\ ~Told /\ ~Cut => Phase

\* Only of a job that fails is a stream cut short.
CutFails == Cut => producer \in {"failing", "ended"} /\ status # "completed"

\* Nobody comes back from being gone, told or cut short.
LEMMA GoneForGood ==
    ASSUME TypeOK, [Next]_vars, ~Gone', ~Told', ~Cut'
    PROVE ~Gone /\ ~Told /\ ~Cut
BY StreamMoves DEF Gone, Told, Cut

\* Every step keeps it so: no job that has failed completes.
LEMMA CutFailsStep ==
    ASSUME TypeOK, Stages, CutFails, [Next]_vars PROVE CutFails'
<1> SUFFICES ASSUME Cut'
             PROVE producer' \in {"failing", "ended"} /\ status' # "completed"
  BY DEF CutFails
<1>1. CASE Cut
  <2>1. producer \in {"failing", "ended"} /\ status # "completed"
    BY <1>1 DEF CutFails
  <2>2. CASE JobStep
    BY <2>1, <2>2 DEF JobStep, Submit, Run, Progress, Complete, FailEntry,
        FailEvent, FailAtOnce, SoftDeadline, ChatFails, WorkerEmit, SetJob
  <2>3. CASE StoreStep
    BY <2>1, <2>3 DEF StoreStep, RunCall, TtlNears, Expire, DeleteJob, jobVars
  <2>4. ASSUME NEW c \in Clients, ClientStep(c)
        PROVE producer' = producer /\ status' = status
    BY <2>4 DEF ClientStep, Admit, Subscribe, Deliver, Ping, PollEnds,
        Disconnect, Leave, jobVars
  <2>5. CASE UNCHANGED vars
    BY <2>1, <2>5 DEF vars, jobVars
  <2> QED  BY <2>1, <2>2, <2>3, <2>4, <2>5 DEF Next
<1>2. CASE ~Cut
  <2>1. PICK c \in Clients : client'[c] = "cutShort" /\ PollEnds(c)
    BY <1>2, StreamMoves DEF Cut
  <2>2. /\ status \in TerminalStatus /\ UNCHANGED <<producer, status>>
        /\ client' = [client EXCEPT ![c] = IF Ended THEN "polled" ELSE "cutShort"]
    BY <2>1 DEF PollEnds, Moves, jobVars
  <2>3. producer # "ended"
    BY <2>1, <2>2, TypeSplit DEF ClientsTyped, Ended
  <2> QED  BY <2>2, <2>3, TypeSplit DEF Stages, TerminalStatus, JobTyped
<1> QED
  BY <1>1, <1>2

\* A stream that moves elsewhere was not polled to its end.
LEMMA NotPolled ==
    ASSUME TypeOK, ~Polled, NEW c \in Clients, NEW to, to # "polled",
           client' = [client EXCEPT ![c] = to]
    PROVE ~Polled'
BY TypeSplit DEF ClientsTyped, Polled

\* A step that makes the queue sure leaves one queue, the job's.
LEMMA OneQueue ==
    ASSUME TypeOK, current' = EnsuredQueue,
           Len(queues') = Len(WithEnsuredQueue),
           \/ Len(queues) = 0 /\ current = 0
           \/ Len(queues) = 1 /\ current = 1
    PROVE Len(queues') = 1 /\ current' = 1
<1>1. CASE Len(queues) = 0 /\ current = 0
  <2>1. EnsuredQueue = 0 + 1 /\ Len(WithEnsuredQueue) = 0 + 1
    BY <1>1, EnsureEffect
  <2> QED  BY <2>1
<1>2. CASE Len(queues) = 1 /\ current = 1
  <2>1. EnsuredQueue = 1 /\ WithEnsuredQueue = queues
    BY <1>2, EnsureEffect
  <2> QED  BY <1>2, <2>1
<1> QED
  BY <1>1, <1>2

\* The verdict's emission puts it into the queue.
LEMMA VerdictEmitted ==
    ASSUME TypeOK, [Next]_vars, Emit(TRUE),
           \/ Len(queues) = 0 /\ current = 0
           \/ Len(queues) = 1 /\ current = 1
    PROVE VerdictAhead'
<1>1. PICK q \in Nat : q = EnsuredQueue /\ PutInto(q, Emitted(TRUE, "loop"))
  BY EmitEffect
<1>2. Len(queues') = 1 /\ current' = 1 /\ q = 1
  BY <1>1, EmitEffect, OneQueue
<1>3. PICK e : e = Emitted(TRUE, "loop")
  OBVIOUS
<1>4. e.terminal
  BY <1>3 DEF Emitted
<1>5. PICK n \in Nat, m \in Nat :
          n = Len(Held(queues', 1)) /\ m = Len(Held(queues, 1))
  BY Lengths
<1>6. PICK k \in {0, 1} : n = m + 1 - k /\ (k = 1 => Held(queues, 1) # <<>>)
  BY <1>1, <1>2, <1>5 DEF PutInto
<1>7. Held(queues', 1)[n] = e
  BY <1>1, <1>2, <1>3, <1>5 DEF PutInto
<1>8. m = 0 => Held(queues, 1) = <<>>
  <2>1. Held(queues, 1) \in Seq(Event)
    BY HeldType, TypeSplit DEF QueuesTyped
  <2> QED  BY <1>5, <2>1, EmptySeq
<1>9. n > 0
  BY <1>6, <1>8
<1>10. n \in 0..n /\ VerdictAt(Held(queues', 1), n)
  BY <1>4, <1>5, <1>7 DEF VerdictAt
<1> QED
  BY <1>2, <1>5, <1>9, <1>10 DEF VerdictAhead

\* A worker's late put goes behind the verdict, or pushes it out.
LEMMA VerdictRunCall ==
    ASSUME TypeOK, Order, VerdictAhead, [Next]_vars, RunCall
    PROVE VerdictAhead'
<1>1. PICK q \in Nat : /\ q = calls[1].queue /\ q \in 1..Len(queues)
                       /\ PutInto(q, calls[1].event)
  BY RunCallEffect
<1>2. /\ q = 1 /\ Len(queues') = 1 /\ current' = 1
      /\ Len(calls) \in Nat \ {0}
  BY <1>1, RunCallEffect DEF VerdictAhead
<1>3. PICK e : e = calls[1].event /\ e.by = "worker"
  BY <1>2 DEF Order, CallsLast
<1>4. PICK n \in Nat, m \in Nat :
          n = Len(Held(queues', 1)) /\ m = Len(Held(queues, 1)) /\ m > 0
  BY Lengths DEF VerdictAhead
<1>5. PICK k \in {0, 1} :
          /\ n = m + 1 - k
          /\ \A i \in 1..(m - k) : Held(queues', 1)[i] = Held(queues, 1)[i + k]
          /\ Held(queues', 1)[n] = e
  BY <1>1, <1>2, <1>3, <1>4 DEF PutInto
<1>6. PICK i \in 0..m : VerdictAt(Held(queues, 1), i)
  BY <1>4 DEF VerdictAhead
<1>7. PICK r \in 0..n : r = IF i = 0 THEN 0 ELSE i - k
  <2>1. n = m + 1 - k
    BY <1>5
  <2>2. (IF i = 0 THEN 0 ELSE i - k) \in 0..n
    BY <1>4, <2>1
  <2> QED  BY <2>2
<1>8. r = 0 \/ Held(queues', 1)[r].terminal
  <2>1. CASE r # 0
    <3>1. r \in 1..(m - k) /\ r + k = i /\ i # 0
      BY <1>5, <1>7, <2>1
    <3> QED  BY <1>5, <1>6, <3>1 DEF VerdictAt
  <2> QED  BY <2>1
<1>9. ASSUME NEW j \in 1..n, j > r PROVE Held(queues', 1)[j].by = "worker"
  <2>1. CASE j = n
    BY <1>3, <1>5, <2>1
  <2>2. CASE j # n
    <3>1. j \in 1..(m - k) /\ j + k \in 1..m /\ j + k > i
      BY <1>5, <1>7, <1>9, <2>2
    <3> QED  BY <1>4, <1>5, <1>6, <3>1 DEF VerdictAt
  <2> QED  BY <2>1, <2>2
<1>10. VerdictAt(Held(queues', 1), r)
  BY <1>4, <1>8, <1>9 DEF VerdictAt
<1>11. n > 0
  BY <1>4, <1>5
<1> QED
  BY <1>2, <1>4, <1>7, <1>10, <1>11 DEF VerdictAhead

\* A reader that is not told leaves the verdict in the queue, unless it was
\* given the last of the puts that pushed it out.
LEMMA VerdictDelivered ==
    ASSUME TypeOK, VerdictAhead, [Next]_vars, ~Told',
           NEW c \in Clients, Deliver(c)
    PROVE VerdictAhead' \/ (OnlyWorkers' /\ LateWorkerPut')
<1>1. PICK q \in Nat, e \in Event : Delivered(c, q, e)
  BY DeliverEffect
<1> USE DEF Delivered
<1>2. q = 1 /\ Len(queues') = 1 /\ current' = 1
  BY <1>1 DEF VerdictAhead
<1>3. ~e.terminal
  <2>1. e.terminal => client'[c] = "tellingDone"
    BY <1>1, TypeSplit DEF ClientsTyped
  <2> QED  BY <2>1 DEF Told
<1>4. PICK n \in Nat, m \in Nat :
          /\ n = Len(Held(queues', 1)) /\ m = Len(Held(queues, 1))
          /\ m > 0 /\ n = m - 1
  BY <1>1, <1>2, Lengths DEF VerdictAhead
<1>5. \A j \in 1..n : j + 1 \in 1..m
         /\ Held(queues', 1)[j] = Held(queues, 1)[j + 1]
  BY <1>1, <1>2, <1>4
<1>6. PICK i \in 0..m : VerdictAt(Held(queues, 1), i)
  BY <1>4 DEF VerdictAhead
<1>7. i # 1
  BY <1>1, <1>2, <1>3, <1>6 DEF VerdictAt
<1>8. CASE n > 0
  <2>1. PICK r \in 0..n : r = IF i = 0 THEN 0 ELSE i - 1
    BY <1>4
  <2>2. r = 0 \/ Held(queues', 1)[r].terminal
    <3>1. CASE r # 0
      <4>1. r \in 1..n /\ r + 1 = i /\ i # 0
        BY <2>1, <3>1
      <4> QED  BY <1>5, <1>6, <4>1 DEF VerdictAt
    <3> QED  BY <3>1
  <2>3. ASSUME NEW j \in 1..n, j > r PROVE Held(queues', 1)[j].by = "worker"
    <3>1. j + 1 \in 1..m /\ j + 1 > i
      BY <1>4, <2>1, <2>3
    <3> QED  BY <1>4, <1>5, <1>6, <3>1 DEF VerdictAt
  <2>4. VerdictAt(Held(queues', 1), r)
    BY <1>4, <2>2, <2>3 DEF VerdictAt
  <2>5. r \in 0..Len(Held(queues', 1)) /\ Len(Held(queues', 1)) > 0
    BY <1>4, <1>8
  <2>6. \E t \in 0..Len(Held(queues', 1)) : VerdictAt(Held(queues', 1), t)
    BY <2>4, <2>5
  <2> QED  BY <1>2, <2>5, <2>6 DEF VerdictAhead
<1>9. CASE n = 0
  <2>1. i = 0 /\ 1 \in 1..m
    <3>1. m = 1
      BY <1>4, <1>9
    <3> QED  BY <1>7, <3>1
  <2>2. e.by = "worker"
    BY <1>1, <1>2, <1>4, <1>6, <2>1 DEF VerdictAt
  <2>3. LateWorkerPut'
    <3>1. received'[c] # <<>>
      <4>1. Len(received'[c]) > 0
        BY <1>1
      <4>2. Len(<<>>) = 0
        BY EmptySeq
      <4> QED  BY <4>1, <4>2
    <3>2. received'[c][Len(received'[c])].by = "worker"
      BY <1>1, <2>2
    <3> QED  BY <3>1, <3>2 DEF LateWorkerPut
  <2>4. OnlyWorkers'
    <3>1. \A p \in Nat : Len(Held(queues', p)) = 0
      <4>1. ASSUME NEW p \in Nat, p # 1 PROVE Len(Held(queues', p)) = 0
        BY <1>2, <4>1, EmptySeq DEF Held
      <4> QED  BY <1>4, <1>9, <4>1
    <3> QED  BY <3>1 DEF OnlyWorkers
  <2> QED  BY <2>3, <2>4
<1> QED
  BY <1>4, <1>8, <1>9

\* Where only workers' puts are left, a delivery is of one of them.
LEMMA WorkersDelivered ==
    ASSUME TypeOK, OnlyWorkers, [Next]_vars, NEW c \in Clients, Deliver(c)
    PROVE OnlyWorkers' /\ LateWorkerPut'
<1>1. PICK q \in Nat, e \in Event : Delivered(c, q, e)
  BY DeliverEffect
<1> USE DEF Delivered
<1>2. e.by = "worker"
  <2>1. 1 \in 1..Len(Held(queues, q))
    BY <1>1
  <2> QED  BY <1>1, <2>1 DEF OnlyWorkers
<1>3. OnlyWorkers'
  <2>1. ASSUME NEW i \in 1..Len(Held(queues', q))
        PROVE Held(queues', q)[i].by = "worker"
    <3>1. PICK n \in Nat \ {0} : n = Len(Held(queues, q))
      BY <1>1
    <3>2. i \in 1..(n - 1) /\ i + 1 \in 1..n
      BY <1>1, <3>1
    <3> QED  BY <1>1, <3>1, <3>2 DEF OnlyWorkers
  <2> QED  BY <1>1, <2>1 DEF OnlyWorkers
<1>4. received'[c] # <<>>
  <2>1. Len(received'[c]) > 0
    BY <1>1
  <2>2. Len(<<>>) = 0
    BY EmptySeq
  <2> QED  BY <2>1, <2>2
<1>5. received'[c][Len(received'[c])].by = "worker"
  BY <1>1, <1>2
<1> QED
  BY <1>3, <1>4, <1>5 DEF LateWorkerPut

\* A put of a worker thread into queues that hold only such.
LEMMA WorkersRunCall ==
    ASSUME TypeOK, Order, OnlyWorkers, [Next]_vars, RunCall PROVE OnlyWorkers'
<1>1. /\ QueuesTyped' /\ calls[1].event \in Event
      /\ calls[1].event.by = "worker"
  BY RunCallEffect DEF Order, CallsLast
<1>2. PICK q \in Nat, e \in Event : e = calls[1].event /\ PutInto(q, e)
  BY <1>1, RunCallEffect
<1>3. Places(q, e)
  BY <1>1, <1>2, PutPlaces
<1> QED
  BY <1>1, <1>2, <1>3 DEF Places, OnlyWorkers

\* A job that is not over emits into its one queue.
LEMMA PhaseJob ==
    ASSUME TypeOK, Phase, [Next]_vars, JobStep PROVE Phase'
<1>1. producer # "ended" /\ client' = client
  BY DEF JobStep, Submit, Run, Progress, Complete, FailEntry, FailEvent,
     FailAtOnce, SoftDeadline, Working, ChatFails, WorkerEmit, clientVars
<1>2. /\ ~Polled'
      /\ \/ Len(queues) = 0 /\ current = 0
         \/ Len(queues) = 1 /\ current = 1
  BY <1>1 DEF Phase, Polled
<1>3. CASE Complete \/ FailEvent \/ FailAtOnce \/ ChatFails
  <2>1. Emit(TRUE) /\ producer' = "ended"
    BY <1>3 DEF Complete, FailEvent, FailAtOnce, ChatFails
  <2> QED  BY <1>2, <2>1, VerdictEmitted DEF Phase
<1>4. CASE Submit \/ Run \/ Progress \/ SoftDeadline
  <2>1. Emit(FALSE) /\ producer' # "ended"
    BY <1>1, <1>4 DEF Submit, Run, Progress, SoftDeadline, jobVars
  <2>2. Len(queues') = 1 /\ current' = 1
    BY <1>2, <2>1, EmitEffect, OneQueue
  <2> QED  BY <1>2, <2>1, <2>2 DEF Phase
<1>5. CASE WorkerEmit
  <2>1. producer' # "ended"
    BY <1>1, <1>5 DEF WorkerEmit, jobVars
  <2>2. Len(queues') = 1 /\ current' = 1
    BY <1>2, <1>5, WorkerEmitEffect, OneQueue
  <2> QED  BY <1>2, <2>1, <2>2 DEF Phase
<1>6. CASE FailEntry
  BY <1>2, <1>6 DEF FailEntry, queueVars, Phase
<1> QED
  BY <1>3, <1>4, <1>5, <1>6 DEF JobStep

\* A step that touches neither the job nor its queues.
LEMMA PhaseSame ==
    ASSUME Phase, Polled' => Polled,
           UNCHANGED <<producer, status, queues, current, received>>
    PROVE Phase'
<1>1. (OnlyWorkers <=> OnlyWorkers') /\ (VerdictAhead <=> VerdictAhead')
  BY DEF OnlyWorkers, VerdictAhead
<1>2. LateWorkerPut <=> LateWorkerPut'
  BY DEF LateWorkerPut
<1> QED
  BY <1>1, <1>2 DEF Phase

\* The loop's steps.
LEMMA PhaseStore ==
    ASSUME TypeOK, Stages, Order, Phase, ~TtlOvertakes, [Next]_vars, StoreStep
    PROVE Phase'
<1>1. CASE RunCall
  <2>1. /\ UNCHANGED <<producer, status, current, client, received>>
        /\ Len(queues') = Len(queues)
    BY <1>1, RunCallEffect DEF jobVars, clientVars
  <2>2. Polled' = Polled /\ LateWorkerPut' = LateWorkerPut
    BY <2>1 DEF Polled, LateWorkerPut
  <2>3. OnlyWorkers => OnlyWorkers'
    BY <1>1, WorkersRunCall
  <2>4. VerdictAhead => VerdictAhead'
    BY <1>1, VerdictRunCall
  <2> QED  BY <2>1, <2>2, <2>3, <2>4 DEF Phase
<1>2. CASE TtlNears
  <2>1. UNCHANGED <<producer, status, queues, current, received, client>>
    BY <1>2 DEF TtlNears, queueVars
  <2> QED  BY <2>1, PhaseSame DEF Polled
<1>3. CASE Expire \/ DeleteJob
  <2>1. /\ producer = "ended" /\ producer' = "ended" /\ status' = "absent"
        /\ UNCHANGED <<queues, client, received>>
    BY <1>3 DEF Expire, DeleteJob, Stages, clientVars
  <2>2. Polled' = Polled /\ (OnlyWorkers => OnlyWorkers')
    BY <2>1 DEF Polled, OnlyWorkers
  <2>3. LateWorkerPut => LateWorkerPut'
    BY <2>1 DEF LateWorkerPut
  <2> QED  BY <2>1, <2>2, <2>3 DEF Phase
<1> QED
  BY <1>1, <1>2, <1>3 DEF StoreStep

\* The streams' steps, as long as nobody leaves or is told.
LEMMA PhaseClient ==
    ASSUME TypeOK, Stages, Phase, [Next]_vars, ~Gone', ~Told', ~Cut',
           NEW c \in Clients, ClientStep(c)
    PROVE Phase'
<1>1. client \in [Clients -> {"new", "admitted"} \cup Open \cup Closed]
  BY TypeSplit DEF ClientsTyped
<1>2. CASE Admit(c)
  <2>1. /\ UNCHANGED <<producer, status, queues, current, received>>
        /\ client' = [client EXCEPT ![c] = "admitted"]
    BY <1>2 DEF Admit, jobVars, queueVars, Moves
  <2> QED  BY <2>1, NotPolled, PhaseSame
<1>3. CASE Ping(c)
  <2>1. UNCHANGED <<producer, status, queues, current, received, client>>
    BY <1>3 DEF Ping, jobVars, queueVars
  <2> QED  BY <2>1, PhaseSame DEF Polled
<1>4. CASE Subscribe(c)
  <2>1. /\ UNCHANGED <<producer, status, received>>
        /\ current' = EnsuredQueue /\ Len(queues') = Len(WithEnsuredQueue)
        /\ queues' = WithEnsuredQueue /\ HeldStay
        /\ client' = [client EXCEPT ![c] = "waiting"]
    BY <1>4, SubscribeEffect DEF Subscribe, jobVars
  <2>2. Polled' => Polled
    BY <2>1, NotPolled
  <2>3. OnlyWorkers => OnlyWorkers'
    BY <2>1 DEF HeldStay, OnlyWorkers
  <2>4. LateWorkerPut => LateWorkerPut'
    BY <2>1 DEF LateWorkerPut
  <2>5. VerdictAhead => VerdictAhead'
    <3>1. current = 1 => current' = current /\ queues' = queues
      BY <2>1, EnsureEffect
    <3> QED  BY <3>1 DEF VerdictAhead
  <2>6. (\/ Len(queues) = 0 /\ current = 0
         \/ Len(queues) = 1 /\ current = 1) =>
             Len(queues') = 1 /\ current' = 1
    BY <2>1, OneQueue
  <2> QED  BY <2>1, <2>2, <2>3, <2>4, <2>5, <2>6 DEF Phase
<1>5. CASE Deliver(c)
  <2>1. PICK q \in Nat, e \in Event : Delivered(c, q, e)
    BY <1>5, DeliverEffect
  <2>2. /\ UNCHANGED <<producer, status, current>>
        /\ Len(queues') = Len(queues)
        /\ client' = [client EXCEPT ![c] = IF e.terminal THEN "tellingDone"
                                           ELSE "waiting"]
    BY <2>1 DEF Delivered, jobVars
  <2>3. Polled' => Polled
    <3>1. PICK to : to = IF e.terminal THEN "tellingDone" ELSE "waiting"
      OBVIOUS
    <3>2. client' = [client EXCEPT ![c] = to] /\ to # "polled"
      BY <2>2, <3>1
    <3> QED  BY <3>2, NotPolled
  <2>4. OnlyWorkers => OnlyWorkers' /\ LateWorkerPut'
    BY <1>5, WorkersDelivered
  <2>5. VerdictAhead => VerdictAhead' \/ (OnlyWorkers' /\ LateWorkerPut')
    BY <1>5, VerdictDelivered
  <2> QED  BY <2>2, <2>3, <2>4, <2>5 DEF Phase
<1>6. CASE PollEnds(c)
  <2>0. producer = "ended"
    BY <1>1, <1>6 DEF PollEnds, Moves, Ended, Cut
  <2>1. /\ producer = "ended" /\ status # "absent"
        /\ client[c] = "waiting" /\ queues[queue[c]] = <<>>
        /\ UNCHANGED <<producer, queues, received>>
    BY <1>6, <2>0 DEF PollEnds, PollElapses, jobVars, TerminalStatus
  <2>2. queue[c] \in 1..Len(queues)
    BY <2>1, TypeSplit DEF ClientsTyped, QueuesTyped, Open
  <2>3. ~VerdictAhead
    <3>1. ASSUME Len(queues) = 1 PROVE Len(Held(queues, 1)) = 0
      <4>1. Held(queues, 1) = <<>>
        BY <2>1, <2>2, <3>1 DEF Held
      <4> QED  BY <4>1, EmptySeq
    <3> QED  BY <3>1 DEF VerdictAhead
  <2>4. OnlyWorkers' /\ LateWorkerPut'
    BY <2>1, <2>3 DEF Phase, OnlyWorkers, LateWorkerPut
  <2> QED  BY <2>1, <2>4 DEF Phase
<1>7. CASE Disconnect(c)
  BY <1>1, <1>7 DEF Disconnect, Moves, Gone
<1>8. CASE Leave(c)
  BY <1>1, <1>8 DEF Leave, Moves, Gone, Told
<1> QED
  BY <1>2, <1>3, <1>4, <1>5, <1>6, <1>7, <1>8 DEF ClientStep

\* Every step keeps the verdict in sight of whoever reads.
LEMMA VerdictStep ==
    ASSUME TypeOK, Stages, Order, Verdict, ~TtlOvertakes, [Next]_vars
    PROVE Verdict'
<1> SUFFICES ASSUME ~Gone', ~Told', ~Cut' PROVE Phase'
  BY DEF Verdict
<1>1. Phase
  BY GoneForGood DEF Verdict
<1>2. CASE UNCHANGED vars
  <2>1. UNCHANGED <<producer, status, queues, current, received, client>>
    BY <1>2 DEF vars, jobVars, queueVars, clientVars
  <2> QED  BY <1>1, <2>1, PhaseSame DEF Polled
<1> QED
  BY <1>1, <1>2, PhaseJob, PhaseStore, PhaseClient DEF Next

\* So the poll never stands in for a verdict that nobody received.
LEMMA VerdictGivesSomeoneTold ==
    ASSUME Verdict, CutFails PROVE SomeoneTold
BY DEF Verdict, Phase, CutFails, Gone, Told, Cut, Polled, SomeoneTold

-----------------------------------------------------------------------------
(* The theorems.                                                           *)

\* The inductive invariant.
IInv ==
    /\ TypeOK /\ Stages /\ Order /\ CutFails
    /\ ~TtlOvertakes => Lost /\ Verdict

\* It holds initially.
LEMMA Initially == Init => IInv
<1> SUFFICES ASSUME Init PROVE IInv
  OBVIOUS
<1>1. /\ producer \in {"extracting", "submitting"}
      /\ softLimit = "ahead" /\ status = "absent" /\ timer = "off"
      /\ queues = <<>> /\ current = 0 /\ calls = <<>> /\ emitted = 0
      /\ client \in [Clients -> {"new", "admitted"}]
      /\ queue = [c \in Clients |-> 0]
      /\ mustPoll = [c \in Clients |-> FALSE]
      /\ received = [c \in Clients |-> <<>>]
  BY DEF Init
<1>2. /\ \A S : <<>> \in Seq(S)
      /\ Len(<<>>) = 0
  BY EmptySeq
<1>3. Len(queues) = 0 /\ Len(calls) = 0 /\ \A c \in Clients :
         Len(received[c]) = 0
  BY <1>1, <1>2
<1>4. \A p \in Nat : Len(Held(queues, p)) = 0
  BY <1>1, <1>2 DEF Held
<1>5. TypeOK
  <2>1. JobTyped
    BY <1>1 DEF JobTyped, Status
  <2>2. QueuesTyped
    BY <1>1, <1>2 DEF QueuesTyped, Bounded
  <2>3. ClientsTyped
    BY <1>1, <1>2, <1>3 DEF ClientsTyped, Open, Closing
  <2> QED  BY <2>1, <2>2, <2>3, TypeSplit
<1>6. Stages
  BY <1>1 DEF Stages
<1>7. Order
  BY <1>1, <1>3, <1>4 DEF Order, Carried, Numbered, QueueOrder, QueuesApart,
     StreamOrder, StreamsApart, StreamsAhead, CallsOrder, CallsLast, Unread
<1>8. Lost
  BY <1>1 DEF Lost
<1>9. Verdict
  BY <1>1, <1>3 DEF Verdict, Phase, Polled
<1>10. CutFails
  BY <1>1 DEF CutFails, Cut
<1> QED
  BY <1>5, <1>6, <1>7, <1>8, <1>9, <1>10 DEF IInv

\* Every step keeps it.
LEMMA StepKeeps == IInv /\ [Next]_vars => IInv'
<1> SUFFICES ASSUME IInv, [Next]_vars PROVE IInv'
  OBVIOUS
<1>1. JobTyped' /\ Stages'
  BY JobStepKeeps DEF IInv
<1>2. QueuesTyped' /\ ClientsTyped'
  BY QueuesStep, ClientsStep DEF IInv
<1>3. TypeOK'
  <2>1. JobTyped' /\ QueuesTyped' /\ ClientsTyped' => TypeOK'
    BY TypeSplit, PTL
  <2> QED  BY <1>1, <1>2, <2>1
<1>4. Order' /\ CutFails'
  BY OrderStep, CutFailsStep DEF IInv
<1>5. ~TtlOvertakes => Lost' /\ Verdict'
  BY LostStep, VerdictStep DEF IInv
<1> QED
  BY <1>1, <1>3, <1>4, <1>5 DEF IInv

\* It holds in every reachable state.
THEOREM Invariance == Spec => []IInv
BY Initially, StepKeeps, PTL DEF Spec

\* The store's types; a queue in use exists and keeps its bound.
THEOREM TypeCorrect == Spec => []TypeOK
<1>1. IInv => TypeOK
  BY DEF IInv
<1> QED
  BY <1>1, Invariance, PTL

\* However queues overflow, are dropped and made again, and however worker
\* threads and the loop interleave: no event reaches two streams or one stream
\* twice, and a stream has one emitter's events in their order.
THEOREM EventsOnceInOrder == Spec => []OrderedOnce
<1>1. IInv => OrderedOnce
  BY OrderGivesOrderedOnce DEF IInv
<1> QED
  BY <1>1, Invariance, PTL

\* A reader whose queue is no longer the job's lost it to a stream that shared
\* that very queue and has ended, if no entry expires before its failure is
\* recorded.
THEOREM QueueLostOnlyToSharer ==
    ASSUME ~TtlOvertakes PROVE Spec => []LostOnlyToSharer
<1>1. IInv => LostOnlyToSharer
  BY DEF IInv, Lost, Known, LostOnlyToSharer
<1> QED
  BY <1>1, Invariance, PTL

\* Whenever the polls fall, between a failure and its announcement included:
\* only of a job that fails is a stream cut short; and where none was, no client
\* has left and none was last given a worker's late put, a stream closed by a
\* poll means that another was told the verdict.  An entry is presumed to
\* outlive the recording of its failure.
THEOREM VerdictReachesSomeone ==
    ASSUME ~TtlOvertakes PROVE Spec => []SomeoneTold
<1>1. IInv => SomeoneTold
  BY VerdictGivesSomeoneTold DEF IInv
<1> QED
  BY <1>1, Invariance, PTL

-----------------------------------------------------------------------------
(* The store implements StreamPromise.                                     *)

\* Event e lies in a queue, or waits in a put.
OnQueue(qs, e) == \E p \in Nat : \E i \in 1..Len(Held(qs, p)) : e = Held(qs, p)[i]
InCall(cs, e) == \E k \in 1..Len(cs) : e = cs[k].event

\* What is carried lies in a queue or waits in a put.
LEMMA CarryingIs ==
    ASSUME NEW qs \in Seq(Seq(Event)), NEW cs, NEW e
    PROVE e \in Carrying(qs, cs) <=> OnQueue(qs, e) \/ InCall(cs, e)
<1>1. Len(qs) \in Nat
  BY LenProperties
<1>2. \A p \in 1..Len(qs) : p \in Nat /\ Held(qs, p) = qs[p]
  BY <1>1 DEF Held
<1>3. \A p \in Nat : p \notin 1..Len(qs) => Len(Held(qs, p)) = 0
  BY EmptySeq DEF Held
<1>4. OnQueue(qs, e) <=>
         \E p \in 1..Len(qs) : \E i \in 1..Len(qs[p]) : e = qs[p][i]
  <2>1. ASSUME OnQueue(qs, e)
        PROVE \E p \in 1..Len(qs) : \E i \in 1..Len(qs[p]) : e = qs[p][i]
    <3>1. PICK p \in Nat : \E i \in 1..Len(Held(qs, p)) : e = Held(qs, p)[i]
      BY <2>1 DEF OnQueue
    <3>2. p \in 1..Len(qs)
      BY <1>3, <3>1
    <3> QED  BY <1>2, <3>1, <3>2
  <2>2. ASSUME NEW p \in 1..Len(qs), NEW i \in 1..Len(qs[p]), e = qs[p][i]
        PROVE OnQueue(qs, e)
    BY <1>2, <2>2 DEF OnQueue
  <2> QED  BY <2>1, <2>2
<1>5. e \in UNION {{qs[q][i] : i \in 1..Len(qs[q])} : q \in 1..Len(qs)} <=>
         \E p \in 1..Len(qs) : \E i \in 1..Len(qs[p]) : e = qs[p][i]
  <2> DEFINE In(p) == {qs[p][i] : i \in 1..Len(qs[p])}
  <2>1. \A p \in 1..Len(qs) :
           e \in In(p) <=> \E i \in 1..Len(qs[p]) : e = qs[p][i]
    OBVIOUS
  <2> HIDE DEF In
  <2>2. e \in UNION {In(p) : p \in 1..Len(qs)} <=> \E p \in 1..Len(qs) : e \in In(p)
    OBVIOUS
  <2> QED  BY <2>1, <2>2 DEF In
<1> QED
  BY <1>4, <1>5 DEF Carrying, InCall

\* A put adds its event to the queues; the event it may push out is another,
\* which lies nowhere else.
LEMMA PutCarries ==
    ASSUME TypeOK, Order, QueuesTyped',
           NEW q \in Nat, NEW e \in Event, PutInto(q, e), AfterAll(e)
    PROVE \/ \A x : OnQueue(queues', x) <=> OnQueue(queues, x) \/ x = e
          \/ \E d : /\ OnQueue(queues, d) /\ d # e /\ ~InCall(calls, d)
                    /\ \A x : OnQueue(queues', x) <=>
                                (OnQueue(queues, x) /\ x # d) \/ x = e
<1> DEFINE old == Held(queues, q)
           now == Held(queues', q)
<1>1. PICK k \in {0, 1} :
          /\ Len(now) = Len(old) + 1 - k
          /\ \A i \in 1..(Len(old) - k) : now[i] = old[i + k]
          /\ now[Len(now)] = e
          /\ k = 1 => old # <<>>
  BY DEF PutInto
<1>2. Len(old) \in Nat /\ old \in Seq(Event)
  BY HeldType DEF TypeOK
<1>3. \A p \in Nat : p # q => Held(queues', p) = Held(queues, p)
  BY DEF PutInto
<1>4. k = 1 => 1 \in 1..Len(old)
  BY <1>1, <1>2, EmptySeq
<1> HIDE DEF old, now
<1>5. ASSUME NEW x
      PROVE (\E i \in 1..Len(now) : x = now[i]) <=>
               (\E i \in 1..Len(old) : i > k /\ x = old[i]) \/ x = e
  <2>1. ASSUME NEW i \in 1..Len(now), x = now[i], x # e
        PROVE \E j \in 1..Len(old) : j > k /\ x = old[j]
    <3>1. i \in 1..(Len(old) - k) /\ i + k \in 1..Len(old) /\ i + k > k
      BY <1>1, <1>2, <2>1
    <3> QED  BY <1>1, <2>1, <3>1
  <2>2. ASSUME NEW i \in 1..Len(old), i > k
        PROVE \E j \in 1..Len(now) : old[i] = now[j]
    <3>1. i - k \in 1..(Len(old) - k) /\ (i - k) + k = i /\ i - k \in 1..Len(now)
      BY <1>1, <1>2, <2>2
    <3> QED  BY <1>1, <3>1
  <2>3. Len(now) \in 1..Len(now)
    BY <1>1, <1>2, <1>4
  <2> QED  BY <1>1, <2>1, <2>2, <2>3
<1>6. ASSUME NEW x
      PROVE OnQueue(queues', x) <=>
               \/ \E p \in Nat \ {q} : \E i \in 1..Len(Held(queues, p)) :
                     x = Held(queues, p)[i]
               \/ \E i \in 1..Len(old) : i > k /\ x = old[i]
               \/ x = e
  <2>1. OnQueue(queues', x) <=>
           \/ \E p \in Nat \ {q} : \E i \in 1..Len(Held(queues, p)) :
                 x = Held(queues, p)[i]
           \/ \E i \in 1..Len(now) : x = now[i]
    BY <1>3 DEF OnQueue, now
  <2> QED  BY <1>5, <2>1
<1>7. CASE k = 0
  <2>1. ASSUME NEW x
        PROVE OnQueue(queues, x) <=>
               \/ \E p \in Nat \ {q} : \E i \in 1..Len(Held(queues, p)) :
                     x = Held(queues, p)[i]
               \/ \E i \in 1..Len(old) : i > k /\ x = old[i]
    <3>1. \A i \in 1..Len(old) : i > k
      BY <1>7, <1>2
    <3> QED  BY <3>1 DEF OnQueue, old
  <2> QED  BY <1>6, <2>1
<1>8. CASE k = 1
  <2> DEFINE d == old[1]
  <2>1. OnQueue(queues, d)
    BY <1>4, <1>8 DEF OnQueue, old
  <2>2. d.no # e.no /\ \A j \in 1..Len(calls) : d.no # calls[j].event.no
    BY <1>4, <1>8 DEF old, AfterAll, Before, Order, CallsLast
  <2>3. ASSUME NEW x
        PROVE OnQueue(queues, x) /\ x # d <=>
               \/ \E p \in Nat \ {q} : \E i \in 1..Len(Held(queues, p)) :
                     x = Held(queues, p)[i]
               \/ \E i \in 1..Len(old) : i > k /\ x = old[i]
    <3>1. \A i \in 1..Len(old) : i = 1 \/ i > k
      BY <1>8, <1>2
    <3>2. ASSUME NEW i \in 1..Len(old), i > k PROVE old[i] # d
      BY <1>2, <1>4, <1>8, <3>2 DEF old, Order, Carried, QueueOrder, Before
    <3>3. ASSUME NEW p \in Nat \ {q}, NEW i \in 1..Len(Held(queues, p))
          PROVE Held(queues, p)[i] # d
      BY <1>4, <1>8 DEF old, Order, Carried, QueuesApart
    <3> QED  BY <3>1, <3>2, <3>3 DEF OnQueue, old
  <2>4. d # e /\ ~InCall(calls, d)
    BY <2>2 DEF InCall
  <2>5. \A x : OnQueue(queues', x) <=> (OnQueue(queues, x) /\ x # d) \/ x = e
    BY <1>6, <2>3
  <2> QED  BY <2>1, <2>4, <2>5
<1> QED
  BY <1>7, <1>8

\* The same of the store, before and after a step.
LEMMA PendingIs ==
    ASSUME TypeOK, QueuesTyped'
    PROVE /\ \A x : x \in Pending <=> OnQueue(queues, x) \/ InCall(calls, x)
          /\ \A x : x \in Pending' <=> OnQueue(queues', x) \/ InCall(calls', x)
<1>1. queues \in Seq(Seq(Event)) /\ queues' \in Seq(Seq(Event))
  BY DEF TypeOK, QueuesTyped
<1> QED  BY <1>1, CarryingIs DEF Pending

\* One connection moves, and its stream with it.
LEMMA StreamStep ==
    ASSUME ClientsTyped, NEW c \in Clients, NEW to,
           client' = [client EXCEPT ![c] = to]
    PROVE Stream' = [Stream EXCEPT ![c] = StreamOf(to)]
<1>1. \A d \in Clients : client'[d] = IF d = c THEN to ELSE client[d]
  BY DEF ClientsTyped
<1>2. \A d \in Clients : StreamOf(client'[d]) =
         IF d = c THEN StreamOf(to) ELSE StreamOf(client[d])
  BY <1>1
<1>3. Stream' = [d \in Clients |-> StreamOf(client'[d])]
  BY DEF Stream, StreamOf
<1> HIDE DEF StreamOf
<1> QED  BY <1>2, <1>3 DEF Stream

\* An emission of the loop announces its event.
LEMMA EmitAnnounces ==
    ASSUME IInv, NEW terminal \in BOOLEAN, Emit(terminal), UNCHANGED clientVars,
           producer # "ended",
           Decision' = IF terminal THEN "announced" ELSE Decision
    PROVE Promise!Next
<1>0. TypeOK /\ Order
  BY DEF IInv
<1>1. PICK q \in Nat : PutInto(q, Emitted(terminal, "loop"))
  BY <1>0, EmitEffect
<1>2. /\ QueuesTyped' /\ emitted' = emitted + 1 /\ emitted \in Nat
      /\ calls' = calls
  BY <1>0, EmitEffect
<1>3. PICK e \in Event : e = Emitted(terminal, "loop")
  <2>1. Emitted(terminal, "loop") \in Event
    BY <1>2 DEF Event, Emitted
  <2> QED  BY <2>1
<1>4. e.no = emitted + 1 /\ e.by = "loop" /\ e.terminal = terminal
  BY <1>3 DEF Emitted
<1>5. AfterAll(e) /\ PutInto(q, e)
  BY <1>0, <1>1, <1>3, <1>4, NewIsAfterAll DEF Order
<1>6. \/ Pending' = Pending \cup {e}
      \/ \E d \in Pending : Pending' = (Pending \ {d}) \cup {e}
  <2>1. CASE \A x : OnQueue(queues', x) <=> OnQueue(queues, x) \/ x = e
    <3>1. Pending' = Pending \cup {e}
      BY <1>0, <1>2, <2>1, PendingIs
    <3> QED  BY <3>1
  <2>2. ASSUME NEW d, OnQueue(queues, d), d # e, ~InCall(calls, d),
               \A x : OnQueue(queues', x) <=> (OnQueue(queues, x) /\ x # d) \/ x = e
        PROVE \E f \in Pending : Pending' = (Pending \ {f}) \cup {e}
    <3>1. d \in Pending /\ Pending' = (Pending \ {d}) \cup {e}
      BY <1>0, <1>2, <2>2, PendingIs
    <3> QED  BY <3>1
  <2> QED  BY <1>0, <1>2, <1>5, <2>1, <2>2, PutCarries
<1>7. Stream' = Stream /\ received' = received
  BY DEF Stream, clientVars
<1>8. /\ Decision # "announced"
      /\ Decision' = IF e.terminal THEN "announced" ELSE Decision
  BY <1>4 DEF Decision, Ended
<1>9. Promise!Announce(e)
  BY <1>2, <1>4, <1>6, <1>7, <1>8 DEF Promise!Announce
<1>10. e \in Promise!NextEvents
  BY <1>3 DEF Emitted, Promise!NextEvents
<1> QED  BY <1>9, <1>10 DEF Promise!Next

\* So does that of a worker thread, whose event waits in a put.
LEMMA WorkerAnnounces == ASSUME IInv, WorkerEmit PROVE Promise!Next
<1>0. TypeOK
  BY DEF IInv
<1>1. PICK e : e = Emitted(FALSE, "worker")
  OBVIOUS
<1>2. e.no = emitted + 1 /\ e.by = "worker" /\ e.terminal = FALSE
  BY <1>1 DEF Emitted
<1>3. /\ QueuesTyped' /\ HeldStay /\ Len(calls) \in Nat
      /\ Len(calls') = Len(calls) + 1
      /\ \A i \in 1..Len(calls) : calls'[i] = calls[i]
      /\ calls'[Len(calls) + 1].event = e
      /\ emitted' = emitted + 1 /\ producer = "running"
      /\ UNCHANGED <<jobVars, clientVars>>
  <2>1. calls'[Len(calls) + 1] = [queue |-> EnsuredQueue, event |-> e]
    BY <1>0, <1>1, WorkerEmitEffect
  <2>2. calls'[Len(calls) + 1].event = e
    BY <2>1
  <2> QED  BY <1>0, <2>2, WorkerEmitEffect
<1>4. \A x : InCall(calls', x) <=> InCall(calls, x) \/ x = e
  BY <1>3 DEF InCall
<1>5. \A x : OnQueue(queues', x) <=> OnQueue(queues, x)
  BY <1>3 DEF OnQueue, HeldStay
<1>6. Pending' = Pending \cup {e}
  BY <1>0, <1>3, <1>4, <1>5, PendingIs
<1>7. /\ Stream' = Stream /\ received' = received
      /\ Decision # "announced" /\ Decision' = Decision
  BY <1>3 DEF Stream, Decision, Ended, clientVars, jobVars
<1>8. Promise!Announce(e)
  BY <1>2, <1>3, <1>6, <1>7 DEF Promise!Announce
<1>9. e \in Promise!NextEvents
  <2>1. PICK t \in BOOLEAN : t = FALSE
    OBVIOUS
  <2>2. e = [no |-> emitted + 1, terminal |-> t, by |-> "worker"]
    BY <1>1, <2>1 DEF Emitted
  <2> QED  BY <2>2 DEF Promise!NextEvents
<1> QED  BY <1>8, <1>9 DEF Promise!Next

\* A put that the loop runs moves its event, and may push out another.
LEMMA RunCallPushes ==
    ASSUME IInv, RunCall PROVE Promise!Next \/ UNCHANGED Promise!vars
<1>0. TypeOK /\ Order
  BY DEF IInv
<1>1. /\ calls # <<>> /\ QueuesTyped' /\ calls[1].event \in Event
      /\ Len(calls) \in Nat \ {0} /\ Len(calls') = Len(calls) - 1
      /\ \A i \in 1..Len(calls') : calls'[i] = calls[i + 1]
      /\ UNCHANGED <<jobVars, emitted, clientVars>>
  BY <1>0, RunCallEffect
<1>2. PICK q \in Nat, e \in Event : e = calls[1].event /\ PutInto(q, e)
  BY <1>0, <1>1, RunCallEffect
<1>3. AfterAll(e) /\ e.by = "worker"
  BY <1>0, <1>1, <1>2 DEF Order, CallsLast
<1>4. \A x : InCall(calls, x) <=> InCall(calls', x) \/ x = e
  <2>1. \A i \in 1..Len(calls) : i = 1 \/ i - 1 \in 1..Len(calls')
    BY <1>1
  <2>2. \A i \in 1..Len(calls) :
           i # 1 => calls'[i - 1] = calls[i]
    <3>1. \A i \in 1..Len(calls) : (i - 1) + 1 = i
      OBVIOUS
    <3> QED  BY <1>1, <2>1, <3>1
  <2>3. \A i \in 1..Len(calls') : i + 1 \in 1..Len(calls)
    BY <1>1
  <2>4. 1 \in 1..Len(calls)
    BY <1>1
  <2>5. ASSUME NEW x, InCall(calls, x), x # e PROVE InCall(calls', x)
    BY <1>2, <2>1, <2>2, <2>5 DEF InCall
  <2>6. ASSUME NEW x, InCall(calls', x) PROVE InCall(calls, x)
    BY <1>1, <2>3, <2>6 DEF InCall
  <2> QED  BY <1>2, <2>4, <2>5, <2>6 DEF InCall
<1>5. /\ Stream' = Stream /\ received' = received /\ emitted' = emitted
      /\ Decision' = Decision
  BY <1>1 DEF Stream, Decision, Ended, clientVars, jobVars
<1>6. CASE \A x : OnQueue(queues', x) <=> OnQueue(queues, x) \/ x = e
  <2>1. Pending' = Pending
    BY <1>0, <1>1, <1>4, <1>6, PendingIs
  <2> QED  BY <1>5, <2>1 DEF Promise!vars
<1>7. ASSUME NEW d, OnQueue(queues, d), d # e, ~InCall(calls, d),
             \A x : OnQueue(queues', x) <=> (OnQueue(queues, x) /\ x # d) \/ x = e
      PROVE Promise!Next
  <2>1. d \in Pending /\ e \in Pending /\ Pending' = Pending \ {d}
    BY <1>0, <1>1, <1>4, <1>7, PendingIs
  <2>2. Promise!PushOut
    BY <1>3, <1>5, <1>7, <2>1 DEF Promise!PushOut
  <2> QED  BY <2>2 DEF Promise!Next
<1> QED  BY <1>0, <1>1, <1>2, <1>3, <1>6, <1>7, PutCarries

\* A stream begins.
LEMMA SubscribeBegins ==
    ASSUME IInv, NEW c \in Clients, Subscribe(c) PROVE Promise!Next
<1>0. TypeOK /\ ClientsTyped
  BY TypeSplit DEF IInv
<1>1. /\ QueuesTyped' /\ HeldStay /\ client[c] = "admitted"
      /\ client' = [client EXCEPT ![c] = "waiting"]
      /\ UNCHANGED <<jobVars, calls, emitted, received>>
  BY <1>0, SubscribeEffect
<1>2. Pending' = Pending
  BY <1>0, <1>1, PendingIs DEF OnQueue, HeldStay
<1>3. Stream' = [Stream EXCEPT ![c] = "open"] /\ Stream[c] = "before"
  <2>1. StreamOf("waiting") = "open" /\ StreamOf("admitted") = "before"
    BY DEF StreamOf
  <2> QED  BY <1>0, <1>1, <2>1, StreamStep DEF Stream
<1>4. Promise!Begin(c)
  BY <1>1, <1>2, <1>3 DEF Promise!Begin, jobVars, Decision, Ended
<1> QED  BY <1>4 DEF Promise!Next

\* A delivery takes its event from all that is carried.
LEMMA DeliverTakes ==
    ASSUME TypeOK, Order, NEW c \in Clients,
           NEW q \in Nat, NEW e \in Event, Delivered(c, q, e)
    PROVE e \in Pending /\ Pending' = Pending \ {e}
<1> DEFINE old == Held(queues, q)
           now == Held(queues', q)
<1>1. /\ Len(old) \in Nat \ {0} /\ old[1] = e
      /\ QueuesTyped' /\ calls' = calls
      /\ \A p \in Nat : p # q => Held(queues', p) = Held(queues, p)
      /\ Len(now) = Len(old) - 1
      /\ \A i \in 1..(Len(old) - 1) : now[i] = old[i + 1]
  BY DEF Delivered
<1>2. 1 \in 1..Len(old)
  BY <1>1
<1>3. OnQueue(queues, e) /\ ~InCall(calls, e)
  <2>1. \A k \in 1..Len(calls) : calls[k].event # e
    BY <1>1, <1>2 DEF Order, CallsLast, AfterAll, Before
  <2> QED  BY <1>1, <1>2, <2>1 DEF OnQueue, InCall
<1>4. ASSUME NEW x PROVE OnQueue(queues', x) <=> OnQueue(queues, x) /\ x # e
  <2>1. ASSUME NEW p \in Nat \ {q}, NEW i \in 1..Len(Held(queues, p))
        PROVE Held(queues, p)[i] # e
    BY <1>1, <1>2 DEF Order, Carried, QueuesApart
  <2>2. ASSUME NEW i \in 1..Len(old), i # 1
        PROVE old[i] # e /\ \E j \in 1..Len(now) : old[i] = now[j]
    <3>1. i - 1 \in 1..(Len(old) - 1) /\ (i - 1) + 1 = i /\ 1 < i
             /\ i - 1 \in 1..Len(now)
      BY <1>1, <2>2
    <3>2. old[i] # e
      BY <1>1, <1>2, <3>1 DEF Order, Carried, QueueOrder, Before
    <3> HIDE DEF old, now
    <3> QED  BY <1>1, <3>1, <3>2
  <2>3. ASSUME NEW i \in 1..Len(now)
        PROVE \E j \in 1..Len(old) : now[i] = old[j] /\ j # 1
    <3> HIDE DEF old, now
    <3>1. i \in 1..(Len(old) - 1) /\ i + 1 \in 1..Len(old) /\ i + 1 # 1
      BY <1>1
    <3> QED  BY <1>1, <3>1
  <2>4. \/ \E p \in Nat \ {q} : \E i \in 1..Len(Held(queues, p)) :
              x = Held(queues, p)[i]
        \/ \E i \in 1..Len(now) : x = now[i]
        <=> OnQueue(queues', x)
    BY <1>1 DEF OnQueue
  <2>5. \/ \E p \in Nat \ {q} : \E i \in 1..Len(Held(queues, p)) :
              x = Held(queues, p)[i]
        \/ \E i \in 1..Len(old) : x = old[i]
        <=> OnQueue(queues, x)
    BY DEF OnQueue
  <2> HIDE DEF old, now
  <2>6. (\E i \in 1..Len(now) : x = now[i])
           <=> \E i \in 1..Len(old) : x = old[i] /\ x # e
    <3>1. ASSUME NEW i \in 1..Len(now), x = now[i]
          PROVE \E j \in 1..Len(old) : x = old[j] /\ x # e
      <4>1. PICK j \in 1..Len(old) : now[i] = old[j] /\ j # 1
        BY <2>3
      <4>2. old[j] # e
        BY <2>2, <4>1
      <4> QED  BY <3>1, <4>1, <4>2
    <3>2. ASSUME NEW i \in 1..Len(old), x = old[i], x # e
          PROVE \E j \in 1..Len(now) : x = now[j]
      <4>1. i # 1
        BY <1>1, <3>2
      <4> QED  BY <2>2, <3>2, <4>1
    <3> QED  BY <3>1, <3>2
  <2> QED  BY <2>1, <2>4, <2>5, <2>6
<1> QED  BY <1>1, <1>3, <1>4, PendingIs

\* It gives the stream the event.
LEMMA DeliverGives ==
    ASSUME IInv, NEW c \in Clients, Deliver(c) PROVE Promise!Next
<1>0. TypeOK /\ Order /\ ClientsTyped /\ QueuesTyped
  BY TypeSplit DEF IInv
<1>1. PICK q \in Nat, e \in Event : Delivered(c, q, e)
  BY <1>0, DeliverEffect
<1>2. e \in Pending /\ Pending' = Pending \ {e}
  BY <1>0, <1>1, DeliverTakes
<1>3. \A i \in 1..Len(received[c]) :
         received[c][i].by = e.by => received[c][i].no < e.no
  <2>1. 1 \in 1..Len(Held(queues, q)) /\ Held(queues, q)[1] = e /\ q = queue[c]
    BY <1>1 DEF Delivered
  <2> QED  BY <1>0, <2>1 DEF Order, Carried, StreamsAhead, Before
<1>4. e = Head(queues[queue[c]])
  <2>1. /\ q \in 1..Len(queues) /\ q = queue[c]
        /\ Len(Held(queues, q)) # 0 /\ Held(queues, q)[1] = e
    BY <1>1 DEF Delivered
  <2>2. queues[q] \in Seq(Event) /\ Held(queues, q) = queues[q]
    BY <1>0, <2>1, ElementOfSeq DEF QueuesTyped, Held
  <2> QED  BY <2>1, <2>2, EmptySeq
<1>5. /\ received' = [received EXCEPT ![c] = Append(@, e)]
      /\ client' = [client EXCEPT ![c] = IF e.terminal THEN "tellingDone"
                                         ELSE "waiting"]
      /\ client[c] = "waiting" /\ UNCHANGED <<jobVars, emitted>>
  BY <1>4 DEF Deliver, Moves
<1>6. /\ Stream[c] = "open"
      /\ Stream' = [Stream EXCEPT ![c] = IF e.terminal THEN "told" ELSE "open"]
  <2>1. /\ StreamOf("waiting") = "open" /\ StreamOf("tellingDone") = "told"
    BY DEF StreamOf
  <2>2. Stream' = [Stream EXCEPT ![c] = StreamOf(IF e.terminal THEN "tellingDone"
                                                 ELSE "waiting")]
    BY <1>0, <1>5, StreamStep
  <2> QED  BY <1>5, <2>1, <2>2 DEF Stream
<1>7. Promise!Give(c)
  BY <1>2, <1>3, <1>5, <1>6 DEF Promise!Give, jobVars, Decision, Ended
<1> QED  BY <1>7 DEF Promise!Next

\* A poll cuts a stream short while the failure is recorded, or ends it after
\* the verdict, which somebody was told.
LEMMA PollEndsUntold ==
    ASSUME IInv, IInv', NEW c \in Clients, PollEnds(c) PROVE Promise!Next
<1>0. ClientsTyped /\ TypeOK
  BY TypeSplit DEF IInv
<1>1. /\ client[c] = "waiting" /\ status \in TerminalStatus
      /\ client' = [client EXCEPT ![c] = IF Ended THEN "polled" ELSE "cutShort"]
      /\ UNCHANGED <<jobVars, queues, calls, emitted, received>>
  BY DEF PollEnds, PollElapses, Moves
<1>2. Pending' = Pending /\ Decision' = Decision /\ Stream[c] = "open"
  BY <1>1 DEF Pending, Decision, Ended, Stream, StreamOf, jobVars
<1>3. CASE ~Ended
  <2>1. Decision = "failing"
    BY <1>0, <1>1, <1>3 DEF IInv, Stages, TerminalStatus, TypeOK, Decision, Ended
  <2>2. Stream' = [Stream EXCEPT ![c] = StreamOf("cutShort")]
    BY <1>0, <1>1, <1>3, StreamStep
  <2>3. Promise!CutShort(c)
    BY <1>1, <1>2, <2>1, <2>2 DEF Promise!CutShort, StreamOf, jobVars
  <2> QED  BY <2>3 DEF Promise!Next
<1>4. CASE Ended
  <2>1. Stream' = [Stream EXCEPT ![c] = StreamOf("polled")]
    BY <1>0, <1>1, <1>4, StreamStep
  <2>2. ASSUME ~TtlOvertakes
        PROVE \E d \in Clients : Stream[d] \in {"told", "left", "cut"}
                                     \/ Promise!LateEvent(d)
    <3>1. (Verdict /\ CutFails => SomeoneTold)'
      BY VerdictGivesSomeoneTold, PTL
    <3>2. SomeoneTold'
      BY <2>2, <3>1 DEF IInv
    <3>3. \A d \in Clients : client'[d] = IF d = c THEN "polled" ELSE client[d]
      BY <1>0, <1>1, <1>4 DEF ClientsTyped
    <3>4. \E d \in Clients :
             \/ client[d] \in {"leaving", "left", "tellingDone", "told", "cutShort"}
             \/ received[d] # <<>>
                   /\ received[d][Len(received[d])].by = "worker"
      BY <1>1, <3>2, <3>3 DEF SomeoneTold, LateWorkerPut
    <3>5. /\ \A s \in {"leaving", "left"} : StreamOf(s) = "left"
          /\ \A s \in {"tellingDone", "told"} : StreamOf(s) = "told"
          /\ StreamOf("cutShort") = "cut"
      BY DEF StreamOf
    <3> QED  BY <3>4, <3>5 DEF Stream, Promise!LateEvent
  <2>3. Decision = "announced"
    BY <1>4 DEF Decision, Ended
  <2>4. StreamOf("polled") = "polled"
    BY DEF StreamOf
  <2>5. Promise!EndUntold(c)
    BY <1>1, <1>2, <2>1, <2>2, <2>3, <2>4 DEF Promise!EndUntold, jobVars
  <2> QED  BY <2>5 DEF Promise!Next
<1> QED  BY <1>3, <1>4

\* Every step implements a step of StreamPromise, or none.
LEMMA PromiseStep ==
    ASSUME IInv, IInv', [Next]_vars PROVE Promise!Next \/ UNCHANGED Promise!vars
<1> DEFINE Goal == Promise!Next \/ UNCHANGED Promise!vars
<1>0. ClientsTyped
  BY TypeSplit DEF IInv
<1>1. ASSUME UNCHANGED <<queues, calls, emitted, received, Stream>>,
             producer' = producer
      PROVE Goal
  BY <1>1 DEF Promise!vars, Pending, Decision, Ended
<1>2. CASE Submit \/ Run \/ Progress \/ SoftDeadline
  <2>1. /\ Emit(FALSE) /\ UNCHANGED clientVars
        /\ producer # "ended" /\ Decision' = Decision
    BY <1>2 DEF Submit, Run, Progress, SoftDeadline, Working, jobVars, Decision,
        Ended
  <2>2. PICK terminal \in BOOLEAN : terminal = FALSE
    OBVIOUS
  <2> QED  BY <2>1, <2>2, EmitAnnounces
<1>3. CASE Complete \/ FailEvent \/ FailAtOnce \/ ChatFails
  <2>1. /\ Emit(TRUE) /\ UNCHANGED clientVars
        /\ producer # "ended" /\ Decision' = "announced"
    BY <1>3 DEF Complete, FailEvent, FailAtOnce, Working, ChatFails, Decision, Ended
  <2>2. PICK terminal \in BOOLEAN : terminal = TRUE
    OBVIOUS
  <2> QED  BY <2>1, <2>2, EmitAnnounces
<1>4. CASE FailEntry
  <2>1. /\ producer = "running" /\ producer' = "failing"
        /\ UNCHANGED <<queueVars, clientVars>>
    BY <1>4 DEF FailEntry
  <2>2. Promise!Fail
    BY <2>1 DEF Promise!Fail, Decision, Ended, Pending, Stream, queueVars,
        clientVars
  <2> QED  BY <2>2 DEF Promise!Next
<1>5. CASE TtlNears \/ Expire \/ DeleteJob
  BY <1>1, <1>5 DEF TtlNears, Expire, DeleteJob, queueVars, clientVars, Stream
<1>6. ASSUME NEW c \in Clients, ClientStep(c) PROVE Goal
  <2>1. CASE Admit(c)
    <3>1. /\ client[c] = "new" /\ client' = [client EXCEPT ![c] = "admitted"]
          /\ UNCHANGED <<queues, calls, emitted, received, producer>>
      BY <2>1 DEF Admit, Moves, jobVars, queueVars
    <3>2. StreamOf("admitted") = StreamOf("new")
      BY DEF StreamOf
    <3>3. Stream' = Stream
      BY <1>0, <3>1, <3>2, StreamStep DEF Stream
    <3> QED  BY <1>1, <3>1, <3>3
  <2>2. CASE Leave(c)
    <3>1. /\ client[c] \in {"tellingDone", "leaving"}
          /\ client' = [client EXCEPT ![c] =
                          IF client[c] = "leaving" THEN "left" ELSE "told"]
          /\ UNCHANGED <<queues, calls, emitted, received, producer>>
      BY <2>2 DEF Leave, Moves, Closing, jobVars
    <3>2. StreamOf(IF client[c] = "leaving" THEN "left" ELSE "told")
             = StreamOf(client[c])
      BY <3>1 DEF StreamOf
    <3>3. Stream' = Stream
      BY <1>0, <3>1, <3>2, StreamStep DEF Stream
    <3> QED  BY <1>1, <3>1, <3>3
  <2>3. CASE Disconnect(c)
    <3>1. /\ client[c] \in {"admitted", "waiting"}
          /\ client' = [client EXCEPT ![c] =
                          IF client[c] = "waiting" THEN "leaving" ELSE "left"]
          /\ UNCHANGED <<jobVars, queues, calls, emitted, received>>
      BY <2>3 DEF Disconnect, Moves, queueVars
    <3>2. /\ StreamOf(IF client[c] = "waiting" THEN "leaving" ELSE "left") = "left"
          /\ StreamOf(client[c]) \in {"before", "open"}
      BY <3>1 DEF StreamOf
    <3>3. Stream' = [Stream EXCEPT ![c] = "left"]
      BY <1>0, <3>1, <3>2, StreamStep
    <3>4. Stream[c] \in {"before", "open"}
      BY <3>2 DEF Stream
    <3>5. Promise!Leave(c)
      BY <3>1, <3>3, <3>4 DEF Promise!Leave, Pending, jobVars, Decision, Ended
    <3> QED  BY <3>5 DEF Promise!Next
  <2>4. CASE Ping(c)
    BY <1>1, <2>4 DEF Ping, jobVars, queueVars, Stream
  <2> QED  BY <1>6, <2>1, <2>2, <2>3, <2>4, SubscribeBegins, DeliverGives,
              PollEndsUntold DEF ClientStep
<1>7. CASE UNCHANGED vars
  BY <1>1, <1>7 DEF vars, jobVars, queueVars, clientVars, Stream
<1> QED
  BY <1>2, <1>3, <1>4, <1>5, <1>6, <1>7, RunCallPushes, WorkerAnnounces
     DEF Next, JobStep, StoreStep

\* Initially nothing is announced and no stream has begun.
LEMMA PromiseInit == ASSUME Init PROVE Promise!Init
<1>1. /\ producer \in {"extracting", "submitting"}
      /\ queues = <<>> /\ calls = <<>> /\ emitted = 0
      /\ \A c \in Clients : client[c] \in {"new", "admitted"}
      /\ received = [c \in Clients |-> <<>>]
  BY DEF Init
<1>2. \A s \in {"new", "admitted"} : StreamOf(s) = "before"
  BY DEF StreamOf
<1>3. Stream = [c \in Clients |-> "before"]
  BY <1>1, <1>2 DEF Stream
<1>4. Pending = {}
  <2>1. <<>> \in Seq(Seq(Event)) /\ Len(<<>>) = 0
    BY EmptySeq
  <2>2. \A x : ~OnQueue(<<>>, x) /\ ~InCall(<<>>, x)
    BY <2>1 DEF OnQueue, InCall, Held
  <2>3. \A x : x \notin Carrying(<<>>, <<>>)
    BY <2>1, <2>2, CarryingIs
  <2> QED  BY <1>1, <2>3 DEF Pending
<1> QED  BY <1>1, <1>3, <1>4 DEF Promise!Init, Decision, Ended

\* The store implements StreamPromise, for every number of streams, every size
\* of the queues and a job of any origin: whatever overflows, is dropped or is
\* made again, and whenever the polls fall, an event goes to one stream at most,
\* in its emitter's order and before that stream ends, nothing follows the
\* verdict, and a poll closes a stream after it, when somebody took it, or cuts
\* it short between a failure and its announcement.
THEOREM StoreKeepsPromise == Spec => KeepsStreamPromise
<1>1. Init => Promise!Init
  BY PromiseInit
<1>2. IInv /\ IInv' /\ [Next]_vars => [Promise!Next]_(Promise!vars)
  BY PromiseStep
<1> QED
  BY <1>1, <1>2, Invariance, PTL DEF Spec, KeepsStreamPromise, Promise!Spec
=============================================================================
