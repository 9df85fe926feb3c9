------------------------ MODULE SemanticCacheProofs ------------------------
(***************************************************************************)
(* Proofs about the semantic cache, for any number of concurrent lookups,  *)
(* inserts and evictions, with every failure the model has.                *)
(***************************************************************************)
EXTENDS SemanticCache, TLAPS

-----------------------------------------------------------------------------
(* Type correctness.                                                       *)

\* A call that is past the point where it learns its id has one.
IdInv ==
    /\ \A l \in Lookups :
         lookup[l].pc \in {"get", "cleanup", "hit", "cleaned"} => lookup[l].id \in Ids
    /\ \A e \in Evictions :
         IF evict[e].pc = "idle" THEN evict[e].id = None ELSE evict[e].id \in Ids

LookupRecord == [pc : LookupAt, id : Ids \cup {None}, dead : SUBSET Ids]
EvictRecord == [pc : EvictAt, id : Ids \cup {None}]

LEMMA AppendType ==
    ASSUME NEW w \in Write, queue \in Seq(Write), Accepted(w)
    PROVE  queue' \in Seq(Write)
BY DEF Accepted

LEMMA WriteType ==
    ASSUME NEW id \in Ids
    PROVE  Upserted(id) \in Write /\ Deleted(id) \in Write
BY DEF Upserted, Deleted, Write

LEMMA LookupGoesType ==
    ASSUME TypeOK, NEW l \in Lookups, NEW from, NEW to \in LookupAt,
           LookupGoes(l, from, to)
    PROVE  /\ lookup' \in [Lookups -> LookupRecord]
           /\ lookup'[l].pc = to /\ lookup[l].pc = from
           /\ lookup'[l].id = lookup[l].id /\ lookup'[l].dead = lookup[l].dead
           /\ \A k \in Lookups \ {l} : lookup'[k] = lookup[k]
<1>1. lookup \in [Lookups -> LookupRecord]
  BY DEF TypeOK, LookupRecord
<1>2. [lookup[l] EXCEPT !.pc = to] \in LookupRecord
  BY <1>1 DEF LookupRecord
<1>3. lookup' = [lookup EXCEPT ![l] = [lookup[l] EXCEPT !.pc = to]]
  BY <1>1 DEF LookupGoes
<1> QED
  BY <1>1, <1>2, <1>3 DEF LookupRecord, LookupGoes

LEMMA EvictGoesType ==
    ASSUME TypeOK, NEW e \in Evictions, NEW from, NEW to \in EvictAt,
           EvictGoes(e, from, to)
    PROVE  /\ evict' \in [Evictions -> EvictRecord]
           /\ evict'[e].pc = to /\ evict[e].pc = from
           /\ evict'[e].id = evict[e].id
           /\ \A k \in Evictions \ {e} : evict'[k] = evict[k]
<1>1. evict \in [Evictions -> EvictRecord]
  BY DEF TypeOK, EvictRecord
<1>2. [evict[e] EXCEPT !.pc = to] \in EvictRecord
  BY <1>1 DEF EvictRecord
<1>3. evict' = [evict EXCEPT ![e] = [evict[e] EXCEPT !.pc = to]]
  BY <1>1 DEF EvictGoes
<1> QED
  BY <1>1, <1>2, <1>3 DEF EvictRecord, EvictGoes

\* What has been evicted is a set of ids.
LEMMA EvictedType == TypeOK /\ IdInv => Evicted \subseteq Ids
BY DEF Evicted, IdInv

LEMMA TypeInit == Init => TypeOK /\ IdInv
<1> SUFFICES ASSUME Init PROVE TypeOK /\ IdInv
  OBVIOUS
<1>1. queue \in Seq(Write)
  BY DEF Init
<1> QED
  BY <1>1 DEF Init, TypeOK, IdInv, LookupAt, InsertAt, EvictAt

\* How a step of a lookup, an insert or an eviction moves it: the frame that the
\* proofs of the invariants share.
LEMMA LookupStepType ==
    ASSUME TypeOK, IdInv, NEW l \in Lookups, Lookup(l)
    PROVE  /\ lookup' \in [Lookups -> LookupRecord]
           /\ queue' \in Seq(Write)
           /\ lookup'[l].pc \in {"get", "cleanup", "hit", "cleaned"}
                => lookup'[l].id \in Ids
           /\ \A k \in Lookups \ {l} : lookup'[k] = lookup[k]
           /\ UNCHANGED <<kv, points, prompt, insert, evict>>
<1>t. queue \in Seq(Write) /\ lookup \in [Lookups -> LookupRecord] /\ points \subseteq Ids
  BY DEF TypeOK, LookupRecord
<1>1. CASE LookupEmbed(l)
  <2>1. PICK to \in {"search", "failed"} :
          lookup' = [lookup EXCEPT ![l].pc = to, ![l].dead = Evicted]
    BY <1>1 DEF LookupEmbed
  <2>2. [[lookup[l] EXCEPT !.pc = to] EXCEPT !.dead = Evicted] \in LookupRecord
    BY <1>t, EvictedType DEF LookupRecord, LookupAt, LookupFinal
  <2>3. lookup' = [lookup EXCEPT ![l] =
                     [[lookup[l] EXCEPT !.pc = to] EXCEPT !.dead = Evicted]]
    BY <2>1, <1>t
  <2>4. lookup'[l].pc = to
    BY <2>3, <1>t DEF LookupRecord
  <2> QED
    BY <1>1, <1>t, <2>2, <2>3, <2>4 DEF LookupEmbed
<1>2. CASE LookupSearch(l)
  <2>1. ASSUME NEW id \in Best(prompt[l]),
               lookup' = [lookup EXCEPT ![l].pc = "get", ![l].id = id]
        PROVE  /\ lookup' \in [Lookups -> LookupRecord]
               /\ lookup'[l].id \in Ids
               /\ \A k \in Lookups \ {l} : lookup'[k] = lookup[k]
    <3>1. id \in Ids
      BY <1>t DEF Best
    <3>2. [[lookup[l] EXCEPT !.pc = "get"] EXCEPT !.id = id] \in LookupRecord
      BY <1>t, <3>1 DEF LookupRecord, LookupAt
    <3>3. lookup' = [lookup EXCEPT ![l] =
                       [[lookup[l] EXCEPT !.pc = "get"] EXCEPT !.id = id]]
      BY <2>1, <1>t
    <3> QED
      BY <1>t, <3>1, <3>2, <3>3 DEF LookupRecord
  <2>2. ASSUME NEW to \in {"miss", "failed"}, LookupGoes(l, "search", to)
        PROVE  /\ lookup' \in [Lookups -> LookupRecord]
               /\ lookup'[l].pc = to
               /\ \A k \in Lookups \ {l} : lookup'[k] = lookup[k]
    BY <2>2, LookupGoesType DEF LookupAt, LookupFinal
  <2> QED
    BY <1>2, <1>t, <2>1, <2>2 DEF LookupSearch
<1>3. CASE LookupGet(l)
  <2>1. PICK to \in {"hit", "cleanup", "failed"} : LookupGoes(l, "get", to)
    BY <1>3 DEF LookupGet
  <2> QED
    BY <1>3, <1>t, <2>1, LookupGoesType DEF LookupGet, LookupAt, LookupFinal, IdInv
<1>4. CASE LookupCleanup(l)
  <2>1. PICK to \in {"cleaned", "miss"} : LookupGoes(l, "cleanup", to)
    BY <1>4 DEF LookupCleanup
  <2>2. lookup[l].id \in Ids
    BY <2>1 DEF LookupGoes, IdInv
  <2>3. queue' \in Seq(Write)
    BY <1>4, <1>t, <2>2, WriteType, AppendType DEF LookupCleanup, MaybeAccepted
  <2> QED
    BY <1>4, <2>1, <2>2, <2>3, LookupGoesType DEF LookupCleanup, LookupAt, LookupFinal
<1> QED
  BY <1>1, <1>2, <1>3, <1>4 DEF Lookup

LEMMA InsertStepType ==
    ASSUME TypeOK, NEW i \in Inserts, Insert(i)
    PROVE  /\ insert' \in [Inserts -> InsertAt]
           /\ queue' \in Seq(Write)
           /\ kv' \subseteq Ids
           /\ UNCHANGED <<points, prompt, lookup, evict>>
<1> USE DEF TypeOK, InsertAt, InsertFinal, InsertGoes, Ids
<1>1. CASE InsertEmbed(i)
  BY <1>1 DEF InsertEmbed
<1>2. CASE InsertSet(i)
  BY <1>2 DEF InsertSet
<1>3. CASE InsertUpsert(i)
  <2>1. queue' \in Seq(Write)
    BY <1>3, WriteType, AppendType DEF InsertUpsert, MaybeAccepted
  <2> QED
    BY <1>3, <2>1 DEF InsertUpsert
<1>4. CASE InsertUndo(i)
  BY <1>4 DEF InsertUndo
<1> QED
  BY <1>1, <1>2, <1>3, <1>4 DEF Insert

LEMMA EvictStepType ==
    ASSUME TypeOK, IdInv, NEW e \in Evictions, Evict(e)
    PROVE  /\ evict' \in [Evictions -> EvictRecord]
           /\ queue' \in Seq(Write)
           /\ kv' \subseteq kv
           /\ evict'[e].pc # "idle" /\ evict'[e].id \in Ids
           /\ \A k \in Evictions \ {e} : evict'[k] = evict[k]
           /\ UNCHANGED <<points, prompt, lookup, insert>>
<1>t. /\ queue \in Seq(Write) /\ evict \in [Evictions -> EvictRecord]
      /\ points \subseteq Ids /\ kv \subseteq Ids
  BY DEF TypeOK, EvictRecord
<1>1. CASE EvictBegin(e)
  <2>1. PICK id \in kv \cup points :
          evict' = [evict EXCEPT ![e] = [pc |-> "delete", id |-> id]]
    BY <1>1 DEF EvictBegin
  <2>2. [pc |-> "delete", id |-> id] \in EvictRecord /\ id \in Ids
    BY <1>t DEF EvictRecord, EvictAt
  <2> QED
    BY <1>1, <1>t, <2>1, <2>2 DEF EvictBegin
<1>2. CASE EvictDelete(e)
  <2>1. PICK to \in {"del", "failed"} : EvictGoes(e, "delete", to)
    BY <1>2 DEF EvictDelete
  <2>2. evict[e].id \in Ids
    BY <2>1 DEF EvictGoes, IdInv
  <2>3. queue' \in Seq(Write)
    BY <1>2, <1>t, <2>2, WriteType, AppendType DEF EvictDelete, MaybeAccepted
  <2> QED
    BY <1>2, <2>1, <2>2, <2>3, EvictGoesType DEF EvictDelete, EvictAt, EvictFinal
<1>3. CASE EvictDel(e)
  <2>1. PICK to \in {"done", "failed"} : EvictGoes(e, "del", to)
    BY <1>3 DEF EvictDel
  <2>2. evict[e].id \in Ids
    BY <2>1 DEF EvictGoes, IdInv
  <2>3. evict'[e].id = evict[e].id
    BY <2>1, EvictGoesType DEF EvictAt, EvictFinal
  <2> QED
    BY <1>3, <1>t, <2>1, <2>2, <2>3, EvictGoesType DEF EvictDel, EvictAt, EvictFinal
<1> QED
  BY <1>1, <1>2, <1>3 DEF Evict

\* A crash moves calls only, each to where it was or to "failed".
LEMMA CrashType ==
    ASSUME TypeOK, IdInv, Crash
    PROVE  /\ lookup' \in [Lookups -> LookupRecord]
           /\ \A l \in Lookups :
                 /\ lookup'[l].id = lookup[l].id /\ lookup'[l].dead = lookup[l].dead
                 /\ lookup'[l].pc \in {lookup[l].pc, "failed"}
           /\ insert' \in [Inserts -> InsertAt]
           /\ \A i \in Inserts : insert'[i] \in {insert[i], "failed"}
           /\ evict' \in [Evictions -> EvictRecord]
           /\ \A e \in Evictions :
                 /\ evict'[e].id = evict[e].id
                 /\ evict[e].pc \in EvictFinal \cup {"idle"} => evict'[e].pc = evict[e].pc
                 /\ evict'[e].pc \in {evict[e].pc, "failed"}
           /\ UNCHANGED <<kv, points, queue, prompt>>
<1>1. /\ lookup \in [Lookups -> LookupRecord]
      /\ insert \in [Inserts -> InsertAt]
      /\ evict \in [Evictions -> EvictRecord]
  BY DEF TypeOK, LookupRecord, EvictRecord
<1>2. ASSUME NEW l \in Lookups
      PROVE  /\ lookup'[l] \in LookupRecord
             /\ lookup'[l].id = lookup[l].id /\ lookup'[l].dead = lookup[l].dead
             /\ lookup'[l].pc \in {lookup[l].pc, "failed"}
  BY <1>1 DEF Crash, LookupRecord, LookupAt, LookupFinal
<1>3. ASSUME NEW i \in Inserts
      PROVE  /\ insert'[i] \in InsertAt
             /\ insert'[i] \in {insert[i], "failed"}
  BY <1>1 DEF Crash, InsertAt, InsertFinal
<1>4. ASSUME NEW e \in Evictions
      PROVE  /\ evict'[e] \in EvictRecord
             /\ evict'[e].id = evict[e].id
             /\ evict[e].pc \in EvictFinal \cup {"idle"} => evict'[e].pc = evict[e].pc
             /\ evict'[e].pc \in {evict[e].pc, "failed"}
  BY <1>1 DEF Crash, EvictRecord, EvictAt, EvictFinal
<1> QED
  BY <1>2, <1>3, <1>4 DEF Crash

LEMMA TypeStep == TypeOK /\ IdInv /\ [Next]_vars => TypeOK' /\ IdInv'
<1> SUFFICES ASSUME TypeOK, IdInv, [Next]_vars PROVE TypeOK' /\ IdInv'
  OBVIOUS
<1>1. ASSUME NEW l \in Lookups, Lookup(l) PROVE TypeOK' /\ IdInv'
  BY <1>1, LookupStepType DEF TypeOK, IdInv, LookupRecord
<1>2. ASSUME NEW i \in Inserts, Insert(i) PROVE TypeOK' /\ IdInv'
  BY <1>2, InsertStepType DEF TypeOK, IdInv
<1>3. ASSUME NEW e \in Evictions, Evict(e) PROVE TypeOK' /\ IdInv'
  BY <1>3, EvictStepType DEF TypeOK, IdInv, EvictRecord
<1>4. ASSUME NEW id \in Ids, Expire(id) PROVE TypeOK' /\ IdInv'
  BY <1>4 DEF Expire, TypeOK, IdInv
<1>5. CASE Apply
  <2>1. Head(queue) \in Write /\ Tail(queue) \in Seq(Write)
    BY <1>5 DEF Apply, TypeOK
  <2> QED
    BY <1>5, <2>1 DEF Apply, TypeOK, IdInv, Write
<1>6. CASE Crash
  BY <1>6, CrashType DEF TypeOK, IdInv, LookupRecord, EvictRecord
<1>7. CASE UNCHANGED vars
  BY <1>7 DEF vars, TypeOK, IdInv
<1> QED
  BY <1>1, <1>2, <1>3, <1>4, <1>5, <1>6, <1>7 DEF Next

\* Every reachable state has its variables in their types.
THEOREM CacheType == Spec => []TypeOK
<1>1. Spec => [](TypeOK /\ IdInv)
  BY TypeInit, TypeStep, PTL DEF Spec
<1> QED
  BY <1>1, PTL

-----------------------------------------------------------------------------
(* Keys are written once.                                                  *)

\* An id that any store, queue or call knows of is past its Set: ids are fresh,
\* so a key that is gone never comes back.
WrittenInv ==
    \A id \in Ids :
        \/ id \in kv
        \/ id \in points
        \/ InQueue(Upserted(id)) \/ InQueue(Deleted(id))
        \/ \E l \in Lookups : lookup[l].id = id
        \/ \E e \in Evictions : evict[e].id = id
        => insert[id] \notin {"idle", "set"}

\* A cleanup is of a point whose key is gone; what was evicted has no key; what
\* a lookup takes for evicted was evicted.
GoneInv ==
    /\ \A l \in Lookups : lookup[l].pc = "cleanup" => lookup[l].id \notin kv
    /\ Evicted \cap kv = {}
    /\ \A l \in Lookups : lookup[l].dead \subseteq Evicted

\* Somebody asked to evict id.
Asked(id) == \E e \in Evictions : evict[e].id = id

\* Only points whose key is gone, or whose eviction was asked for, are deleted,
\* and an acknowledged upsert is never forgotten.
FindInv ==
    /\ \A id \in Ids : InQueue(Deleted(id)) /\ id \in kv => Asked(id)
    /\ InsertedIsFindable

CacheInv == WrittenInv /\ GoneInv /\ FindInv /\ NoHitAfterEvict

\* What the queue holds after a write is accepted, and after one is applied.
LEMMA QueueAppend ==
    ASSUME queue \in Seq(Write), NEW w \in Write, Accepted(w)
    PROVE  \A x : InQueue(x)' <=> InQueue(x) \/ x = w
<1>1. /\ Len(queue') = Len(queue) + 1 /\ Len(queue) \in Nat
      /\ queue'[Len(queue) + 1] = w
      /\ \A k \in 1..Len(queue) : queue'[k] = queue[k]
  BY DEF Accepted
<1> QED
  BY <1>1 DEF InQueue

LEMMA QueueTail ==
    ASSUME queue \in Seq(Write), queue # << >>, queue' = Tail(queue)
    PROVE  /\ \A x : InQueue(x)' => InQueue(x)
           /\ \A x : InQueue(x) => x = Head(queue) \/ InQueue(x)'
           /\ InQueue(Head(queue))
<1>1. /\ Len(queue) \in Nat \ {0} /\ Len(queue') = Len(queue) - 1
      /\ Head(queue) = queue[1]
      /\ \A k \in 1..Len(queue) - 1 : queue'[k] = queue[k + 1]
  OBVIOUS
<1>2. ASSUME NEW x, NEW k \in 1..Len(queue), queue[k] = x, k # 1
      PROVE  InQueue(x)'
  <2>1. k - 1 \in 1..Len(queue') /\ queue'[k - 1] = x
    BY <1>1, <1>2
  <2> QED
    BY <2>1 DEF InQueue
<1> QED
  BY <1>1, <1>2 DEF InQueue

LEMMA WritesDiffer ==
    \A a, b : /\ Upserted(a) # Deleted(b)
              /\ Upserted(a) = Upserted(b) => a = b
              /\ Deleted(a) = Deleted(b) => a = b
BY DEF Upserted, Deleted

\* What a step of a lookup does beyond its types.
LEMMA LookupEffect ==
    ASSUME TypeOK, IdInv, NEW l \in Lookups, Lookup(l)
    PROVE  /\ lookup'[l].id = lookup[l].id \/ lookup'[l].id \in points
           /\ lookup'[l].dead \in {lookup[l].dead, Evicted}
           /\ lookup'[l].pc = "cleanup" => lookup'[l].id \notin kv
           /\ lookup'[l].pc = "hit" =>
                lookup'[l].id \in kv /\ lookup'[l].dead = lookup[l].dead
           /\ \/ UNCHANGED queue
              \/ /\ lookup[l].pc = "cleanup" /\ lookup[l].id \in Ids
                 /\ Accepted(Deleted(lookup[l].id))
<1>t. lookup \in [Lookups -> LookupRecord]
  BY DEF TypeOK, LookupRecord
<1>1. CASE LookupEmbed(l)
  <2>1. PICK to \in {"search", "failed"} :
          lookup' = [lookup EXCEPT ![l].pc = to, ![l].dead = Evicted]
    BY <1>1 DEF LookupEmbed
  <2>2. /\ lookup'[l].pc = to /\ lookup'[l].id = lookup[l].id
        /\ lookup'[l].dead = Evicted
    BY <2>1, <1>t DEF LookupRecord
  <2> QED
    BY <1>1, <2>2 DEF LookupEmbed
<1>2. CASE LookupSearch(l)
  <2>1. ASSUME NEW id \in Best(prompt[l]),
               lookup' = [lookup EXCEPT ![l].pc = "get", ![l].id = id]
        PROVE  /\ lookup'[l].id \in points /\ lookup'[l].pc = "get"
               /\ lookup'[l].dead = lookup[l].dead
    BY <2>1, <1>t DEF Best, LookupRecord
  <2>2. ASSUME NEW to \in {"miss", "failed"}, LookupGoes(l, "search", to)
        PROVE  /\ lookup'[l].id = lookup[l].id /\ lookup'[l].pc = to
               /\ lookup'[l].dead = lookup[l].dead
    BY <2>2, LookupGoesType DEF LookupAt, LookupFinal
  <2> QED
    BY <1>2, <2>1, <2>2 DEF LookupSearch
<1>3. CASE LookupGet(l)
  <2>1. ASSUME NEW to \in {"hit", "cleanup", "failed"}, LookupGoes(l, "get", to)
        PROVE  /\ lookup'[l].id = lookup[l].id /\ lookup'[l].pc = to
               /\ lookup'[l].dead = lookup[l].dead
    BY <2>1, LookupGoesType DEF LookupAt, LookupFinal
  <2> QED
    BY <1>3, <2>1 DEF LookupGet
<1>4. CASE LookupCleanup(l)
  <2>1. PICK to \in {"cleaned", "miss"} : LookupGoes(l, "cleanup", to)
    BY <1>4 DEF LookupCleanup
  <2>2. /\ lookup'[l].id = lookup[l].id /\ lookup'[l].pc = to
        /\ lookup'[l].dead = lookup[l].dead
    BY <2>1, LookupGoesType DEF LookupAt, LookupFinal
  <2>3. lookup[l].pc = "cleanup" /\ lookup[l].id \in Ids
    BY <2>1 DEF LookupGoes, IdInv
  <2> QED
    BY <1>4, <2>1, <2>2, <2>3 DEF LookupCleanup, MaybeAccepted
<1> QED
  BY <1>1, <1>2, <1>3, <1>4 DEF Lookup

\* What a step of an insert does beyond its types.
LEMMA InsertEffect ==
    ASSUME TypeOK, NEW i \in Inserts, Insert(i)
    PROVE  /\ \A k \in Inserts \ {i} : insert'[k] = insert[k]
           /\ insert'[i] \in {"idle", "set"} => insert[i] = "idle"
           /\ kv' \subseteq kv \cup {i}
           /\ i \in kv' /\ i \notin kv => insert[i] = "set" /\ insert'[i] # "done"
           /\ insert'[i] = "done" => Accepted(Upserted(i)) /\ insert[i] = "upsert"
           /\ \/ UNCHANGED queue
              \/ Accepted(Upserted(i)) /\ insert[i] = "upsert"
<1>g. ASSUME NEW from, NEW to, InsertGoes(i, from, to)
      PROVE  /\ insert'[i] = to /\ insert[i] = from
             /\ \A k \in Inserts \ {i} : insert'[k] = insert[k]
  BY <1>g DEF TypeOK, InsertGoes
<1>1. CASE InsertEmbed(i)
  <2>1. PICK to \in {"set", "failed"} : InsertGoes(i, "idle", to)
    BY <1>1 DEF InsertEmbed
  <2>2. /\ insert'[i] = to /\ insert[i] = "idle"
        /\ \A k \in Inserts \ {i} : insert'[k] = insert[k]
    BY <2>1, <1>g
  <2> QED
    BY <1>1, <2>2 DEF InsertEmbed
<1>2. CASE InsertSet(i)
  <2>1. PICK to \in {"upsert", "failed"} : InsertGoes(i, "set", to)
    BY <1>2 DEF InsertSet
  <2>2. /\ insert'[i] = to /\ insert[i] = "set"
        /\ \A k \in Inserts \ {i} : insert'[k] = insert[k]
    BY <2>1, <1>g
  <2>3. kv' \subseteq kv \cup {i} /\ UNCHANGED queue
    BY <1>2 DEF InsertSet
  <2> QED
    BY <2>2, <2>3
<1>3. CASE InsertUpsert(i)
  <2>1. ASSUME NEW to \in {"done", "undo"}, InsertGoes(i, "upsert", to)
        PROVE  /\ insert'[i] = to /\ insert[i] = "upsert"
               /\ \A k \in Inserts \ {i} : insert'[k] = insert[k]
    BY <2>1, <1>g
  <2> QED
    BY <1>3, <2>1 DEF InsertUpsert, MaybeAccepted
<1>4. CASE InsertUndo(i)
  <2>1. /\ insert'[i] = "failed" /\ insert[i] = "undo"
        /\ \A k \in Inserts \ {i} : insert'[k] = insert[k]
    BY <1>4, <1>g DEF InsertUndo
  <2>2. kv' \subseteq kv /\ UNCHANGED queue
    BY <1>4 DEF InsertUndo
  <2> QED
    BY <2>1, <2>2
<1> QED
  BY <1>1, <1>2, <1>3, <1>4 DEF Insert

\* What a step of an eviction does beyond its types.
LEMMA EvictEffect ==
    ASSUME TypeOK, IdInv, NEW e \in Evictions, Evict(e)
    PROVE  /\ \/ evict'[e].id = evict[e].id
              \/ evict[e].id = None /\ evict'[e].id \in kv \cup points
           /\ evict[e].pc # "done"
           /\ evict'[e].pc = "done" => evict'[e].id \notin kv'
           /\ \/ UNCHANGED queue
              \/ evict[e].id \in Ids /\ Accepted(Deleted(evict[e].id))
                                     /\ evict'[e].id = evict[e].id
<1>t. evict \in [Evictions -> EvictRecord]
  BY DEF TypeOK, EvictRecord
<1>1. CASE EvictBegin(e)
  <2>1. PICK id \in kv \cup points :
          evict' = [evict EXCEPT ![e] = [pc |-> "delete", id |-> id]]
    BY <1>1 DEF EvictBegin
  <2>2. evict'[e].id = id /\ evict'[e].pc = "delete"
    BY <2>1, <1>t
  <2>3. evict[e].pc = "idle" /\ evict[e].id = None
    BY <1>1 DEF EvictBegin, IdInv
  <2> QED
    BY <1>1, <2>2, <2>3 DEF EvictBegin
<1>2. CASE EvictDelete(e)
  <2>1. PICK to \in {"del", "failed"} : EvictGoes(e, "delete", to)
    BY <1>2 DEF EvictDelete
  <2>2. evict[e].id \in Ids /\ evict[e].pc = "delete"
    BY <2>1 DEF EvictGoes, IdInv
  <2>3. evict'[e].id = evict[e].id /\ evict'[e].pc = to
    BY <2>1, EvictGoesType DEF EvictAt, EvictFinal
  <2> QED
    BY <1>2, <2>2, <2>3 DEF EvictDelete, MaybeAccepted
<1>3. CASE EvictDel(e)
  <2>1. ASSUME NEW to \in {"done", "failed"}, EvictGoes(e, "del", to)
        PROVE  /\ evict'[e].id = evict[e].id /\ evict'[e].pc = to
               /\ evict[e].pc = "del"
    BY <2>1, EvictGoesType DEF EvictAt, EvictFinal
  <2> QED
    BY <1>3, <2>1 DEF EvictDel
<1> QED
  BY <1>1, <1>2, <1>3 DEF Evict

LEMMA WrittenStep == TypeOK /\ IdInv /\ WrittenInv /\ [Next]_vars => WrittenInv'
<1> SUFFICES ASSUME TypeOK, IdInv, WrittenInv, [Next]_vars,
                    NEW id \in Ids, insert'[id] \in {"idle", "set"}
             PROVE  /\ id \notin kv' /\ id \notin points'
                    /\ ~InQueue(Upserted(id))' /\ ~InQueue(Deleted(id))'
                    /\ \A l \in Lookups : lookup'[l].id # id
                    /\ \A e \in Evictions : evict'[e].id # id
  BY DEF WrittenInv
<1> DEFINE Unknown ==
      /\ insert[id] \in {"idle", "set"}
      /\ id \notin kv /\ id \notin points
      /\ ~InQueue(Upserted(id)) /\ ~InQueue(Deleted(id))
      /\ \A l \in Lookups : lookup[l].id # id
      /\ \A e \in Evictions : evict[e].id # id
<1>q. queue \in Seq(Write)
  BY DEF TypeOK
<1>u. insert[id] \in {"idle", "set"} => Unknown
  BY DEF WrittenInv
<1> HIDE DEF Unknown
<1>1. ASSUME NEW l \in Lookups, Lookup(l)
      PROVE  /\ id \notin kv' /\ id \notin points'
             /\ ~InQueue(Upserted(id))' /\ ~InQueue(Deleted(id))'
             /\ \A k \in Lookups : lookup'[k].id # id
             /\ \A e \in Evictions : evict'[e].id # id
  <2>1. Unknown
    BY <1>1, <1>u, LookupStepType
  <2>2. ~InQueue(Upserted(id))' /\ ~InQueue(Deleted(id))'
    <3>1. CASE UNCHANGED queue
      BY <2>1, <3>1 DEF Unknown, InQueue
    <3>2. CASE lookup[l].id \in Ids /\ Accepted(Deleted(lookup[l].id))
      BY <2>1, <3>2, <1>q, QueueAppend, WriteType, WritesDiffer DEF Unknown
    <3> QED
      BY <1>1, <3>1, <3>2, LookupEffect
  <2> QED
    BY <1>1, <2>1, <2>2, LookupStepType, LookupEffect DEF Unknown
<1>2. ASSUME NEW i \in Inserts, Insert(i)
      PROVE  /\ id \notin kv' /\ id \notin points'
             /\ ~InQueue(Upserted(id))' /\ ~InQueue(Deleted(id))'
             /\ \A k \in Lookups : lookup'[k].id # id
             /\ \A e \in Evictions : evict'[e].id # id
  <2>1. Unknown
    BY <1>2, <1>u, InsertEffect DEF Ids
  <2>2. id = i => insert[i] = "idle"
    BY <1>2, InsertEffect
  <2>3. ~InQueue(Upserted(id))' /\ ~InQueue(Deleted(id))'
    <3>1. CASE UNCHANGED queue
      BY <2>1, <3>1 DEF Unknown, InQueue
    <3>2. CASE id # i /\ Accepted(Upserted(i))
      BY <2>1, <3>2, <1>q, QueueAppend, WriteType, WritesDiffer DEF Unknown, Ids
    <3> QED
      BY <1>2, <2>2, <3>1, <3>2, InsertEffect
  <2> QED
    BY <1>2, <2>1, <2>2, <2>3, InsertStepType, InsertEffect DEF Unknown
<1>3. ASSUME NEW e \in Evictions, Evict(e)
      PROVE  /\ id \notin kv' /\ id \notin points'
             /\ ~InQueue(Upserted(id))' /\ ~InQueue(Deleted(id))'
             /\ \A k \in Lookups : lookup'[k].id # id
             /\ \A k \in Evictions : evict'[k].id # id
  <2>1. Unknown
    BY <1>3, <1>u, EvictStepType
  <2>2. ~InQueue(Upserted(id))' /\ ~InQueue(Deleted(id))'
    <3>1. CASE UNCHANGED queue
      BY <2>1, <3>1 DEF Unknown, InQueue
    <3>2. CASE evict[e].id \in Ids /\ Accepted(Deleted(evict[e].id))
      BY <2>1, <3>2, <1>q, QueueAppend, WriteType, WritesDiffer DEF Unknown
    <3> QED
      BY <1>3, <3>1, <3>2, EvictEffect
  <2> QED
    BY <1>3, <2>1, <2>2, EvictStepType, EvictEffect DEF Unknown
<1>4. CASE \E x \in Ids : Expire(x)
  BY <1>4, <1>u DEF Expire, Unknown, InQueue
<1>5. CASE Apply
  <2>1. Unknown
    BY <1>5, <1>u DEF Apply
  <2>2. /\ \A x : InQueue(x)' => InQueue(x)
        /\ InQueue(Head(queue))
    BY <1>5, <1>q, QueueTail DEF Apply
  <2>3. Head(queue) \in Write
    BY <1>5, <1>q DEF Apply
  <2>4. Head(queue).op = "upsert" => Head(queue) = Upserted(Head(queue).id)
    BY <2>3 DEF Write, Upserted
  <2> QED
    BY <1>5, <2>1, <2>2, <2>4 DEF Apply, Unknown
<1>6. CASE Crash
  <2>1. Unknown
    BY <1>6, <1>u, CrashType DEF Ids
  <2> QED
    BY <1>6, <2>1, CrashType DEF Unknown, InQueue
<1>7. CASE UNCHANGED vars
  BY <1>7, <1>u DEF vars, Unknown, InQueue
<1> QED
  BY <1>1, <1>2, <1>3, <1>4, <1>5, <1>6, <1>7 DEF Next

-----------------------------------------------------------------------------
(* An eviction is for good, and what is inserted is found.                 *)

\* A key appears only where nobody knows of its id, and what was evicted stays
\* evicted.
LEMMA Fresh ==
    TypeOK /\ IdInv /\ WrittenInv /\ [Next]_vars =>
        /\ \A id \in kv' \ kv : /\ insert[id] = "set" /\ insert'[id] # "done"
                                /\ ~InQueue(Deleted(id))
                                /\ \A l \in Lookups : lookup[l].id # id
                                /\ \A e \in Evictions : evict[e].id # id
        /\ Evicted \subseteq Evicted'
        /\ \A e \in Evictions : evict'[e].id = evict[e].id \/ evict[e].id = None
<1> SUFFICES ASSUME TypeOK, IdInv, WrittenInv, [Next]_vars
             PROVE  /\ \A id \in kv' \ kv :
                         /\ insert[id] = "set" /\ insert'[id] # "done"
                         /\ ~InQueue(Deleted(id))
                         /\ \A l \in Lookups : lookup[l].id # id
                         /\ \A e \in Evictions : evict[e].id # id
                    /\ Evicted \subseteq Evicted'
                    /\ \A e \in Evictions :
                         evict'[e].id = evict[e].id \/ evict[e].id = None
  OBVIOUS
<1>e. evict \in [Evictions -> EvictRecord]
  BY DEF TypeOK, EvictRecord
<1>s. ASSUME NEW id \in kv' \ kv, insert[id] = "set", id \in Ids
      PROVE  /\ ~InQueue(Deleted(id))
             /\ \A l \in Lookups : lookup[l].id # id
             /\ \A e \in Evictions : evict[e].id # id
  BY <1>s DEF WrittenInv
<1>u. ASSUME UNCHANGED evict
      PROVE  /\ Evicted \subseteq Evicted'
             /\ \A e \in Evictions : evict'[e].id = evict[e].id
  BY <1>u DEF Evicted
<1>1. ASSUME NEW l \in Lookups, Lookup(l) PROVE kv' = kv /\ UNCHANGED evict
  BY <1>1, LookupStepType
<1>2. ASSUME NEW i \in Inserts, Insert(i)
      PROVE  /\ UNCHANGED evict
             /\ \A id \in kv' \ kv : id = i /\ insert[id] = "set" /\ insert'[id] # "done"
  BY <1>2, InsertStepType, InsertEffect
<1>3. ASSUME NEW e \in Evictions, Evict(e)
      PROVE  /\ kv' \subseteq kv
             /\ Evicted \subseteq Evicted'
             /\ \A f \in Evictions : evict'[f].id = evict[f].id \/ evict[f].id = None
  <2>1. /\ kv' \subseteq kv
        /\ \A f \in Evictions \ {e} : evict'[f] = evict[f]
    BY <1>3, EvictStepType
  <2>2. evict[e].pc # "done" /\ (evict'[e].id = evict[e].id \/ evict[e].id = None)
    BY <1>3, EvictEffect
  <2>3. \A f \in Evictions : evict[f].pc = "done" => evict'[f] = evict[f]
    BY <2>1, <2>2
  <2> QED
    BY <2>1, <2>2, <2>3 DEF Evicted
<1>4. CASE \E x \in Ids : Expire(x)
  BY <1>4, <1>u DEF Expire
<1>5. CASE Apply
  BY <1>5, <1>u DEF Apply
<1>6. CASE Crash
  <2>1. /\ kv' = kv
        /\ \A f \in Evictions :
             /\ evict'[f].id = evict[f].id
             /\ evict[f].pc = "done" => evict'[f].pc = "done"
    BY <1>6, CrashType DEF EvictFinal
  <2> QED
    BY <2>1 DEF Evicted
<1>7. CASE UNCHANGED vars
  BY <1>7, <1>u DEF vars
<1> QED
  BY <1>1, <1>2, <1>3, <1>4, <1>5, <1>6, <1>7, <1>s, <1>u DEF Next, Ids

LEMMA GoneStep ==
    TypeOK /\ IdInv /\ WrittenInv /\ GoneInv /\ [Next]_vars => GoneInv'
<1> SUFFICES ASSUME TypeOK, IdInv, WrittenInv, GoneInv, [Next]_vars
             PROVE  GoneInv'
  OBVIOUS
<1>f. /\ \A id \in kv' \ kv : /\ \A l \in Lookups : lookup[l].id # id
                              /\ \A e \in Evictions : evict[e].id # id
      /\ Evicted \subseteq Evicted'
  BY Fresh
<1>1. ASSUME NEW l \in Lookups
      PROVE  lookup'[l].pc = "cleanup" => lookup'[l].id \notin kv'
  <2>1. ASSUME lookup'[l].pc = lookup[l].pc, lookup'[l].id = lookup[l].id
        PROVE  lookup'[l].pc = "cleanup" => lookup'[l].id \notin kv'
    BY <1>f, <2>1 DEF GoneInv
  <2>2. CASE \E k \in Lookups : Lookup(k)
    <3>1. PICK k \in Lookups : Lookup(k)
      BY <2>2
    <3>2. CASE k = l
      BY <3>1, <3>2, LookupStepType, LookupEffect
    <3>3. CASE k # l
      BY <2>1, <3>1, <3>3, LookupStepType
    <3> QED
      BY <3>2, <3>3
  <2>3. CASE UNCHANGED lookup
    BY <2>1, <2>3
  <2>4. CASE Crash
    BY <2>1, <2>4, CrashType
  <2> QED
    BY <2>2, <2>3, <2>4, InsertStepType, EvictStepType
       DEF Next, Expire, Apply, vars
<1>2. Evicted' \cap kv' = {}
  <2>1. \A id \in Evicted : id \notin kv'
    BY <1>f DEF GoneInv, Evicted
  <2>2. ASSUME NEW e \in Evictions, evict'[e].pc = "done"
        PROVE  evict'[e].id \in Evicted \/ evict'[e].id \notin kv'
    <3>1. ASSUME evict'[e].pc = evict[e].pc, evict'[e].id = evict[e].id
          PROVE  evict'[e].id \in Evicted
      BY <2>2, <3>1 DEF Evicted
    <3>2. CASE \E k \in Evictions : Evict(k)
      <4>1. PICK k \in Evictions : Evict(k)
        BY <3>2
      <4>2. CASE k = e
        BY <2>2, <4>1, <4>2, EvictEffect
      <4>3. CASE k # e
        BY <3>1, <4>1, <4>3, EvictStepType
      <4> QED
        BY <4>2, <4>3
    <3>3. CASE UNCHANGED evict
      BY <3>1, <3>3
    <3>4. CASE Crash
      BY <2>2, <3>1, <3>4, CrashType
    <3> QED
      BY <3>2, <3>3, <3>4, InsertStepType, LookupStepType
         DEF Next, Expire, Apply, vars
  <2> QED
    BY <2>1, <2>2 DEF Evicted
<1>3. ASSUME NEW l \in Lookups PROVE lookup'[l].dead \subseteq Evicted'
  <2>1. ASSUME lookup'[l].dead \in {lookup[l].dead, Evicted}
        PROVE  lookup'[l].dead \subseteq Evicted'
    BY <1>f, <2>1 DEF GoneInv
  <2>2. CASE \E k \in Lookups : Lookup(k)
    BY <2>1, <2>2, LookupStepType, LookupEffect
  <2>3. CASE UNCHANGED lookup
    BY <2>1, <2>3
  <2>4. CASE Crash
    BY <2>1, <2>4, CrashType
  <2> QED
    BY <2>2, <2>3, <2>4, InsertStepType, EvictStepType
       DEF Next, Expire, Apply, vars
<1> QED
  BY <1>1, <1>2, <1>3 DEF GoneInv

\* What was asked for stays asked for.
LEMMA AskedStays ==
    TypeOK /\ IdInv /\ WrittenInv /\ [Next]_vars
        => \A id \in Ids : Asked(id) => Asked(id)'
<1> None \notin Ids
  BY CacheAssumption DEF Ids
<1> QED
  BY Fresh DEF Asked

\* No live key has the deletion of its point under way, unless somebody asked
\* for its eviction.
LEMMA DeletedStep ==
    TypeOK /\ IdInv /\ WrittenInv /\ GoneInv /\ FindInv /\ [Next]_vars
        => \A id \in Ids : InQueue(Deleted(id))' /\ id \in kv' => Asked(id)'
<1> SUFFICES ASSUME TypeOK, IdInv, WrittenInv, GoneInv, FindInv, [Next]_vars,
                    NEW id \in Ids, InQueue(Deleted(id))', id \in kv'
             PROVE  Asked(id)'
  OBVIOUS
<1>q. queue \in Seq(Write)
  BY DEF TypeOK
<1>1. ASSUME InQueue(Deleted(id)) PROVE Asked(id)'
  <2>1. id \in kv
    BY <1>1, Fresh
  <2> QED
    BY <1>1, <2>1, AskedStays DEF FindInv
<1>2. CASE UNCHANGED queue
  BY <1>1, <1>2 DEF InQueue
<1>3. ASSUME NEW l \in Lookups, Lookup(l) PROVE Asked(id)'
  <2>1. CASE /\ lookup[l].pc = "cleanup" /\ lookup[l].id \in Ids
             /\ Accepted(Deleted(lookup[l].id))
    <3>1. InQueue(Deleted(id)) \/ id = lookup[l].id
      BY <2>1, <1>q, QueueAppend, WriteType, WritesDiffer
    <3>2. id # lookup[l].id
      BY <2>1, <1>3, LookupStepType DEF GoneInv
    <3> QED
      BY <1>1, <3>1, <3>2
  <2> QED
    BY <1>2, <1>3, <2>1, LookupEffect
<1>4. ASSUME NEW i \in Inserts, Insert(i) PROVE Asked(id)'
  <2>1. CASE Accepted(Upserted(i))
    BY <1>1, <2>1, <1>q, QueueAppend, WriteType, WritesDiffer DEF Ids
  <2> QED
    BY <1>2, <1>4, <2>1, InsertEffect
<1>5. ASSUME NEW e \in Evictions, Evict(e) PROVE Asked(id)'
  <2>1. CASE /\ evict[e].id \in Ids /\ Accepted(Deleted(evict[e].id))
             /\ evict'[e].id = evict[e].id
    <3>1. InQueue(Deleted(id)) \/ id = evict'[e].id
      BY <2>1, <1>q, QueueAppend, WriteType, WritesDiffer
    <3> QED
      BY <1>1, <3>1 DEF Asked
  <2> QED
    BY <1>2, <1>5, <2>1, EvictEffect
<1>6. CASE Apply
  BY <1>1, <1>6, <1>q, QueueTail DEF Apply
<1> QED
  BY <1>2, <1>3, <1>4, <1>5, <1>6 DEF Next, Expire, Crash, vars

LEMMA FindableStep ==
    TypeOK /\ IdInv /\ WrittenInv /\ GoneInv /\ FindInv /\ [Next]_vars
        => InsertedIsFindable'
<1> SUFFICES ASSUME TypeOK, IdInv, WrittenInv, GoneInv, FindInv, [Next]_vars,
                    NEW id \in Ids, insert'[id] = "done", id \in kv', ~Asked(id)'
             PROVE  Findable(id)'
  BY DEF InsertedIsFindable, Asked
<1>q. queue \in Seq(Write)
  BY DEF TypeOK
<1>a. ~InQueue(Deleted(id))'
  BY DeletedStep
<1>k. id \in kv
  BY Fresh
<1>n. ~Asked(id)
  BY AskedStays
<1>p. insert[id] = "done" => id \in points \/ InQueue(Upserted(id))
  BY <1>k, <1>n DEF FindInv, InsertedIsFindable, Findable, Asked
<1>d. ~InQueue(Deleted(id))
  BY <1>k, <1>n DEF FindInv
<1> SUFFICES id \in points' \/ InQueue(Upserted(id))'
  BY <1>a DEF Findable
<1>1. ASSUME insert[id] = "done", points' = points, UNCHANGED queue
      PROVE  id \in points' \/ InQueue(Upserted(id))'
  BY <1>1, <1>p DEF InQueue
<1>2. ASSUME insert[id] = "done", points' = points,
             NEW w \in Write, Accepted(w)
      PROVE  id \in points' \/ InQueue(Upserted(id))'
  BY <1>2, <1>p, <1>q, QueueAppend
<1>3. ASSUME NEW l \in Lookups, Lookup(l)
      PROVE  id \in points' \/ InQueue(Upserted(id))'
  BY <1>1, <1>2, <1>3, LookupStepType, LookupEffect, WriteType
<1>4. ASSUME NEW i \in Inserts, Insert(i)
      PROVE  id \in points' \/ InQueue(Upserted(id))'
  <2>1. CASE id = i
    <3>1. Accepted(Upserted(id))
      BY <1>4, <2>1, InsertEffect
    <3> QED
      BY <3>1, <1>q, QueueAppend, WriteType
  <2>2. CASE id # i
    <3>1. insert[id] = "done" /\ points' = points /\ i \in Ids
      BY <1>4, <2>2, InsertStepType, InsertEffect DEF Ids
    <3> QED
      BY <1>1, <1>2, <1>4, <3>1, InsertEffect, WriteType
  <2> QED
    BY <2>1, <2>2
<1>5. ASSUME NEW e \in Evictions, Evict(e)
      PROVE  id \in points' \/ InQueue(Upserted(id))'
  BY <1>1, <1>2, <1>5, EvictStepType, EvictEffect, WriteType
<1>6. CASE Apply
  <2>1. insert[id] = "done"
    BY <1>6 DEF Apply
  <2>2. Head(queue) # Deleted(id)
    BY <1>6, <1>q, <1>d, QueueTail DEF Apply
  <2>3. Head(queue) \in Write
    BY <1>6, <1>q DEF Apply
  <2>4. /\ Head(queue) = Upserted(id) => Head(queue).op = "upsert" /\ Head(queue).id = id
        /\ Head(queue).op # "upsert" => Head(queue) = Deleted(Head(queue).id)
    BY <2>3 DEF Write, Upserted, Deleted
  <2>5. id \in points => id \in points'
    BY <1>6, <2>2, <2>4 DEF Apply
  <2>6. InQueue(Upserted(id)) => Head(queue) = Upserted(id) \/ InQueue(Upserted(id))'
    BY <1>6, <1>q, QueueTail DEF Apply
  <2> QED
    BY <1>6, <1>p, <2>1, <2>4, <2>5, <2>6 DEF Apply
<1>7. CASE \E x \in Ids : Expire(x)
  BY <1>1, <1>7 DEF Expire
<1>8. CASE Crash
  <2>1. insert[id] = "done"
    BY <1>8, CrashType DEF Ids
  <2> QED
    BY <1>1, <1>8, <2>1 DEF Crash
<1>9. CASE UNCHANGED vars
  BY <1>1, <1>9 DEF vars
<1> QED
  BY <1>3, <1>4, <1>5, <1>6, <1>7, <1>8, <1>9 DEF Next

\* A hit is of a live key, so of nothing that had been evicted.
LEMMA HitStep ==
    TypeOK /\ IdInv /\ GoneInv /\ NoHitAfterEvict /\ [Next]_vars => NoHitAfterEvict'
<1> SUFFICES ASSUME TypeOK, IdInv, GoneInv, NoHitAfterEvict, [Next]_vars,
                    NEW l \in Lookups, lookup'[l].pc = "hit"
             PROVE  lookup'[l].id \notin lookup'[l].dead
  BY DEF NoHitAfterEvict
<1>1. CASE UNCHANGED lookup
  BY <1>1 DEF NoHitAfterEvict
<1>2. ASSUME NEW k \in Lookups, Lookup(k)
      PROVE  lookup'[l].id \notin lookup'[l].dead
  <2>1. CASE k = l
    BY <1>2, <2>1, LookupEffect DEF GoneInv
  <2>2. CASE k # l
    BY <1>2, <2>2, LookupStepType DEF NoHitAfterEvict
  <2> QED
    BY <2>1, <2>2
<1>3. CASE Crash
  BY <1>3, CrashType DEF NoHitAfterEvict
<1> QED
  BY <1>1, <1>2, <1>3, InsertStepType, EvictStepType DEF Next, Expire, Apply, vars

LEMMA CacheInvInit == Init => CacheInv
<1> SUFFICES ASSUME Init PROVE CacheInv
  OBVIOUS
<1>1. \A x : ~InQueue(x)
  BY DEF Init, InQueue
<1>2. None \notin Ids
  BY CacheAssumption DEF Ids
<1>3. Evicted = {}
  BY DEF Init, Evicted
<1> QED
  BY <1>1, <1>2, <1>3
     DEF Init, CacheInv, WrittenInv, GoneInv, FindInv, NoHitAfterEvict, InsertedIsFindable, Ids

\* The inductive invariant that the two theorems below read off.
THEOREM CacheInvariant == Spec => [](TypeOK /\ IdInv /\ CacheInv)
<1>1. Init => TypeOK /\ IdInv /\ CacheInv
  BY TypeInit, CacheInvInit
<1>2. TypeOK /\ IdInv /\ CacheInv /\ [Next]_vars => (TypeOK /\ IdInv /\ CacheInv)'
  BY TypeStep, WrittenStep, GoneStep, DeletedStep, FindableStep, HitStep
     DEF CacheInv, FindInv
<1> QED
  BY <1>1, <1>2, PTL DEF Spec

\* However lookups, inserts and evictions interleave and fail, no lazy cleanup
\* takes away the point of an entry that was inserted and still has its key.
THEOREM CacheFindable == Spec => []InsertedIsFindable
<1>1. CacheInv => InsertedIsFindable
  BY DEF CacheInv, FindInv
<1> QED
  BY <1>1, CacheInvariant, PTL

\* A lookup that begins after an eviction was answered never returns what was
\* evicted.
THEOREM CacheNoHitAfterEvict == Spec => []NoHitAfterEvict
<1>1. CacheInv => NoHitAfterEvict
  BY DEF CacheInv
<1> QED
  BY <1>1, CacheInvariant, PTL

-----------------------------------------------------------------------------
(* A cleaned point stays away.                                             *)

\* An id that Qdrant or a lookup knows of is past its upsert.
PointInv ==
    \A id \in Ids :
        \/ id \in points
        \/ InQueue(Upserted(id))
        \/ \E l \in Lookups : lookup[l].id = id
        => insert[id] \notin {"idle", "set", "upsert"}

\* No write but its own upsert puts an upsert of id into the queue.
LEMMA UpsertedBefore ==
    ASSUME queue \in Seq(Write), NEW id \in Ids,
           \/ UNCHANGED queue
           \/ \E i \in Ids : Accepted(Deleted(i))
           \/ \E i \in Ids \ {id} : Accepted(Upserted(i)),
           InQueue(Upserted(id))'
    PROVE  InQueue(Upserted(id))
<1>1. CASE UNCHANGED queue
  BY <1>1 DEF InQueue
<1>2. ASSUME NEW i \in Ids, Accepted(Deleted(i)) PROVE InQueue(Upserted(id))
  BY <1>2, QueueAppend, WriteType, WritesDiffer
<1>3. ASSUME NEW i \in Ids \ {id}, Accepted(Upserted(i)) PROVE InQueue(Upserted(id))
  BY <1>3, QueueAppend, WriteType, WritesDiffer
<1> QED
  BY <1>1, <1>2, <1>3

LEMMA PointStep == TypeOK /\ IdInv /\ PointInv /\ [Next]_vars => PointInv'
<1> SUFFICES ASSUME TypeOK, IdInv, PointInv, [Next]_vars, NEW id \in Ids,
                    \/ id \in points'
                    \/ InQueue(Upserted(id))'
                    \/ \E l \in Lookups : lookup'[l].id = id
             PROVE  insert'[id] \notin {"idle", "set", "upsert"}
  BY DEF PointInv
<1>q. queue \in Seq(Write)
  BY DEF TypeOK
<1> DEFINE Known == \/ id \in points
                    \/ InQueue(Upserted(id))
                    \/ \E l \in Lookups : lookup[l].id = id
<1>k. Known => insert[id] \notin {"idle", "set", "upsert"}
  BY DEF PointInv
<1>1. ASSUME NEW l \in Lookups, Lookup(l)
      PROVE  insert'[id] \notin {"idle", "set", "upsert"}
  <2>1. insert' = insert /\ points' = points
    BY <1>1, LookupStepType
  <2>2. InQueue(Upserted(id))' => InQueue(Upserted(id))
    BY <1>1, <1>q, LookupEffect, UpsertedBefore
  <2>3. \A k \in Lookups : lookup'[k].id = lookup[k].id \/ lookup'[k].id \in points
    BY <1>1, LookupStepType, LookupEffect
  <2> QED
    BY <1>k, <2>1, <2>2, <2>3
<1>2. ASSUME NEW i \in Inserts, Insert(i)
      PROVE  insert'[id] \notin {"idle", "set", "upsert"}
  <2>1. /\ points' = points /\ lookup' = lookup
        /\ insert' \in [Inserts -> InsertAt]
    BY <1>2, InsertStepType
  <2>2. CASE id # i
    <3>1. InQueue(Upserted(id))' => InQueue(Upserted(id))
      BY <1>2, <1>q, <2>2, InsertEffect, UpsertedBefore DEF Ids
    <3> QED
      BY <1>2, <1>k, <2>1, <2>2, <3>1, InsertEffect DEF Ids
  <2>3. CASE id = i
    <3>1. CASE InsertUpsert(i)
      <4>1. PICK to \in {"done", "undo"} : insert' = [insert EXCEPT ![i] = to]
        BY <3>1 DEF InsertUpsert, InsertGoes
      <4> QED
        BY <2>3, <4>1 DEF TypeOK
    <3>2. CASE InsertEmbed(i) \/ InsertSet(i) \/ InsertUndo(i)
      <4>1. UNCHANGED queue
        BY <3>2 DEF InsertEmbed, InsertSet, InsertUndo
      <4>2. Known
        BY <2>1, <4>1 DEF InQueue
      <4>3. insert[i] = "undo" /\ InsertUndo(i)
        BY <1>k, <2>3, <3>2, <4>2 DEF InsertEmbed, InsertSet, InsertUndo, InsertGoes
      <4> QED
        BY <2>3, <4>3 DEF InsertUndo, InsertGoes, TypeOK
    <3> QED
      BY <1>2, <3>1, <3>2 DEF Insert
  <2> QED
    BY <2>2, <2>3
<1>3. ASSUME NEW e \in Evictions, Evict(e)
      PROVE  insert'[id] \notin {"idle", "set", "upsert"}
  <2>1. insert' = insert /\ points' = points /\ lookup' = lookup
    BY <1>3, EvictStepType
  <2>2. InQueue(Upserted(id))' => InQueue(Upserted(id))
    BY <1>3, <1>q, EvictEffect, UpsertedBefore
  <2> QED
    BY <1>k, <2>1, <2>2
<1>4. CASE Apply
  <2>1. Known
    <3>1. Head(queue) \in Write /\ (\A x : InQueue(x)' => InQueue(x)) /\ InQueue(Head(queue))
      BY <1>4, <1>q, QueueTail DEF Apply
    <3>2. Head(queue).op = "upsert" => Head(queue) = Upserted(Head(queue).id)
      BY <3>1 DEF Write, Upserted
    <3> QED
      BY <1>4, <3>1, <3>2 DEF Apply
  <2> QED
    BY <1>4, <1>k, <2>1 DEF Apply
<1>5. CASE Crash
  <2>1. Known
    BY <1>5, CrashType DEF InQueue
  <2> QED
    BY <1>5, <1>k, <2>1, CrashType DEF Ids
<1>6. CASE UNCHANGED vars \/ \E x \in Ids : Expire(x)
  <2>1. UNCHANGED <<points, queue, lookup, insert>>
    BY <1>6 DEF vars, Expire
  <2>2. Known
    BY <2>1 DEF InQueue
  <2> QED
    BY <1>k, <2>1, <2>2
<1> QED
  BY <1>1, <1>2, <1>3, <1>4, <1>5, <1>6 DEF Next

\* The deletion of the point of id, if it is there, is under way, and so is one
\* behind each of its upserts.
Covered(id) ==
    /\ id \notin points \/ InQueue(Deleted(id))
    /\ \A k \in 1..Len(queue) :
         queue[k] = Upserted(id) => \E j \in k+1..Len(queue) : queue[j] = Deleted(id)

\* A deletion covers whatever comes before it.
LEMMA CoveredByDelete ==
    ASSUME queue \in Seq(Write), NEW id \in Ids, Accepted(Deleted(id))
    PROVE  Covered(id)'
<1>1. /\ Len(queue') = Len(queue) + 1 /\ Len(queue) \in Nat
      /\ queue'[Len(queue) + 1] = Deleted(id)
  BY DEF Accepted
<1>2. queue'[Len(queue')] # Upserted(id)
  BY <1>1, WritesDiffer
<1>3. InQueue(Deleted(id))'
  BY <1>1 DEF InQueue
<1>4. ASSUME NEW k \in 1..Len(queue'), queue'[k] = Upserted(id)
      PROVE  \E j \in k+1..Len(queue') : queue'[j] = Deleted(id)
  <2>1. k # Len(queue')
    BY <1>2, <1>4
  <2>2. Len(queue') \in k+1..Len(queue')
    BY <1>1, <2>1
  <2> QED
    BY <1>1, <2>2
<1> QED
  BY <1>3, <1>4 DEF Covered

LEMMA CoveredByAppend ==
    ASSUME queue \in Seq(Write), NEW id \in Ids, NEW w \in Write, w # Upserted(id),
           Accepted(w), points' = points, Covered(id)
    PROVE  Covered(id)'
<1>1. /\ Len(queue') = Len(queue) + 1 /\ Len(queue) \in Nat
      /\ queue'[Len(queue) + 1] = w
      /\ \A k \in 1..Len(queue) : queue'[k] = queue[k]
  BY DEF Accepted
<1>2. InQueue(Deleted(id)) => InQueue(Deleted(id))'
  BY QueueAppend
<1>3. ASSUME NEW k \in 1..Len(queue'), queue'[k] = Upserted(id)
      PROVE  \E j \in k+1..Len(queue') : queue'[j] = Deleted(id)
  <2>1. k \in 1..Len(queue) /\ queue[k] = Upserted(id)
    BY <1>1, <1>3
  <2>2. PICK j \in k+1..Len(queue) : queue[j] = Deleted(id)
    BY <2>1 DEF Covered
  <2>3. j \in k+1..Len(queue') /\ queue'[j] = Deleted(id)
    BY <1>1, <2>1, <2>2
  <2> QED
    BY <2>3
<1> QED
  BY <1>2, <1>3 DEF Covered

LEMMA CoveredByApply ==
    ASSUME queue \in Seq(Write), NEW id \in Ids, Apply, Covered(id)
    PROVE  Covered(id)'
<1>1. /\ Len(queue) \in Nat \ {0} /\ Len(queue') = Len(queue) - 1
      /\ Head(queue) = queue[1] /\ Head(queue) \in Write
      /\ \A k \in 1..Len(queue) - 1 : queue'[k] = queue[k + 1]
  BY DEF Apply
<1>2. ASSUME NEW k \in 1..Len(queue), NEW j \in k+1..Len(queue), queue[j] = Deleted(id)
      PROVE  j - 1 \in 1..Len(queue') /\ j - 1 >= k /\ queue'[j - 1] = Deleted(id)
  <2>1. j - 1 \in 1..Len(queue) - 1 /\ j - 1 >= k
    BY <1>1
  <2> QED
    BY <1>1, <1>2, <2>1
<1>3. ASSUME NEW k \in 1..Len(queue'), queue'[k] = Upserted(id)
      PROVE  \E j \in k+1..Len(queue') : queue'[j] = Deleted(id)
  <2>1. k + 1 \in 1..Len(queue) /\ queue[k + 1] = Upserted(id)
    BY <1>1, <1>3
  <2>2. PICK j \in k+2..Len(queue) : queue[j] = Deleted(id)
    BY <2>1 DEF Covered
  <2>3. j - 1 \in k+1..Len(queue') /\ queue'[j - 1] = Deleted(id)
    BY <1>2, <2>1, <2>2
  <2> QED
    BY <2>3
<1>4. id \in points' => InQueue(Deleted(id))'
  <2>1. CASE Head(queue) = Upserted(id)
    <3>1. PICK j \in 2..Len(queue) : queue[j] = Deleted(id)
      BY <1>1, <2>1 DEF Covered
    <3>2. j - 1 \in 1..Len(queue') /\ queue'[j - 1] = Deleted(id)
      BY <1>1, <1>2, <3>1
    <3> QED
      BY <3>2 DEF InQueue
  <2>2. CASE Head(queue) = Deleted(id)
    BY <2>2 DEF Apply, Deleted
  <2>3. CASE Head(queue) # Upserted(id) /\ Head(queue) # Deleted(id)
    <3>1. Head(queue).id # id
      BY <1>1, <2>3 DEF Write, Upserted, Deleted
    <3>2. id \in points' => id \in points
      BY <3>1 DEF Apply
    <3>3. InQueue(Deleted(id)) => InQueue(Deleted(id))'
      BY <2>3, QueueTail DEF Apply
    <3> QED
      BY <3>2, <3>3 DEF Covered
  <2> QED
    BY <2>1, <2>2, <2>3
<1> QED
  BY <1>3, <1>4 DEF Covered

AwayInv == PointInv /\ CleanedPointStaysAway

LEMMA AwayStep ==
    TypeOK /\ IdInv /\ AwayInv /\ [Next]_vars => AwayInv'
<1> SUFFICES ASSUME TypeOK, IdInv, AwayInv, [Next]_vars PROVE CleanedPointStaysAway'
  BY PointStep DEF AwayInv
<1>p. PointInv'
  BY PointStep DEF AwayInv
<1>0. ASSUME NEW l \in Lookups, lookup'[l].pc = "cleaned"
      PROVE  lookup'[l].id \in Ids
  BY <1>0, TypeStep DEF IdInv
<1> SUFFICES ASSUME NEW l \in Lookups, lookup'[l].pc = "cleaned",
                    NEW id \in Ids, lookup'[l].id = id
             PROVE  Covered(id)' /\ insert'[id] \notin {"idle", "set", "upsert"}
  BY <1>0 DEF CleanedPointStaysAway, Covered
<1>q. queue \in Seq(Write)
  BY DEF TypeOK
<1>i. id \in Ids
  OBVIOUS
<1>n. insert'[id] \notin {"idle", "set", "upsert"}
  BY <1>p, <1>i DEF PointInv
<1> SUFFICES Covered(id)'
  BY <1>n
<1>c. ASSUME lookup'[l] = lookup[l]
      PROVE  Covered(id) /\ insert[id] \notin {"idle", "set", "upsert"}
  BY <1>c DEF AwayInv, CleanedPointStaysAway, Covered
<1>u. ASSUME lookup'[l] = lookup[l], UNCHANGED <<points, queue>> PROVE Covered(id)'
  BY <1>c, <1>u DEF Covered, InQueue
<1>w. ASSUME lookup'[l] = lookup[l], points' = points,
             NEW i \in Ids, Accepted(Deleted(i))
      PROVE  Covered(id)'
  <2>1. Deleted(i) \in Write /\ Deleted(i) # Upserted(id)
    BY DEF Write, Deleted, Upserted
  <2> QED
    BY <1>c, <1>i, <1>q, <1>w, <2>1, CoveredByAppend
<1>x. ASSUME lookup'[l] = lookup[l], points' = points,
             NEW i \in Ids, i # id, Accepted(Upserted(i))
      PROVE  Covered(id)'
  <2>1. Upserted(i) \in Write /\ Upserted(i) # Upserted(id)
    BY <1>x DEF Write, Upserted
  <2> QED
    BY <1>c, <1>i, <1>q, <1>x, <2>1, CoveredByAppend
<1>1. ASSUME NEW k \in Lookups, Lookup(k) PROVE Covered(id)'
  <2>1. points' = points
    BY <1>1, LookupStepType
  <2>2. CASE k # l
    <3>1. lookup'[l] = lookup[l]
      BY <1>1, <2>2, LookupStepType
    <3>2. CASE Accepted(Deleted(lookup[k].id)) /\ lookup[k].id \in Ids
      BY <2>1, <3>1, <3>2, <1>w
    <3>3. CASE UNCHANGED queue
      BY <1>u, <2>1, <3>1, <3>3
    <3>4. \/ UNCHANGED queue
          \/ Accepted(Deleted(lookup[k].id)) /\ lookup[k].id \in Ids
      BY <1>1, LookupEffect
    <3> QED
      BY <3>2, <3>3, <3>4
  <2>3. CASE k = l
    <3>t. lookup \in [Lookups -> LookupRecord]
      BY DEF TypeOK, LookupRecord
    <3>g. ASSUME NEW from, NEW to \in LookupAt, LookupGoes(l, from, to)
          PROVE  lookup'[l].pc = to /\ lookup'[l].id = lookup[l].id
      BY <3>g, LookupGoesType
    <3>1. ~LookupEmbed(l)
      BY <3>t DEF LookupEmbed, LookupRecord
    <3>2. ~LookupSearch(l)
      <4>1. ASSUME NEW x, lookup' = [lookup EXCEPT ![l].pc = "get", ![l].id = x]
            PROVE  FALSE
        BY <4>1, <3>t DEF LookupRecord
      <4> QED
        BY <4>1, <3>g DEF LookupSearch, LookupAt, LookupFinal
    <3>3. ~LookupGet(l)
      BY <3>g DEF LookupGet, LookupAt, LookupFinal
    <3>4. LookupCleanup(l)
      BY <1>1, <2>3, <3>1, <3>2, <3>3 DEF Lookup
    <3>5. LookupGoes(l, "cleanup", "cleaned") /\ Accepted(Deleted(lookup[l].id))
      BY <3>4, <3>g DEF LookupCleanup, LookupAt, LookupFinal
    <3>6. id = lookup[l].id
      BY <3>5, <3>g DEF LookupAt, LookupFinal
    <3> QED
      BY <1>i, <1>q, <3>5, <3>6, CoveredByDelete
  <2> QED
    BY <2>2, <2>3
<1>2. ASSUME NEW i \in Inserts, Insert(i) PROVE Covered(id)'
  <2>1. lookup' = lookup /\ points' = points
    BY <1>2, InsertStepType
  <2>2. CASE UNCHANGED queue
    BY <1>u, <2>1, <2>2
  <2>3. CASE Accepted(Upserted(i)) /\ insert[i] = "upsert"
    <3>1. i # id
      BY <1>c, <2>1, <2>3
    <3> QED
      BY <1>x, <2>1, <2>3, <3>1 DEF Ids
  <2> QED
    BY <1>2, <2>2, <2>3, InsertEffect
<1>3. ASSUME NEW e \in Evictions, Evict(e) PROVE Covered(id)'
  <2>1. lookup' = lookup /\ points' = points
    BY <1>3, EvictStepType
  <2>2. CASE Accepted(Deleted(evict[e].id)) /\ evict[e].id \in Ids
    BY <1>w, <2>1, <2>2
  <2>3. CASE UNCHANGED queue
    BY <1>u, <2>1, <2>3
  <2>4. \/ UNCHANGED queue
        \/ Accepted(Deleted(evict[e].id)) /\ evict[e].id \in Ids
    BY <1>3, EvictEffect
  <2> QED
    BY <2>2, <2>3, <2>4
<1>4. CASE Apply
  <2>1. lookup' = lookup
    BY <1>4 DEF Apply
  <2>2. Covered(id)
    BY <1>c, <2>1
  <2> QED
    BY <1>4, <1>i, <1>q, <2>2, CoveredByApply
<1>5. CASE Crash
  <2>1. lookup[l].pc = "cleaned" /\ lookup'[l].id = lookup[l].id
        /\ points' = points /\ queue' = queue
    BY <1>5, CrashType
  <2>2. Covered(id)
    BY <2>1 DEF AwayInv, CleanedPointStaysAway, Covered
  <2> QED
    BY <2>1, <2>2 DEF Covered, InQueue
<1>6. CASE UNCHANGED vars \/ \E x \in Ids : Expire(x)
  BY <1>6, <1>u DEF vars, Expire
<1> QED
  BY <1>1, <1>2, <1>3, <1>4, <1>5, <1>6 DEF Next

\* A point whose cleanup was acknowledged is gone, or its deletion is the last
\* write under way for it, for any number of concurrent calls.
THEOREM CacheCleanedStaysAway == Spec => []CleanedPointStaysAway
<1>1. Init => AwayInv
  <2> SUFFICES ASSUME Init PROVE AwayInv
    OBVIOUS
  <2>1. None \notin Ids
    BY CacheAssumption DEF Ids
  <2>2. \A x : ~InQueue(x)
    BY DEF Init, InQueue
  <2> QED
    BY <2>1, <2>2 DEF Init, AwayInv, PointInv, CleanedPointStaysAway
<1>2. Spec => [](TypeOK /\ IdInv)
  BY TypeInit, TypeStep, PTL DEF Spec
<1>3. AwayInv => CleanedPointStaysAway
  BY DEF AwayInv
<1> QED
  BY <1>1, <1>2, <1>3, AwayStep, PTL DEF Spec

-----------------------------------------------------------------------------
(* The contract.                                                           *)

\* The id a lookup found is of a prompt that is similar enough.
ScoreInv ==
    \A l \in Lookups : lookup[l].pc \in {"get", "cleanup", "hit", "cleaned"}
        => Score(prompt[l], lookup[l].id) >= MinScore

LEMMA ScoreStep == TypeOK /\ IdInv /\ ScoreInv /\ [Next]_vars => ScoreInv'
<1> SUFFICES ASSUME TypeOK, IdInv, ScoreInv, [Next]_vars, NEW l \in Lookups,
                    lookup'[l].pc \in {"get", "cleanup", "hit", "cleaned"}
             PROVE  Similarity[prompt'[l]][prompt'[lookup'[l].id]] >= MinScore
  BY DEF ScoreInv, Score
<1>t. lookup \in [Lookups -> LookupRecord]
  BY DEF TypeOK, LookupRecord
<1>u. ASSUME prompt' = prompt, lookup'[l].id = lookup[l].id,
             lookup[l].pc \in {"get", "cleanup", "hit", "cleaned"}
      PROVE  Similarity[prompt'[l]][prompt'[lookup'[l].id]] >= MinScore
  BY <1>u DEF ScoreInv, Score
<1>1. ASSUME NEW k \in Lookups, Lookup(k)
      PROVE  Similarity[prompt'[l]][prompt'[lookup'[l].id]] >= MinScore
  <2>1. prompt' = prompt
    BY <1>1, LookupStepType
  <2>2. CASE k # l
    BY <1>1, <1>u, <2>1, <2>2, LookupStepType
  <2>3. CASE k = l
    <3>g. ASSUME NEW from, NEW to \in LookupAt, LookupGoes(l, from, to)
          PROVE  /\ lookup'[l].pc = to /\ lookup'[l].id = lookup[l].id
                 /\ lookup[l].pc = from
      BY <3>g, LookupGoesType
    <3>1. ~LookupEmbed(l)
      BY <1>t DEF LookupEmbed, LookupRecord
    <3>2. CASE LookupSearch(l)
      <4>1. ASSUME NEW id \in Best(prompt[l]),
                   lookup' = [lookup EXCEPT ![l].pc = "get", ![l].id = id]
            PROVE  Similarity[prompt'[l]][prompt'[lookup'[l].id]] >= MinScore
        <5>1. lookup'[l].id = id
          BY <4>1, <1>t DEF LookupRecord
        <5> QED
          BY <2>1, <4>1, <5>1 DEF Best, Score
      <4> QED
        BY <3>2, <4>1, <3>g DEF LookupSearch, LookupAt, LookupFinal
    <3>3. CASE LookupGet(l)
      BY <1>u, <2>1, <3>3, <3>g DEF LookupGet, LookupAt, LookupFinal
    <3>4. CASE LookupCleanup(l)
      BY <1>u, <2>1, <3>4, <3>g DEF LookupCleanup, LookupAt, LookupFinal
    <3> QED
      BY <1>1, <2>3, <3>1, <3>2, <3>3, <3>4 DEF Lookup
  <2> QED
    BY <2>2, <2>3
<1>2. CASE Crash
  BY <1>2, <1>u, CrashType
<1>3. CASE UNCHANGED <<prompt, lookup>>
  BY <1>3, <1>u
<1>4. (\E i \in Inserts : Insert(i)) \/ (\E e \in Evictions : Evict(e))
        => UNCHANGED <<prompt, lookup>>
  BY InsertStepType, EvictStepType
<1> QED
  BY <1>1, <1>2, <1>3, <1>4 DEF Next, Expire, Apply, vars

\* What the contract sees of a call, before and after a step.
LEMMA LookupAnswers ==
    ASSUME NEW l \in Lookups
    PROVE  /\ lookup[l].pc \notin LookupFinal => lookupBar[l] = Contract!Open
           /\ lookup[l].pc = "hit" => lookupBar[l] = Contract!Answer("hit", lookup[l].id)
           /\ lookup[l].pc \in {"miss", "cleaned"}
                => lookupBar[l] = Contract!Answer("miss", Contract!None)
           /\ lookup[l].pc = "failed"
                => lookupBar[l] = Contract!Answer("failed", Contract!None)
BY DEF LookupFinal, lookupBar, None, Contract!Open, Contract!Answer, Contract!None

LEMMA LookupAnswersNext ==
    ASSUME NEW l \in Lookups
    PROVE  /\ lookup'[l].pc \notin LookupFinal => lookupBar'[l] = Contract!Open
           /\ lookup'[l].pc = "hit" => lookupBar'[l] = Contract!Answer("hit", lookup'[l].id)
           /\ lookup'[l].pc \in {"miss", "cleaned"}
                => lookupBar'[l] = Contract!Answer("miss", Contract!None)
           /\ lookup'[l].pc = "failed"
                => lookupBar'[l] = Contract!Answer("failed", Contract!None)
           /\ lookup'[l] = lookup[l] => lookupBar'[l] = lookupBar[l]
BY DEF LookupFinal, lookupBar, None, Contract!Open, Contract!Answer, Contract!None

LEMMA InsertAnswers ==
    ASSUME NEW i \in Inserts
    PROVE  /\ insert[i] = "done" => insertBar[i] = "ok"
           /\ insert[i] = "failed" => insertBar[i] = "failed"
           /\ insert[i] \notin InsertFinal => insertBar[i] = "open"
           /\ insert'[i] = "done" => insertBar'[i] = "ok"
           /\ insert'[i] = "failed" => insertBar'[i] = "failed"
           /\ insert'[i] \notin InsertFinal => insertBar'[i] = "open"
           /\ insert'[i] = insert[i] => insertBar'[i] = insertBar[i]
BY DEF InsertFinal, insertBar

LEMMA EvictAnswers ==
    ASSUME NEW e \in Evictions
    PROVE  /\ evict[e].pc \notin EvictFinal => evictBar[e] = Contract!Open
           /\ evict'[e].pc \notin EvictFinal => evictBar'[e] = Contract!Open
           /\ evict'[e].pc = "done" => evictBar'[e] = Contract!Answer("ok", evict'[e].id)
           /\ evict'[e].pc = "failed"
                => evictBar'[e] = Contract!Answer("failed", Contract!None)
           /\ evict'[e].pc = evict[e].pc /\ evict'[e].id = evict[e].id
                => evictBar'[e] = evictBar[e]
BY DEF EvictFinal, evictBar, None, Contract!Open, Contract!Answer, Contract!None

\* What the contract sees of the entries.
LEMMA Entries ==
    ASSUME NEW i \in Inserts
    PROVE  /\ i \in kv => entryBar[i] = "live"
           /\ i \notin kv /\ insert[i] \in {"idle", "set"} => entryBar[i] = "absent"
           /\ i \notin kv /\ insert[i] \notin {"idle", "set"} => entryBar[i] = "gone"
           /\ i \in kv' => entryBar'[i] = "live"
           /\ i \notin kv' /\ insert'[i] \in {"idle", "set"} => entryBar'[i] = "absent"
           /\ i \notin kv' /\ insert'[i] \notin {"idle", "set"} => entryBar'[i] = "gone"
BY DEF entryBar

\* A bar that changes at one call only.
LEMMA BarsMove ==
    /\ DOMAIN lookupBar = Lookups /\ DOMAIN insertBar = Inserts
    /\ DOMAIN evictBar = Evictions /\ DOMAIN entryBar = Inserts
    /\ (\A l \in Lookups : lookupBar'[l] = lookupBar[l]) => lookupBar' = lookupBar
    /\ (\A i \in Inserts : insertBar'[i] = insertBar[i]) => insertBar' = insertBar
    /\ (\A e \in Evictions : evictBar'[e] = evictBar[e]) => evictBar' = evictBar
    /\ (\A i \in Inserts : entryBar'[i] = entryBar[i]) => entryBar' = entryBar
    /\ \A x : \A l \in Lookups :
         lookupBar'[l] = x /\ (\A k \in Lookups \ {l} : lookupBar'[k] = lookupBar[k])
           => lookupBar' = [lookupBar EXCEPT ![l] = x]
    /\ \A x : \A i \in Inserts :
         insertBar'[i] = x /\ (\A k \in Inserts \ {i} : insertBar'[k] = insertBar[k])
           => insertBar' = [insertBar EXCEPT ![i] = x]
    /\ \A x : \A e \in Evictions :
         evictBar'[e] = x /\ (\A k \in Evictions \ {e} : evictBar'[k] = evictBar[k])
           => evictBar' = [evictBar EXCEPT ![e] = x]
    /\ \A x : \A i \in Inserts :
         entryBar'[i] = x /\ (\A k \in Inserts \ {i} : entryBar'[k] = entryBar[k])
           => entryBar' = [entryBar EXCEPT ![i] = x]
<1>1. /\ lookupBar = [l \in Lookups |-> lookupBar[l]]
      /\ lookupBar' = [l \in Lookups |-> lookupBar'[l]]
  BY DEF lookupBar
<1>2. /\ insertBar = [i \in Inserts |-> insertBar[i]]
      /\ insertBar' = [i \in Inserts |-> insertBar'[i]]
  BY DEF insertBar
<1>3. /\ evictBar = [e \in Evictions |-> evictBar[e]]
      /\ evictBar' = [e \in Evictions |-> evictBar'[e]]
  BY DEF evictBar
<1>4. /\ entryBar = [i \in Inserts |-> entryBar[i]]
      /\ entryBar' = [i \in Inserts |-> entryBar'[i]]
  BY DEF entryBar
<1>5. /\ DOMAIN lookupBar = Lookups /\ DOMAIN insertBar = Inserts
      /\ DOMAIN evictBar = Evictions /\ DOMAIN entryBar = Inserts
  BY DEF lookupBar, insertBar, evictBar, entryBar
<1>6. /\ (\A l \in Lookups : lookupBar'[l] = lookupBar[l]) => lookupBar' = lookupBar
      /\ \A x : \A l \in Lookups :
         lookupBar'[l] = x /\ (\A k \in Lookups \ {l} : lookupBar'[k] = lookupBar[k])
           => lookupBar' = [lookupBar EXCEPT ![l] = x]
  BY <1>1
<1>7. /\ (\A i \in Inserts : insertBar'[i] = insertBar[i]) => insertBar' = insertBar
      /\ \A x : \A i \in Inserts :
         insertBar'[i] = x /\ (\A k \in Inserts \ {i} : insertBar'[k] = insertBar[k])
           => insertBar' = [insertBar EXCEPT ![i] = x]
  BY <1>2
<1>8. /\ (\A e \in Evictions : evictBar'[e] = evictBar[e]) => evictBar' = evictBar
      /\ \A x : \A e \in Evictions :
         evictBar'[e] = x /\ (\A k \in Evictions \ {e} : evictBar'[k] = evictBar[k])
           => evictBar' = [evictBar EXCEPT ![e] = x]
  BY <1>3
<1>9. /\ (\A i \in Inserts : entryBar'[i] = entryBar[i]) => entryBar' = entryBar
      /\ \A x : \A i \in Inserts :
         entryBar'[i] = x /\ (\A k \in Inserts \ {i} : entryBar'[k] = entryBar[k])
           => entryBar' = [entryBar EXCEPT ![i] = x]
  BY <1>4
<1> QED
  BY <1>5, <1>6, <1>7, <1>8, <1>9

ContractStep == [Contract!Next]_(Contract!contractVars)

\* A step that no call, and no key, is seen to take.
LEMMA ContractStutter ==
    ASSUME prompt' = prompt, entryBar' = entryBar, lookupBar' = lookupBar,
           insertBar' = insertBar, evictBar' = evictBar
    PROVE  ContractStep
BY DEF ContractStep, Contract!contractVars

LEMMA ContractLookup ==
    ASSUME TypeOK, IdInv, ScoreInv, NEW l \in Lookups, Lookup(l)
    PROVE  ContractStep
<1>f. /\ prompt' = prompt /\ entryBar' = entryBar
      /\ insertBar' = insertBar /\ evictBar' = evictBar
      /\ \A k \in Lookups \ {l} : lookupBar'[k] = lookupBar[k]
  BY LookupStepType, LookupAnswersNext DEF entryBar, insertBar, evictBar
<1>t. lookup \in [Lookups -> LookupRecord]
  BY DEF TypeOK, LookupRecord
<1>o. ASSUME lookup[l].pc \notin LookupFinal, lookup'[l].pc \notin LookupFinal
      PROVE  ContractStep
  <2>1. lookupBar'[l] = lookupBar[l]
    BY <1>o, LookupAnswers, LookupAnswersNext
  <2>2. lookupBar' = lookupBar
    BY <1>f, <2>1, BarsMove
  <2> QED
    BY <1>f, <2>2, ContractStutter
<1>n. ASSUME lookup[l].pc \notin LookupFinal, lookup'[l].pc \in {"miss", "cleaned", "failed"}
      PROVE  ContractStep
  <2>1. PICK is \in {"miss", "failed"} :
          lookupBar'[l] = Contract!Answer(is, Contract!None)
    BY <1>n, LookupAnswersNext
  <2>2. lookupBar' = [lookupBar EXCEPT ![l] = Contract!Answer(is, Contract!None)]
    BY <1>f, <2>1, BarsMove
  <2>3. Contract!HasNone(l)
    BY <1>f, <1>n, <2>2, LookupAnswers DEF Contract!HasNone
  <2> QED
    BY <2>3 DEF ContractStep, Contract!Next
<1>g. ASSUME NEW from, NEW to \in LookupAt, LookupGoes(l, from, to)
      PROVE  /\ lookup'[l].pc = to /\ lookup'[l].id = lookup[l].id
             /\ lookup[l].pc = from
  BY <1>g, LookupGoesType
<1>1. CASE LookupEmbed(l)
  <2>1. lookup[l].pc = "idle" /\ lookup'[l].pc \in {"search", "failed"}
    BY <1>1, <1>t DEF LookupEmbed, LookupRecord
  <2> QED
    BY <1>n, <1>o, <2>1 DEF LookupFinal
<1>2. CASE LookupSearch(l)
  <2>1. ASSUME NEW id, lookup' = [lookup EXCEPT ![l].pc = "get", ![l].id = id]
        PROVE  lookup'[l].pc = "get"
    BY <2>1, <1>t DEF LookupRecord
  <2>2. lookup[l].pc = "search" /\ lookup'[l].pc \in {"get", "miss", "failed"}
    BY <1>2, <1>g, <2>1 DEF LookupSearch, LookupAt, LookupFinal
  <2> QED
    BY <1>n, <1>o, <2>2 DEF LookupFinal
<1>3. CASE LookupGet(l)
  <2>1. CASE lookup[l].id \in kv /\ LookupGoes(l, "get", "hit")
    <3> DEFINE id == lookup[l].id
    <3>1. lookup[l].pc = "get" /\ lookup'[l].pc = "hit" /\ lookup'[l].id = id
      BY <1>g, <2>1 DEF LookupAt, LookupFinal
    <3>2. id \in Inserts
      BY <3>1 DEF IdInv, Ids
    <3>3. entryBar[id] = "live"
      BY <2>1, <3>2, Entries
    <3>4. Contract!Similar(l, id)
      BY <3>1 DEF ScoreInv, Score, Contract!Similar
    <3>5. lookupBar[l] = Contract!Open /\ lookupBar'[l] = Contract!Answer("hit", id)
      BY <3>1, LookupAnswers, LookupAnswersNext DEF LookupFinal
    <3>6. lookupBar' = [lookupBar EXCEPT ![l] = Contract!Answer("hit", id)]
      BY <1>f, <3>5, BarsMove
    <3>7. Contract!Hits(l, id)
      BY <1>f, <3>3, <3>4, <3>5, <3>6 DEF Contract!Hits
    <3> QED
      BY <3>2, <3>7 DEF ContractStep, Contract!Next
  <2>2. CASE \E to \in {"cleanup", "failed"} : LookupGoes(l, "get", to)
    <3>1. lookup[l].pc = "get" /\ lookup'[l].pc \in {"cleanup", "failed"}
      BY <1>g, <2>2 DEF LookupAt, LookupFinal
    <3> QED
      BY <1>n, <1>o, <3>1 DEF LookupFinal
  <2> QED
    BY <1>3, <2>1, <2>2 DEF LookupGet
<1>4. CASE LookupCleanup(l)
  <2>1. lookup[l].pc = "cleanup" /\ lookup'[l].pc \in {"cleaned", "miss"}
    BY <1>4, <1>g DEF LookupCleanup, LookupAt, LookupFinal
  <2> QED
    BY <1>n, <2>1 DEF LookupFinal
<1> QED
  BY <1>1, <1>2, <1>3, <1>4 DEF Lookup

LEMMA ContractInsert ==
    ASSUME TypeOK, IdInv, WrittenInv, NEW i \in Inserts, Insert(i)
    PROVE  ContractStep
<1>f. /\ prompt' = prompt /\ lookupBar' = lookupBar /\ evictBar' = evictBar
      /\ \A k \in Inserts \ {i} : insert'[k] = insert[k]
      /\ \A k \in Inserts \ {i} : insertBar'[k] = insertBar[k]
  BY InsertStepType, InsertEffect, InsertAnswers DEF lookupBar, evictBar
<1>g. ASSUME NEW from, NEW to, InsertGoes(i, from, to)
      PROVE  insert'[i] = to /\ insert[i] = from
  BY <1>g DEF TypeOK, InsertGoes
<1>k. ASSUME NEW k \in Inserts \ {i}, k \in kv' <=> k \in kv
      PROVE  entryBar'[k] = entryBar[k]
  BY <1>f, <1>k DEF entryBar
<1>w. insert[i] \in {"idle", "set"} => i \notin kv
  BY DEF WrittenInv, Ids
\* A failure, with what it leaves of the entry.
<1>n. ASSUME insert[i] \notin InsertFinal, insert'[i] = "failed",
             \A k \in Inserts \ {i} : k \in kv' <=> k \in kv,
             entryBar[i] = "gone" => i \notin kv'
      PROVE  ContractStep
  <2>1. insertBar[i] = "open" /\ insertBar' = [insertBar EXCEPT ![i] = "failed"]
    BY <1>f, <1>n, InsertAnswers, BarsMove
  <2>2. PICK left \in IF entryBar[i] = "gone" THEN {"gone"} ELSE {"live", "gone"} :
          entryBar'[i] = left
    <3>1. CASE i \in kv'
      BY <1>n, <3>1, Entries
    <3>2. CASE i \notin kv'
      BY <1>n, <3>2, Entries
    <3> QED
      BY <3>1, <3>2
  <2>3. entryBar' = [entryBar EXCEPT ![i] = left]
    BY <1>k, <1>n, <2>2, BarsMove
  <2>4. Contract!InsertFails(i)
    BY <1>f, <2>1, <2>3 DEF Contract!InsertFails
  <2> QED
    BY <2>4 DEF ContractStep, Contract!Next
<1>s. ASSUME insert[i] \notin InsertFinal, insert'[i] \notin InsertFinal, kv' = kv,
             insert[i] \in {"idle", "set"} <=> insert'[i] \in {"idle", "set"}
      PROVE  ContractStep
  <2>1. insertBar' = insertBar
    BY <1>f, <1>s, InsertAnswers, BarsMove
  <2>2. entryBar'[i] = entryBar[i]
    BY <1>s, Entries
  <2>3. entryBar' = entryBar
    BY <1>k, <1>s, <2>2, BarsMove
  <2> QED
    BY <1>f, <2>1, <2>3, ContractStutter
<1>1. CASE InsertEmbed(i)
  <2>1. insert[i] = "idle" /\ insert'[i] \in {"set", "failed"} /\ kv' = kv
    BY <1>1, <1>g DEF InsertEmbed
  <2>2. entryBar[i] # "gone"
    BY <1>w, <2>1, Entries
  <2> QED
    BY <1>n, <1>s, <2>1, <2>2 DEF InsertFinal
<1>2. CASE InsertSet(i)
  <2>1. insert[i] = "set" /\ entryBar[i] = "absent"
    BY <1>2, <1>g, <1>w, Entries DEF InsertSet
  <2>2. CASE insert'[i] = "failed"
    BY <1>2, <1>n, <2>1, <2>2 DEF InsertSet, InsertFinal
  <2>3. CASE insert'[i] = "upsert" /\ kv' = kv \cup {i}
    <3>1. insertBar' = insertBar /\ insertBar[i] = "open"
      BY <1>f, <2>1, <2>3, InsertAnswers, BarsMove DEF InsertFinal
    <3>2. entryBar'[i] = "live"
      BY <2>3, Entries
    <3>3. entryBar' = [entryBar EXCEPT ![i] = "live"]
      BY <1>k, <2>3, <3>2, BarsMove
    <3>4. Contract!Add(i)
      BY <1>f, <2>1, <3>1, <3>3 DEF Contract!Add
    <3> QED
      BY <3>4 DEF ContractStep, Contract!Next
  <2> QED
    BY <1>2, <1>g, <2>2, <2>3 DEF InsertSet
<1>3. CASE InsertUpsert(i)
  <2>1. insert[i] = "upsert" /\ insert'[i] \in {"done", "undo"} /\ kv' = kv
    BY <1>3, <1>g DEF InsertUpsert
  <2>2. CASE insert'[i] = "undo"
    BY <1>s, <2>1, <2>2 DEF InsertFinal
  <2>3. CASE insert'[i] = "done"
    <3>1. insertBar[i] = "open" /\ insertBar' = [insertBar EXCEPT ![i] = "ok"]
      BY <1>f, <2>1, <2>3, InsertAnswers, BarsMove DEF InsertFinal
    <3>2. entryBar[i] # "absent" /\ entryBar'[i] = entryBar[i]
      BY <2>1, <2>3, Entries
    <3>3. entryBar' = entryBar
      BY <1>k, <2>1, <3>2, BarsMove
    <3>4. Contract!InsertSucceeds(i)
      BY <1>f, <3>1, <3>2, <3>3 DEF Contract!InsertSucceeds
    <3> QED
      BY <3>4 DEF ContractStep, Contract!Next
  <2> QED
    BY <2>1, <2>2, <2>3
<1>4. CASE InsertUndo(i)
  <2>1. insert[i] = "undo" /\ insert'[i] = "failed" /\ kv' \in {kv, kv \ {i}}
    BY <1>4, <1>g DEF InsertUndo
  <2>2. entryBar[i] = "gone" => i \notin kv'
    BY <2>1, Entries
  <2> QED
    BY <1>n, <2>1, <2>2 DEF InsertFinal
<1> QED
  BY <1>1, <1>2, <1>3, <1>4 DEF Insert

LEMMA ContractEvict ==
    ASSUME TypeOK, IdInv, WrittenInv, NEW e \in Evictions, Evict(e)
    PROVE  ContractStep
<1>f. /\ prompt' = prompt /\ lookupBar' = lookupBar /\ insertBar' = insertBar
      /\ insert' = insert
      /\ \A k \in Evictions \ {e} : evictBar'[k] = evictBar[k]
  BY EvictStepType, EvictAnswers DEF lookupBar, insertBar
<1>k. kv' = kv => entryBar' = entryBar
  BY <1>f DEF entryBar
<1>g. ASSUME NEW from, NEW to \in EvictAt, EvictGoes(e, from, to)
      PROVE  /\ evict'[e].pc = to /\ evict[e].pc = from /\ evict'[e].id = evict[e].id
  BY <1>g, EvictGoesType
<1>o. ASSUME evict[e].pc \notin EvictFinal, evict'[e].pc \notin EvictFinal, kv' = kv
      PROVE  ContractStep
  <2>1. evictBar' = evictBar
    BY <1>f, <1>o, EvictAnswers, BarsMove
  <2> QED
    BY <1>f, <1>k, <1>o, <2>1, ContractStutter
<1>n. ASSUME evict[e].pc \notin EvictFinal, evict'[e].pc = "failed",
             \/ entryBar' = entryBar
             \/ \E i \in Inserts : /\ entryBar[i] = "live"
                                   /\ entryBar' = [entryBar EXCEPT ![i] = "gone"]
      PROVE  ContractStep
  <2>1. evictBar[e] = Contract!Open
        /\ evictBar' = [evictBar EXCEPT ![e] = Contract!Answer("failed", Contract!None)]
    BY <1>f, <1>n, EvictAnswers, BarsMove
  <2>2. Contract!EvictFails(e)
    BY <1>f, <1>n, <2>1 DEF Contract!EvictFails
  <2> QED
    BY <2>2 DEF ContractStep, Contract!Next
<1>1. CASE EvictBegin(e)
  <2>1. PICK id \in kv \cup points :
          evict' = [evict EXCEPT ![e] = [pc |-> "delete", id |-> id]]
    BY <1>1 DEF EvictBegin
  <2>2. evict'[e].pc = "delete"
    BY <2>1 DEF TypeOK
  <2> QED
    BY <1>1, <1>o, <2>2 DEF EvictBegin, EvictFinal
<1>2. CASE EvictDelete(e)
  <2>1. evict[e].pc = "delete" /\ evict'[e].pc \in {"del", "failed"} /\ kv' = kv
    BY <1>2, <1>g DEF EvictDelete, EvictAt, EvictFinal
  <2> QED
    BY <1>k, <1>n, <1>o, <2>1 DEF EvictFinal
<1>3. CASE EvictDel(e)
  <2> DEFINE id == evict[e].id
  <2>1. /\ evict[e].pc = "del" /\ evict'[e].pc \in {"done", "failed"} /\ evict'[e].id = id
        /\ evict'[e].pc = "done" => kv' = kv \ {id}
        /\ kv' \in {kv, kv \ {id}}
    BY <1>3, <1>g DEF EvictDel, EvictAt, EvictFinal
  <2>2. id \in Inserts /\ insert[id] \notin {"idle", "set"}
    BY <2>1 DEF IdInv, Ids, WrittenInv
  <2>3. \A k \in Inserts \ {id} : entryBar'[k] = entryBar[k]
    BY <1>f, <2>1 DEF entryBar
  <2>4. CASE kv' = kv \ {id}
    <3>1. entryBar'[id] = "gone" /\ entryBar[id] # "absent"
      BY <1>f, <2>2, <2>4, Entries
    <3>2. entryBar' = [entryBar EXCEPT ![id] = "gone"]
      BY <2>2, <2>3, <3>1, BarsMove
    <3>3. CASE evict'[e].pc = "done"
      <4>1. /\ evictBar[e] = Contract!Open
            /\ evictBar' = [evictBar EXCEPT ![e] = Contract!Answer("ok", id)]
        BY <1>f, <2>1, <3>3, EvictAnswers, BarsMove DEF EvictFinal
      <4>2. Contract!Evicts(e, id)
        BY <1>f, <3>1, <3>2, <4>1 DEF Contract!Evicts
      <4> QED
        BY <2>2, <4>2 DEF ContractStep, Contract!Next
    <3>4. CASE evict'[e].pc = "failed"
      <4>1. CASE id \in kv
        <5>1. entryBar[id] = "live"
          BY <2>2, <4>1, Entries
        <5> QED
          BY <1>n, <2>1, <2>2, <3>2, <3>4, <5>1 DEF EvictFinal
      <4>2. CASE id \notin kv
        <5>1. kv' = kv
          BY <2>4, <4>2
        <5> QED
          BY <1>k, <1>n, <2>1, <3>4, <5>1 DEF EvictFinal
      <4> QED
        BY <4>1, <4>2
    <3> QED
      BY <2>1, <3>3, <3>4
  <2>5. CASE kv' = kv /\ evict'[e].pc = "failed"
    BY <1>k, <1>n, <2>1, <2>5 DEF EvictFinal
  <2> QED
    BY <2>1, <2>4, <2>5
<1> QED
  BY <1>1, <1>2, <1>3 DEF Evict

LEMMA ContractExpire ==
    ASSUME WrittenInv, NEW id \in Ids, Expire(id)
    PROVE  ContractStep
<1>1. /\ prompt' = prompt /\ lookupBar' = lookupBar /\ insertBar' = insertBar
      /\ evictBar' = evictBar
      /\ \A k \in Inserts \ {id} : entryBar'[k] = entryBar[k]
  BY DEF Expire, lookupBar, insertBar, evictBar, entryBar
<1>2. id \in Inserts /\ entryBar[id] = "live" /\ entryBar'[id] = "gone"
  BY Entries DEF Expire, Ids, WrittenInv
<1>3. entryBar' = [entryBar EXCEPT ![id] = "gone"]
  BY <1>1, <1>2, BarsMove
<1>4. Contract!Vanish(id)
  BY <1>1, <1>2, <1>3 DEF Contract!Vanish
<1> QED
  BY <1>2, <1>4 DEF ContractStep, Contract!Next

LEMMA ContractCrash ==
    ASSUME TypeOK, IdInv, WrittenInv, Crash
    PROVE  ContractStep
<1> DEFINE ls == {l \in Lookups : lookup[l].pc \notin LookupFinal \cup {"idle"}}
           is == {i \in Inserts : insert[i] \notin InsertFinal \cup {"idle"}}
           es == {e \in Evictions : evict[e].pc \notin EvictFinal \cup {"idle"}}
<1>1. /\ \A l \in ls : lookup'[l].pc = "failed"
      /\ \A l \in Lookups \ ls : lookup'[l] = lookup[l]
  BY DEF Crash, TypeOK
<1>2. /\ \A i \in is : insert'[i] = "failed"
      /\ \A i \in Inserts \ is : insert'[i] = insert[i]
  BY DEF Crash
<1>3. /\ \A e \in es : evict'[e].pc = "failed"
      /\ \A e \in Evictions \ es : evict'[e] = evict[e]
  BY DEF Crash, TypeOK
<1>4. kv' = kv /\ prompt' = prompt
  BY DEF Crash
<1>5. /\ \A l \in ls : lookupBar[l] = Contract!Open
      /\ \A i \in is : insertBar[i] = "open"
      /\ \A e \in es : evictBar[e] = Contract!Open
  BY LookupAnswers, InsertAnswers, EvictAnswers
<1>6. \A l \in Lookups : lookupBar'[l] =
        IF l \in ls THEN Contract!Answer("failed", Contract!None) ELSE lookupBar[l]
  BY <1>1, LookupAnswersNext
<1>7. \A i \in Inserts : insertBar'[i] = IF i \in is THEN "failed" ELSE insertBar[i]
  BY <1>2, InsertAnswers
<1>8. \A e \in Evictions : evictBar'[e] =
        IF e \in es THEN Contract!Answer("failed", Contract!None) ELSE evictBar[e]
  BY <1>3, EvictAnswers
<1>9. ASSUME NEW i \in Inserts
      PROVE  entryBar'[i] =
               IF i \in is /\ entryBar[i] = "absent" THEN "gone" ELSE entryBar[i]
  <2>1. CASE i \in kv
    BY <1>4, <2>1, Entries
  <2>2. CASE i \notin kv /\ i \in is
    BY <1>2, <1>4, <2>2, Entries
  <2>3. CASE i \notin kv /\ i \notin is
    BY <1>2, <1>4, <2>3, Entries
  <2> QED
    BY <2>1, <2>2, <2>3
<1>10. /\ lookupBar' = [l \in Lookups |-> lookupBar'[l]]
       /\ insertBar' = [i \in Inserts |-> insertBar'[i]]
       /\ evictBar' = [e \in Evictions |-> evictBar'[e]]
       /\ entryBar' = [i \in Inserts |-> entryBar'[i]]
  BY DEF lookupBar, insertBar, evictBar, entryBar
<1> HIDE DEF ls, is, es
<1>11. Contract!Down(ls, is, es)
  BY <1>4, <1>5, <1>6, <1>7, <1>8, <1>9, <1>10 DEF Contract!Down
<1>12. ls \subseteq Lookups /\ is \subseteq Inserts /\ es \subseteq Evictions
  BY DEF ls, is, es
<1> QED
  BY <1>11, <1>12 DEF ContractStep, Contract!Next

LEMMA ContractInit == Init => Contract!Init
<1> SUFFICES ASSUME Init PROVE Contract!Init
  OBVIOUS
<1>1. /\ \A l \in Lookups : lookupBar[l] = Contract!Open
      /\ \A i \in Inserts : insertBar[i] = "open" /\ entryBar[i] = "absent"
      /\ \A e \in Evictions : evictBar[e] = Contract!Open
  BY LookupAnswers, InsertAnswers, EvictAnswers, Entries
     DEF Init, LookupFinal, InsertFinal, EvictFinal
<1>2. /\ lookupBar = [l \in Lookups |-> lookupBar[l]]
      /\ insertBar = [i \in Inserts |-> insertBar[i]]
      /\ evictBar = [e \in Evictions |-> evictBar[e]]
      /\ entryBar = [i \in Inserts |-> entryBar[i]]
  BY DEF lookupBar, insertBar, evictBar, entryBar
<1>3. prompt \in [Lookups \cup Inserts -> Prompts]
  BY DEF Init
<1> QED
  BY <1>1, <1>2, <1>3 DEF Contract!Init

\* The remote calls on the two stores, however they interleave, fail and are cut
\* short by the end of the gateway, are to the callers one store with atomic calls.
THEOREM CacheRefinesContract == Spec => ImplementsContract
<1>1. Init => ScoreInv
  BY DEF Init, ScoreInv
<1>2. Spec => []ScoreInv
  <2>1. Spec => [](TypeOK /\ IdInv)
    BY TypeInit, TypeStep, PTL DEF Spec
  <2> QED
    BY <1>1, <2>1, ScoreStep, PTL DEF Spec
<1>3. TypeOK /\ IdInv /\ CacheInv /\ ScoreInv /\ [Next]_vars => ContractStep
  <2> SUFFICES ASSUME TypeOK, IdInv, WrittenInv, ScoreInv, [Next]_vars
               PROVE  ContractStep
    BY DEF CacheInv
  <2>1. CASE Apply \/ UNCHANGED vars
    BY <2>1, ContractStutter DEF Apply, vars, entryBar, lookupBar, insertBar, evictBar
  <2> QED
    BY <2>1, ContractLookup, ContractInsert, ContractEvict, ContractExpire, ContractCrash
       DEF Next
<1> QED
  BY <1>2, <1>3, ContractInit, CacheInvariant, PTL
     DEF Spec, ContractStep, ImplementsContract, Contract!Spec
=============================================================================
