--------------------------- MODULE SemanticCache ---------------------------
(***************************************************************************)
(* The semantic cache, internal/cache/store.go, under concurrent calls.    *)
(*                                                                         *)
(* An entry is a value in Redis under a key made of its id, and a point in *)
(* Qdrant under the same id.  No transaction spans the two stores: Lookup, *)
(* Insert and Evict are sequences of remote calls that interleave, each of *)
(* which may fail, and fail with or without having had its effect (a lost  *)
(* answer, a context that expires first).  Redis drops keys on its own     *)
(* (TTL, allkeys-lru), Qdrant acknowledges writes before it applies them   *)
(* (the requests do not ask it to wait), and the gateway may go down in    *)
(* the middle of any call.                                                 *)
(***************************************************************************)
EXTENDS Integers, Sequences, FiniteSets

CONSTANTS
    Lookups, Inserts, Evictions,  \* the calls of a run, each made once
    Prompts,                      \* key texts, as far as the embedding tells
    Similarity,                   \* Similarity[p][q]: cosine of their vectors
    MinScore                      \* similarity_threshold

\* The id of a call that has found or been asked for none yet.
None == "none"

ASSUME CacheAssumption ==
    /\ None \notin Inserts
    /\ Similarity \in [Prompts -> [Prompts -> Int]]
    /\ MinScore \in Int

VARIABLES
    kv,       \* the ids with a live key in Redis
    points,   \* the ids Qdrant has a point for
    queue,    \* writes Qdrant has acknowledged and not applied, in order
    prompt,   \* the prompt of each lookup and insert
    lookup,   \* where each Lookup is, and the id its search found
    insert,   \* where each Insert is; its id is the insert itself, as uuids
              \* are fresh
    evict     \* where each Evict is, and the id it was asked to evict

vars == <<kv, points, queue, prompt, lookup, insert, evict>>

Ids == Inserts

LookupFinal == {"hit", "miss", "cleaned", "failed"}
InsertFinal == {"done", "failed"}
EvictFinal == {"done", "failed"}
LookupAt == {"idle", "search", "get", "cleanup"} \cup LookupFinal
InsertAt == {"idle", "set", "upsert", "undo"} \cup InsertFinal
EvictAt == {"idle", "delete", "del"} \cup EvictFinal

Upserted(id) == [op |-> "upsert", id |-> id]
Deleted(id) == [op |-> "delete", id |-> id]
Write == [op : {"upsert", "delete"}, id : Ids]

\* The ids whose eviction was answered with success.
Evicted == {evict[e].id : e \in {f \in Evictions : evict[f].pc = "done"}}

Init ==
    /\ kv = {}
    /\ points = {}
    /\ queue = << >>
    /\ prompt \in [Lookups \cup Inserts -> Prompts]
    /\ lookup = [l \in Lookups |-> [pc |-> "idle", id |-> None, dead |-> {}]]
    /\ insert = [i \in Inserts |-> "idle"]
    /\ evict = [e \in Evictions |-> [pc |-> "idle", id |-> None]]

-----------------------------------------------------------------------------
(* The stores.                                                             *)

\* Redis drops a key: its TTL ends, or memory is short.
Expire(id) ==
    /\ id \in kv
    /\ kv' = kv \ {id}
    /\ UNCHANGED <<points, queue, prompt, lookup, insert, evict>>

\* Qdrant applies the oldest write it has acknowledged.
Apply ==
    /\ queue # << >>
    /\ points' = IF Head(queue).op = "upsert" THEN points \cup {Head(queue).id}
                                              ELSE points \ {Head(queue).id}
    /\ queue' = Tail(queue)
    /\ UNCHANGED <<kv, prompt, lookup, insert, evict>>

\* A write request to Qdrant: it is acknowledged, or fails with or without
\* having been accepted.
Accepted(write) == queue' = Append(queue, write)
MaybeAccepted(write) == Accepted(write) \/ UNCHANGED queue

Score(p, id) == Similarity[p][prompt[id]]

\* Mutant of Best: the search goes without its score_threshold.
BestOfAny(p) == {id \in points : \A other \in points : Score(p, other) <= Score(p, id)}

\* What a search for p finds: a point of the highest score, if that is enough.
Best(p) == {id \in points :
              /\ Score(p, id) >= MinScore
              /\ \A other \in points : Score(p, other) <= Score(p, id)}

-----------------------------------------------------------------------------
(* Lookup: embed, search, get, and the lazy cleanup of a point without key *)

LookupGoes(l, from, to) ==
    /\ lookup[l].pc = from
    /\ lookup' = [lookup EXCEPT ![l].pc = to]

\* The call begins, and embeds its key text; dead is what had been evicted by
\* then.  Embedding touches neither store, so it is one step with the beginning.
LookupEmbed(l) ==
    /\ lookup[l].pc = "idle"
    /\ \E to \in {"search", "failed"} :
         lookup' = [lookup EXCEPT ![l].pc = to, ![l].dead = Evicted]
    /\ UNCHANGED <<kv, points, queue, prompt, insert, evict>>

\* Mutant of LookupSearch: an empty result goes on to the stores with no id.
LookupSearchUnchecked(l) ==
    /\ \/ \E id \in Best(prompt[l]) :
            /\ lookup[l].pc = "search"
            /\ lookup' = [lookup EXCEPT ![l].pc = "get", ![l].id = id]
       \/ Best(prompt[l]) = {} /\ LookupGoes(l, "search", "get")
       \/ LookupGoes(l, "search", "failed")
    /\ UNCHANGED <<kv, points, queue, prompt, insert, evict>>

LookupSearch(l) ==
    /\ \/ \E id \in Best(prompt[l]) :
            /\ lookup[l].pc = "search"
            /\ lookup' = [lookup EXCEPT ![l].pc = "get", ![l].id = id]
       \/ Best(prompt[l]) = {} /\ LookupGoes(l, "search", "miss")
       \/ LookupGoes(l, "search", "failed")
    /\ UNCHANGED <<kv, points, queue, prompt, insert, evict>>

\* Mutant of LookupGet: an error of Redis passes for a missing key.
LookupGetErrorIsMiss(l) ==
    /\ \/ lookup[l].id \in kv /\ LookupGoes(l, "get", "hit")
       \/ LookupGoes(l, "get", "cleanup")
    /\ UNCHANGED <<kv, points, queue, prompt, insert, evict>>

LookupGet(l) ==
    /\ \/ lookup[l].id \in kv /\ LookupGoes(l, "get", "hit")
       \/ lookup[l].id \notin kv /\ LookupGoes(l, "get", "cleanup")
       \/ LookupGoes(l, "get", "failed")
    /\ UNCHANGED <<kv, points, queue, prompt, insert, evict>>

\* Mutant of LookupCleanup: the key is deleted in place of the point.
LookupCleanupOfKey(l) ==
    /\ LookupGoes(l, "cleanup", "cleaned")
    /\ kv' = kv \ {lookup[l].id}
    /\ UNCHANGED <<points, queue, prompt, insert, evict>>

\* The call is a miss whether or not the deletion of the point succeeds.
LookupCleanup(l) ==
    /\ \/ LookupGoes(l, "cleanup", "cleaned") /\ Accepted(Deleted(lookup[l].id))
       \/ LookupGoes(l, "cleanup", "miss") /\ MaybeAccepted(Deleted(lookup[l].id))
    /\ UNCHANGED <<kv, points, prompt, insert, evict>>

-----------------------------------------------------------------------------
(* Insert: embed, set the key, upsert the point, undo the key on failure.  *)

InsertGoes(i, from, to) ==
    /\ insert[i] = from
    /\ insert' = [insert EXCEPT ![i] = to]

InsertEmbed(i) ==
    /\ \E to \in {"set", "failed"} : InsertGoes(i, "idle", to)
    /\ UNCHANGED <<kv, points, queue, prompt, lookup, evict>>

InsertSet(i) ==
    /\ \/ InsertGoes(i, "set", "upsert") /\ kv' = kv \cup {i}
       \/ InsertGoes(i, "set", "failed") /\ kv' \in {kv, kv \cup {i}}
    /\ UNCHANGED <<points, queue, prompt, lookup, evict>>

InsertUpsert(i) ==
    /\ \/ InsertGoes(i, "upsert", "done") /\ Accepted(Upserted(i))
       \/ InsertGoes(i, "upsert", "undo") /\ MaybeAccepted(Upserted(i))
    /\ UNCHANGED <<kv, points, prompt, lookup, evict>>

\* The error of this Del is not looked at.
InsertUndo(i) ==
    /\ InsertGoes(i, "undo", "failed")
    /\ kv' \in {kv, kv \ {i}}
    /\ UNCHANGED <<points, queue, prompt, lookup, evict>>

-----------------------------------------------------------------------------
(* Evict: delete the point, then the key.                                  *)

EvictGoes(e, from, to) ==
    /\ evict[e].pc = from
    /\ evict' = [evict EXCEPT ![e].pc = to]

\* An operator asks for an id that is in one of the stores: no answer of the
\* gateway has it, only the stores and the log do.
EvictBegin(e) ==
    /\ evict[e].pc = "idle"
    /\ \E id \in kv \cup points :
         evict' = [evict EXCEPT ![e] = [pc |-> "delete", id |-> id]]
    /\ UNCHANGED <<kv, points, queue, prompt, lookup, insert>>

EvictDelete(e) ==
    /\ \/ EvictGoes(e, "delete", "del") /\ Accepted(Deleted(evict[e].id))
       \/ EvictGoes(e, "delete", "failed") /\ MaybeAccepted(Deleted(evict[e].id))
    /\ UNCHANGED <<kv, points, prompt, lookup, insert>>

\* Mutant of EvictDel: the error of the deletion of the key is not looked at.
EvictDelUnchecked(e) ==
    /\ EvictGoes(e, "del", "done") /\ kv' \in {kv, kv \ {evict[e].id}}
    /\ UNCHANGED <<points, queue, prompt, lookup, insert>>

EvictDel(e) ==
    /\ \/ EvictGoes(e, "del", "done") /\ kv' = kv \ {evict[e].id}
       \/ EvictGoes(e, "del", "failed") /\ kv' \in {kv, kv \ {evict[e].id}}
    /\ UNCHANGED <<points, queue, prompt, lookup, insert>>

-----------------------------------------------------------------------------
\* The gateway goes down: calls under way end where they are.  Neither main nor
\* Shutdown waits for the goroutines that insert.
Crash ==
    /\ lookup' = [l \in Lookups |->
                    IF lookup[l].pc \in LookupFinal \cup {"idle"} THEN lookup[l]
                    ELSE [lookup[l] EXCEPT !.pc = "failed"]]
    /\ insert' = [i \in Inserts |->
                    IF insert[i] \in InsertFinal \cup {"idle"} THEN insert[i]
                    ELSE "failed"]
    /\ evict' = [e \in Evictions |->
                    IF evict[e].pc \in EvictFinal \cup {"idle"} THEN evict[e]
                    ELSE [evict[e] EXCEPT !.pc = "failed"]]
    /\ UNCHANGED <<kv, points, queue, prompt>>

Lookup(l) == \/ LookupEmbed(l) \/ LookupSearch(l)
             \/ LookupGet(l) \/ LookupCleanup(l)
Insert(i) == \/ InsertEmbed(i) \/ InsertSet(i)
             \/ InsertUpsert(i) \/ InsertUndo(i)
Evict(e) == EvictBegin(e) \/ EvictDelete(e) \/ EvictDel(e)

Next ==
    \/ \E l \in Lookups : Lookup(l)
    \/ \E i \in Inserts : Insert(i)
    \/ \E e \in Evictions : Evict(e)
    \/ \E id \in Ids : Expire(id)
    \/ Apply
    \/ Crash

Spec == Init /\ [][Next]_vars

-----------------------------------------------------------------------------
(* Properties.                                                             *)

\* Every variable is in its type.
TypeOK ==
    /\ kv \subseteq Ids
    /\ points \subseteq Ids
    /\ queue \in Seq(Write)
    /\ prompt \in [Lookups \cup Inserts -> Prompts]
    /\ lookup \in [Lookups -> [pc : LookupAt, id : Ids \cup {None}, dead : SUBSET Ids]]
    /\ insert \in [Inserts -> InsertAt]
    /\ evict \in [Evictions -> [pc : EvictAt, id : Ids \cup {None}]]

InQueue(write) == \E k \in 1..Len(queue) : queue[k] = write

\* The point of id is there once Qdrant has caught up.
Findable(id) ==
    /\ id \in points \/ InQueue(Upserted(id))
    /\ ~InQueue(Deleted(id))

\* Every entry whose Insert succeeded can be found as long as its key lives and
\* nobody asked to evict it: no lazy cleanup, begun by a lookup that read either
\* store at an earlier time, ever takes away the point of a live key.
InsertedIsFindable ==
    \A id \in Ids :
        (insert[id] = "done" /\ id \in kv /\ \A e \in Evictions : evict[e].id # id)
            => Findable(id)

\* A lookup that begins after an eviction was answered never returns the evicted
\* response, whatever Qdrant has applied by then and whatever other calls do.
NoHitAfterEvict ==
    \A l \in Lookups : lookup[l].pc = "hit" => lookup[l].id \notin lookup[l].dead

\* A point whose cleanup Qdrant acknowledged stays away: it is gone, or its
\* deletion is the last write under way for it, and no insert still adds it.
CleanedPointStaysAway ==
    \A l \in Lookups : lookup[l].pc = "cleaned" =>
        LET id == lookup[l].id IN
        /\ id \notin points \/ InQueue(Deleted(id))
        /\ insert[id] \notin {"idle", "set", "upsert"}
        /\ \A k \in 1..Len(queue) :
             queue[k] = Upserted(id) => \E j \in k+1..Len(queue) : queue[j] = Deleted(id)

\* The cache as its callers see it, with its remote calls hidden: an entry is its
\* key in Redis, and a call is open until its last remote call is answered.
entryBar == [i \in Inserts |-> IF i \in kv THEN "live"
                               ELSE IF insert[i] \in {"idle", "set"} THEN "absent" ELSE "gone"]
lookupBar == [l \in Lookups |->
    CASE lookup[l].pc = "hit" -> [is |-> "hit", id |-> lookup[l].id]
      [] lookup[l].pc \in {"miss", "cleaned"} -> [is |-> "miss", id |-> None]
      [] lookup[l].pc = "failed" -> [is |-> "failed", id |-> None]
      [] OTHER -> [is |-> "open", id |-> None]]
insertBar == [i \in Inserts |-> CASE insert[i] = "done" -> "ok"
                                  [] insert[i] = "failed" -> "failed"
                                  [] OTHER -> "open"]
evictBar == [e \in Evictions |->
    CASE evict[e].pc = "done" -> [is |-> "ok", id |-> evict[e].id]
      [] evict[e].pc = "failed" -> [is |-> "failed", id |-> None]
      [] OTHER -> [is |-> "open", id |-> None]]

Contract == INSTANCE CacheContract WITH
    entry <- entryBar, lookup <- lookupBar, insert <- insertBar, evict <- evictBar

\* Two stores, their failures and every interleaving of the calls add up to one
\* store with atomic calls.
ImplementsContract == Contract!Spec
=============================================================================
