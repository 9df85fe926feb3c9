--------------------------- MODULE CacheContract ---------------------------
(***************************************************************************)
(* What the semantic cache promises its callers, internal/cache/cache.go,  *)
(* as one store with atomic steps.  An entry is added at most once and,    *)
(* once gone, never comes back.  A lookup that hits returns an entry that  *)
(* is live at that moment and whose prompt is similar enough; an eviction  *)
(* that succeeds leaves no entry.  A hit is never promised: entries may    *)
(* vanish at any time.  A call that fails may have had its effect.         *)
(***************************************************************************)
EXTENDS Integers

CONSTANTS
    Lookups, Inserts, Evictions,  \* the calls
    Prompts, Similarity, MinScore

None == "none"

VARIABLES
    prompt,   \* the prompt of each lookup and insert
    entry,    \* of each insert: not there yet, live, or gone for good
    lookup,   \* the answer of each Lookup, and the id it hit
    insert,   \* the answer of each Insert
    evict     \* the answer of each Evict, and the id that it evicted

contractVars == <<prompt, entry, lookup, insert, evict>>

Open == [is |-> "open", id |-> None]
Answer(is, id) == [is |-> is, id |-> id]

Init ==
    /\ prompt \in [Lookups \cup Inserts -> Prompts]
    /\ entry = [i \in Inserts |-> "absent"]
    /\ lookup = [l \in Lookups |-> Open]
    /\ insert = [i \in Inserts |-> "open"]
    /\ evict = [e \in Evictions |-> Open]

Add(i) ==
    /\ insert[i] = "open" /\ entry[i] = "absent"
    /\ entry' = [entry EXCEPT ![i] = "live"]
    /\ UNCHANGED <<prompt, lookup, insert, evict>>

\* Expiry, or an effect of a call that is going to fail.
Vanish(i) ==
    /\ entry[i] = "live"
    /\ entry' = [entry EXCEPT ![i] = "gone"]
    /\ UNCHANGED <<prompt, lookup, insert, evict>>

InsertSucceeds(i) ==
    /\ insert[i] = "open" /\ entry[i] # "absent"
    /\ insert' = [insert EXCEPT ![i] = "ok"]
    /\ UNCHANGED <<prompt, entry, lookup, evict>>

\* The entry of a failed insert is there or is not, and is not added later.
InsertFails(i) ==
    /\ insert[i] = "open"
    /\ insert' = [insert EXCEPT ![i] = "failed"]
    /\ \E left \in IF entry[i] = "gone" THEN {"gone"} ELSE {"live", "gone"} :
         entry' = [entry EXCEPT ![i] = left]
    /\ UNCHANGED <<prompt, lookup, evict>>

Similar(l, i) == Similarity[prompt[l]][prompt[i]] >= MinScore

Hits(l, i) ==
    /\ lookup[l] = Open
    /\ entry[i] = "live" /\ Similar(l, i)
    /\ lookup' = [lookup EXCEPT ![l] = Answer("hit", i)]
    /\ UNCHANGED <<prompt, entry, insert, evict>>

\* A miss, or an error.
HasNone(l) ==
    /\ lookup[l] = Open
    /\ \E is \in {"miss", "failed"} :
         lookup' = [lookup EXCEPT ![l] = Answer(is, None)]
    /\ UNCHANGED <<prompt, entry, insert, evict>>

Evicts(e, i) ==
    /\ evict[e] = Open
    /\ entry[i] # "absent"
    /\ entry' = [entry EXCEPT ![i] = "gone"]
    /\ evict' = [evict EXCEPT ![e] = Answer("ok", i)]
    /\ UNCHANGED <<prompt, lookup, insert>>

EvictFails(e) ==
    /\ evict[e] = Open
    /\ evict' = [evict EXCEPT ![e] = Answer("failed", None)]
    /\ \/ UNCHANGED entry
       \/ \E i \in Inserts : entry[i] = "live" /\ entry' = [entry EXCEPT ![i] = "gone"]
    /\ UNCHANGED <<prompt, lookup, insert>>

\* The gateway goes down: the calls ls, is and es, which are under way, fail.
Down(ls, is, es) ==
    /\ \A l \in ls : lookup[l] = Open
    /\ \A i \in is : insert[i] = "open"
    /\ \A e \in es : evict[e] = Open
    /\ lookup' = [l \in Lookups |-> IF l \in ls THEN Answer("failed", None) ELSE lookup[l]]
    /\ insert' = [i \in Inserts |-> IF i \in is THEN "failed" ELSE insert[i]]
    /\ evict' = [e \in Evictions |-> IF e \in es THEN Answer("failed", None) ELSE evict[e]]
    /\ entry' = [i \in Inserts |-> IF i \in is /\ entry[i] = "absent" THEN "gone"
                                                                     ELSE entry[i]]
    /\ UNCHANGED prompt

Next ==
    \/ \E i \in Inserts : Add(i) \/ Vanish(i) \/ InsertSucceeds(i) \/ InsertFails(i)
    \/ \E l \in Lookups : HasNone(l) \/ \E i \in Inserts : Hits(l, i)
    \/ \E e \in Evictions : EvictFails(e) \/ \E i \in Inserts : Evicts(e, i)
    \/ \E ls \in SUBSET Lookups, is \in SUBSET Inserts, es \in SUBSET Evictions :
         Down(ls, is, es)

Spec == Init /\ [][Next]_contractVars
=============================================================================
