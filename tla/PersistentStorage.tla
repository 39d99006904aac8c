--------------------------- MODULE PersistentStorage ---------------------------
(***************************************************************************)
(* The log of the back end PersistentStorage (persistent_storage.rs): a       *)
(* column family of RocksDB with an entry under each key, TRIM, and in memory *)
(* the key of the next entry.  A write batch is applied at once.              *)
(***************************************************************************)
EXTENDS Integers, Sequences, FiniteSets

New == [entries |-> << >>, next |-> 0, trim |-> 0]

\* delete_range_cf of the keys from..to, without to
DeleteRange(entries, from, to) == [k \in DOMAIN entries \ (from..(to - 1)) |-> entries[k]]

\* batch_append_entries
AppendEntries(r, entries) ==
    LET new == r.next..(r.next + Len(entries) - 1)
    IN  [entries |-> [k \in DOMAIN r.entries \cup new |->
                         IF k \in new THEN entries[k - r.next + 1] ELSE r.entries[k]],
         next |-> r.next + Len(entries), trim |-> r.trim]

\* batch_append_on_prefix
AppendOnPrefix(r, from, entries) ==
    AppendEntries([entries |-> DeleteRange(r.entries, from + Len(entries), r.next),
                   next |-> from, trim |-> r.trim], entries)

\* batch_trim: next_log_key is as it was.
Trim(r, idx) == [entries |-> DeleteRange(r.entries, 0, idx), next |-> r.next, trim |-> r.trim]

SetCompactedIdx(r, idx) == [entries |-> r.entries, next |-> r.next, trim |-> idx]

LastKey(r) == CHOOSE k \in DOMAIN r.entries : \A j \in DOMAIN r.entries : j <= k

\* Mutant of Open: a log without entries starts at key 0 again.
OpenAtZero(r) ==
    [entries |-> r.entries, next |-> IF DOMAIN r.entries = {} THEN 0 ELSE LastKey(r) + 1, trim |-> r.trim]

\* open: next_log_key follows the largest key, or is what was trimmed.
Open(r) ==
    [entries |-> r.entries, next |-> IF DOMAIN r.entries = {} THEN r.trim ELSE LastKey(r) + 1, trim |-> r.trim]

GetLogLen(r) == r.next - r.trim

\* The i-th key from `from` on, in the order of the iterator
KeyAt(r, from, i) ==
    CHOOSE k \in DOMAIN r.entries :
        k >= from /\ Cardinality({j \in DOMAIN r.entries : from <= j /\ j < k}) = i - 1

\* get_entries, where the iterator finds as many keys as it is asked for
GetEntries(r, from, to) ==
    IF to > r.next \/ from >= to THEN << >>
    ELSE [i \in 1..(to - from) |-> r.entries[KeyAt(r, from, i)]]

GetSuffix(r, from) == GetEntries(r, from, r.next)
===============================================================================
