----------------------------- MODULE MemoryStorage -----------------------------
(***************************************************************************)
(* The log of the back end MemoryStorage (memory_storage.rs): a vector and    *)
(* the index of its first entry.                                             *)
(***************************************************************************)
EXTENDS Integers, Sequences

Smaller(a, b) == IF a < b THEN a ELSE b

New == [log |-> << >>, trimmed |-> 0, compacted |-> 0]

AppendEntries(m, entries) == [log |-> m.log \o entries, trimmed |-> m.trimmed, compacted |-> m.compacted]

\* append_on_prefix; truncate does nothing beyond the end
AppendOnPrefix(m, from, entries) ==
    LET kept == SubSeq(m.log, 1, Smaller(from - m.trimmed, Len(m.log)))
    IN  [log |-> kept \o entries, trimmed |-> m.trimmed, compacted |-> m.compacted]

\* trim drains what there is up to idx.
Trim(m, idx) ==
    LET drained == Smaller(idx - m.trimmed, Len(m.log))
    IN  [log |-> SubSeq(m.log, drained + 1, Len(m.log)), trimmed |-> idx, compacted |-> m.compacted]

SetCompactedIdx(m, idx) == [log |-> m.log, trimmed |-> m.trimmed, compacted |-> idx]

GetLogLen(m) == Len(m.log)

\* get_entries; nothing unless the vector has them all.  An index before the first
\* entry underflows: a panic, or in a release build an index out of range.
GetEntries(m, from, to) ==
    IF m.trimmed <= from /\ from <= to /\ to <= m.trimmed + Len(m.log)
    THEN SubSeq(m.log, from - m.trimmed + 1, to - m.trimmed)
    ELSE << >>

GetSuffix(m, from) == GetEntries(m, from, m.trimmed + Len(m.log))
===============================================================================
