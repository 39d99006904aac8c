-------------------------------- MODULE BackEnds --------------------------------
(***************************************************************************)
(* The two back ends of the storage, and when they stand for the same log.    *)
(***************************************************************************)
EXTENDS Integers, Sequences

Memory == INSTANCE MemoryStorage
Rocks == INSTANCE PersistentStorage

\* A log of which `base` entries are compacted, in either back end
MemoryAt(log, base) == [log |-> log, trimmed |-> base, compacted |-> base]
RocksAt(log, base) ==
    [entries |-> [k \in base..(base + Len(log) - 1) |-> log[k - base + 1]],
     next |-> base + Len(log), trim |-> base]

SameLog(memory, rocks) ==
    /\ memory = MemoryAt(memory.log, memory.trimmed)
    /\ rocks = RocksAt(memory.log, memory.trimmed)
===============================================================================
