---- MODULE KeyedTables ----
(***************************************************************************)
(* The tables of dictionaries, sets and fields (runtime/value.cpp): the    *)
(* entries in order of arrival and, from eight of them on, an index of     *)
(* open addressing that holds positions.  An empty slot of the index is 0. *)
(***************************************************************************)
EXTENDS Integers, Sequences, SequencesExt, FiniteSetsExt

CONSTANT Hash   \* of each key
IndexThreshold == 8

Empty == [entries |-> <<>>, index |-> <<>>]
Absent == 0
\* The slots that a hash leads to, one after the other and round.
Slot(hash, d, slots) == ((hash + d) % slots) + 1
\* probe_index: from the slot of its hash on, the slot that holds a key or the empty one where it belongs.
Probe(index, entries, key) ==
    LET slot(d) == Slot(Hash[key], d, Len(index)) IN
    slot(Min({d \in 0..(Len(index) - 1) : \/ index[slot(d)] = Absent
                                          \/ entries[index[slot(d)]].key = key}))
Indexed(index, entries, position) == [index EXCEPT ![Probe(index, entries, entries[position].key)] = position]
\* 16, doubled over and over.
Doubled(times) == LET doubled[k \in 0..times] == IF k = 0 THEN 16 ELSE 2 * doubled[k - 1] IN doubled
Capacity(size) == Doubled(size)[Min({k \in 0..size : Doubled(size)[k] * 3 >= (size + 1) * 4})]
\* The index when the first k entries are in it.
Filled(entries) ==
    LET filled[k \in 0..Len(entries)] ==
            IF k = 0 THEN [slot \in 1..Capacity(Len(entries)) |-> Absent] ELSE Indexed(filled[k - 1], entries, k)
    IN filled
RebuildPositions(entries) == IF Len(entries) < IndexThreshold THEN <<>> ELSE Filled(entries)[Len(entries)]
Crowded(size, slots) == (size + 1) * 4 > slots * 3

\* find_mutable: the position of a key.
Find(t, key) ==
    LET at == {k \in DOMAIN t.entries : t.entries[k].key = key} IN
    CASE t.index = <<>> /\ at # {} -> Min(at)
      [] t.index = <<>> /\ at = {} -> Absent
      [] OTHER -> t.index[Probe(t.index, t.entries, key)]
Set(t, key, value) ==
    LET at == Find(t, key)
        entries == Append(t.entries, [key |-> key, value |-> value])
    IN IF at # Absent THEN [t EXCEPT !.entries[at].value = value]
       ELSE [entries |-> entries,
             index |-> IF Len(entries) < IndexThreshold THEN t.index
                       ELSE IF t.index = <<>> \/ Crowded(Len(entries), Len(t.index)) THEN RebuildPositions(entries)
                       ELSE Indexed(t.index, entries, Len(entries))]
\* Mutant: the slot is emptied and the positions behind it moved, but no key is probed again.
EraseByPatch(t, key) ==
    LET at == Find(t, key) IN
    IF at = Absent THEN t
    ELSE [entries |-> RemoveAt(t.entries, at),
          index |-> [slot \in DOMAIN t.index |->
                        CASE t.index[slot] = at -> 0 [] t.index[slot] > at -> t.index[slot] - 1 [] OTHER -> t.index[slot]]]
Erase(t, key) ==
    LET at == Find(t, key) IN
    IF at = Absent THEN t
    ELSE LET entries == RemoveAt(t.entries, at) IN [entries |-> entries, index |-> RebuildPositions(entries)]

\* The tables after each of a sequence of calls, one after the other; what is set is the number of the call.
Do(t, call, k) == IF call.op = "set" THEN Set(t, call.key, k) ELSE Erase(t, call.key)
Called(calls) ==
    LET tables[k \in 0..Len(calls)] == IF k = 0 THEN Empty ELSE Do(tables[k - 1], calls[k], k)
    IN tables
\* A key has been set by the j-th of the first k calls and not erased since.
Holds(calls, k, key, j) ==
    /\ calls[j] = [op |-> "set", key |-> key]
    /\ \A i \in j..k : calls[i] # [op |-> "erase", key |-> key]

\* A table tells of each key what the last call about it left, and lists the keys in the order in which they
\* came, whatever the hashes are and the collisions (value.cpp 63-466).
TellsTheLastCalls(calls) ==
    \A k \in 0..Len(calls) :
        LET t == Called(calls)[k]
            holders(key) == {j \in 1..k : Holds(calls, k, key, j)}
        IN /\ \A key \in DOMAIN Hash :
                 IF holders(key) = {} THEN Find(t, key) = Absent
                 ELSE t.entries[Find(t, key)] = [key |-> key, value |-> Max(holders(key))]
           /\ \A p, q \in DOMAIN t.entries :
                 p < q => Min(holders(t.entries[p].key)) < Min(holders(t.entries[q].key))
====
