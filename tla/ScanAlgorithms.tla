--------------------------- MODULE ScanAlgorithms ---------------------------
(***************************************************************************)
(* The pure parts of the two scan algorithms of hp_scan_functions.h, as   *)
(* operators over a retired buffer and a guard snapshot.                   *)
(*                                                                         *)
(* A retired entry is its word m_n (the union with m_p), so the in-place   *)
(* mark is the low bit of the word.  A guard snapshot is the sequence of   *)
(* the non-null and null slot values a scan reads, in traversal order.     *)
(* HazardPointers uses the single steps (MarkGuarded, Compacted,           *)
(* ClassicKeeps) one shared read at a time; the whole-pass operator        *)
(* InplaceSurvivors runs them over a fixed snapshot.                       *)
(***************************************************************************)
EXTENDS Integers, Sequences, SequencesExt

nullptr == 0

\* it->m_n & 1, it->m_n |= 1 and it->m_n &= ~uintptr_t(1).
IsMarked(e) == e % 2 = 1
SetMark(e)  == IF IsMarked(e) THEN e ELSE e + 1
ClearMark(e) == IF IsMarked(e) THEN e - 1 ELSE e

\* classic_scan keeps an entry when std::binary_search finds
\* first_retired->m_p among the published guards: line 70 tests the first
\* entry of the buffer for every entry, not the entry *it.
ClassicKeeps(s, pl) == s[1] \in pl

\* std::lower_bound over the sorted words (0 when it returns last).
LowerBound(s, h) == SelectInSeq(s, LAMBDA e : ~(e < h))

\* Mutant: std::upper_bound in place of std::lower_bound.
MarkGuarded_upperBound(s, h) ==
    LET i == SelectInSeq(s, LAMBDA e : h < e) IN
    IF h # nullptr /\ i # 0 /\ s[i] = h THEN [s EXCEPT ![i] = SetMark(@)] ELSE s

\* Mutant: the it->m_p == hptr test is dropped; lower_bound's hit is marked
\* even when it is a larger address.
MarkGuarded_noEqualTest(s, h) ==
    LET i == LowerBound(s, h) IN
    IF h # nullptr /\ i # 0 THEN [s EXCEPT ![i] = SetMark(@)] ELSE s

\* One guard hptr of inplace_scan: a non-null guard found by lower_bound
\* marks the entry it equals.
MarkGuarded(s, h) ==
    LET i == LowerBound(s, h) IN
    IF h # nullptr /\ i # 0 /\ s[i] = h THEN [s EXCEPT ![i] = SetMark(@)] ELSE s

\* The compaction loop: marked words move to the front, in order, with the
\* mark cleared; retired_.reset(nDeferred) drops the rest.
Compacted(s) ==
    LET kept == SelectSeq(s, IsMarked) IN
    [i \in DOMAIN kept |-> ClearMark(kept[i])]

\* inplace_scan on a buffer of unmarked words: sort, mark every entry a
\* guard of the snapshot G equals, compact.
InplaceSurvivors(s, G) ==
    Compacted(FoldLeft(MarkGuarded, SortSeq(s, <), G))

=============================================================================
