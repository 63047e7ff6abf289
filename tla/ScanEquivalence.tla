--------------------------- MODULE ScanEquivalence ---------------------------
(***************************************************************************)
(* The scan algorithms of ScanAlgorithms checked over every small input:   *)
(* every retired buffer of distinct aligned addresses (in any order) and  *)
(* every guard snapshot of up to MaxGuards slot values, null and repeated  *)
(* values included.  The input is chosen in Init and never changes; the    *)
(* properties are invariants over it.                                     *)
(***************************************************************************)
EXTENDS Integers, Sequences, SequencesExt, ScanAlgorithms

CONSTANTS
    Addrs,       \* addresses of retired nodes (even: the in-place precondition)
    MaxRetired,  \* bound: entries in the retired buffer
    MaxGuards    \* bound: guard slot values in the snapshot

ASSUME /\ Addrs \subseteq Nat \ {nullptr}
       /\ \A a \in Addrs : ~IsMarked(a)
       /\ MaxRetired \in Nat /\ MaxGuards \in Nat

VARIABLES buf, guards

vars == <<buf, guards>>

Init ==
    /\ buf \in {s \in SetToAllKPermutations(Addrs) : Len(s) <= MaxRetired}
    /\ guards \in SeqOf(Addrs \cup {nullptr}, MaxGuards)

Next == UNCHANGED vars

Spec == Init /\ [][Next]_vars

\* The entries a correct scan keeps: those some guard of the snapshot
\* publishes.
Guarded(e) == e \in Range(guards)

\* inplace_scan (sort, lower_bound per guard, mark, compact) keeps exactly
\* the guarded entries, each once and in ascending order, and frees the
\* rest; duplicate and null guards change nothing.
InplaceScanCorrect ==
    InplaceSurvivors(buf, guards) = SortSeq(SelectSeq(buf, Guarded), <)

=============================================================================
