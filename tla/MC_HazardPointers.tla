------------------------- MODULE MC_HazardPointers -------------------------
(* Model-checking instance of HazardPointers: two or three threads as     *)
(* model values, with their symmetry sets.                                *)
EXTENDS HazardPointers, TLC

CONSTANTS t1, t2, t3

MC_Threads == {t1, t2}

ThreadSymmetry == Permutations(MC_Threads)

MC_Threads3 == {t1, t2, t3}

ThreadSymmetry3 == Permutations(MC_Threads3)

\* The state as far as any later step can tell: a thread's TLS is not read
\* while it is detached or inside alloc_thread_data (setTLS overwrites it
\* before the next read), so the record destruct leaves there is dropped.
LiveView == <<shared, pc, stack, aCur, sCur, sSlot, plist, hCur, hsRec, hMove,
              retArg, helpArg,
              [t \in Threads |-> IF pc[t] \in {"detached", "alloc"} THEN 0 ELSE tls[t]]>>

====
