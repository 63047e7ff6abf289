-------------------------- MODULE MC_Completeness --------------------------
(***************************************************************************)
(* HazardPointers with one auxiliary history variable, scanGuards: the    *)
(* addresses some guard slot published when each thread's current scan    *)
(* pass began (the head load of classic_scan or inplace_scan).  It lets   *)
(* spec 8.2 (reclamation completeness) be stated for concurrent scans;     *)
(* the engine's own steps are unchanged.                                  *)
(***************************************************************************)
EXTENDS HazardPointers, TLC

CONSTANTS t1, t2

MC_Threads == {t1, t2}

ThreadSymmetry == Permutations(MC_Threads)

VARIABLE scanGuards

Passes == {"collect", "mark"}

\* Thread t starts the guard-collection pass of a scan in this step.
ScanBegins(t) == pc[t] \notin Passes /\ pc'[t] \in Passes

\* Thread t compacts its buffer and returns from the scan in this step.
ScanEnds(t) == pc[t] \in Passes /\ pc'[t] \notin Passes

CompInit == Init /\ scanGuards = [t \in Threads |-> {}]

CompNext ==
    /\ Next
    /\ scanGuards' = [t \in Threads |->
                        IF ScanBegins(t) THEN Guarded
                        ELSE IF ScanEnds(t) THEN {} ELSE scanGuards[t]]

CompSpec == CompInit /\ [][CompNext]_<<vars, scanGuards>>

\* Spec 8.2: a scan frees every entry of the caller's buffer that no guard
\* published when its pass began.  The compaction of a scan (in
\* inplace_scan the marks set while the other threads publish, clear and
\* release) keeps only entries guarded at that moment; since a guard is
\* only ever gained on a live node, no retired entry can win a guard later.
ScanKeepsOnlyGuarded ==
    [][\A t \in Threads :
         ScanEnds(t) =>
            \A i \in DOMAIN retired'[tls[t]] :
               EntryAddr(retired'[tls[t]][i]) \in scanGuards[t]]_<<vars, scanGuards>>

====
