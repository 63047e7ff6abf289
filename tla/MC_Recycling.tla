--------------------------- MODULE MC_Recycling ---------------------------
(***************************************************************************)
(* HazardPointers with one auxiliary history variable, lastRel: the       *)
(* record each thread released by its last free_thread_data, kept while  *)
(* no other thread is inside a call and until the thread is attached      *)
(* again.  It lets spec 8.5 (recycling) be stated; the engine's own steps *)
(* are unchanged.                                                          *)
(***************************************************************************)
EXTENDS HazardPointers, TLC

CONSTANTS t1, t2

MC_Threads == {t1, t2}

VARIABLE lastRel

\* The owner_rec_ = nullptr store of thread t in this step.
Releases(t) == pc[t] = "release_owner" /\ pc'[t] = "detached"

\* Thread t leaves alloc_thread_data in this step by claiming an existing
\* record (the owner_rec_ CAS), not by creating one.
ClaimsExisting(t) == pc[t] = "alloc" /\ pc'[t] = "ready" /\ nrec' = nrec

RecInit == Init /\ lastRel = [t \in Threads |-> 0]

RecNext ==
    /\ Next
    /\ lastRel' = [t \in Threads |->
                     IF Releases(t) THEN tls[t]
                     ELSE IF \/ pc'[t] = "ready"
                             \/ \E u \in Threads \ {t} : pc'[u] \notin Idle
                          THEN 0 ELSE lastRel[t]]

RecSpec == RecInit /\ [][RecNext]_<<vars, lastRel>>

\* Spec 8.5: a thread that releases its record (free_thread_data) and
\* attaches again (alloc_thread_data) while no other thread is inside a
\* call in between gets that same record back, not another one.
RecyclesOwnRecord ==
    [][\A t \in Threads :
         ClaimsExisting(t) /\ lastRel[t] # 0 => tls'[t] = lastRel[t]]_<<vars, lastRel>>

====
