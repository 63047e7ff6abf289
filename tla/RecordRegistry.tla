--------------------------- MODULE RecordRegistry ---------------------------
(***************************************************************************)
(* The record registry as spec 3 and 4.4 describe it, independent of the  *)
(* list, the CAS loops and the scans.  A record is absent (not yet in the *)
(* list), FREE or OWNED; the list only grows until teardown destroys      *)
(* every record.  A new record enters OWNED by its creator, a FREE record  *)
(* is claimed by one thread, an OWNED one is released; nothing else       *)
(* changes a record's state, and an OWNED record always has its holder.   *)
(***************************************************************************)
CONSTANTS Threads, Records, NoThread

VARIABLES status, holder

Init ==
    /\ status = [r \in Records |-> "absent"]
    /\ holder = [r \in Records |-> NoThread]

\* allocate(), step 2: a new record, owner = self, prepended to the list.
Create(t, r) ==
    /\ status[r] = "absent"
    /\ status' = [status EXCEPT ![r] = "OWNED"]
    /\ holder' = [holder EXCEPT ![r] = t]

\* FREE -> OWNED by the owner CAS of allocate() or of help-scan.
Claim(t, r) ==
    /\ status[r] = "FREE"
    /\ status' = [status EXCEPT ![r] = "OWNED"]
    /\ holder' = [holder EXCEPT ![r] = t]

\* OWNED -> FREE by the release store (release() or help-scan).
Release(r) ==
    /\ status[r] = "OWNED"
    /\ status' = [status EXCEPT ![r] = "FREE"]
    /\ holder' = [holder EXCEPT ![r] = NoThread]

\* destruct(): every record of the list is destroyed.
Teardown ==
    /\ status' = [r \in Records |-> "absent"]
    /\ holder' = [r \in Records |-> NoThread]

Next ==
    \/ \E t \in Threads, r \in Records : Create(t, r) \/ Claim(t, r)
    \/ \E r \in Records : Release(r)
    \/ Teardown

Spec == Init /\ [][Next]_<<status, holder>>

=============================================================================
