--------------------------- MODULE HazardPointers ---------------------------
(***************************************************************************)
(* The hazard-pointer SMR engine of libcds (cds::gc::hp::details):        *)
(* the singleton basic_smr (construct/destruct), the append-only list of  *)
(* client_records (alloc_thread_data, free_thread_data), the two scans    *)
(* (classic_scan, inplace_scan) and help_scan, driven by client threads   *)
(* that publish guards and retire nodes.                                  *)
(*                                                                         *)
(* Records are numbered in creation order: thread_list_ points at record  *)
(* nrec and next_ of record r is r - 1, so a traversal that loaded the    *)
(* head when nrec was n visits n, n-1, ..., 1.  A retired entry is its    *)
(* word m_n, the address with the low bit used as the in-place mark, and  *)
(* 0 is nullptr.  Each step of a thread is one shared-memory access or a  *)
(* run of owner-private work; memory is sequentially consistent.          *)
(***************************************************************************)
EXTENDS Integers, Sequences, FiniteSets, SequencesExt, TLC, ScanAlgorithms

CONSTANTS
    Threads,            \* client threads
    Addrs,              \* addresses of container nodes (naturals, 0 is nullptr)
    HazardPtrCount,     \* nHazardPtrCount given to construct()
    MaxThreadCount,     \* nMaxThreadCount given to construct()
    MaxRetiredPtrCount, \* nMaxRetiredPtrCount given to construct()
    ScanType,           \* scan_type given to construct(): "classic" | "inplace"
    MaxRecords          \* bound: thread records the model may create

ASSUME /\ Addrs \subseteq Nat \ {nullptr}
       \* a marked even address never collides with another address
       /\ \A a \in Addrs : a % 2 = 0 => a + 1 \notin Addrs
       /\ HazardPtrCount \in Nat \ {0}
       /\ MaxThreadCount \in Nat /\ MaxRetiredPtrCount \in Nat
       /\ ScanType \in {"classic", "inplace"}
       /\ MaxRecords \in Nat \ {0}

(***************************************************************************)
(* Configuration, fixed by the basic_smr constructor.                     *)
(***************************************************************************)
hazard_ptr_count == IF HazardPtrCount = 0 THEN 8 ELSE HazardPtrCount
max_thread_count == IF MaxThreadCount = 0 THEN 100 ELSE MaxThreadCount

calc_retired_size(nSize, nHPCount, nThreadCount) ==
    LET min_size == nHPCount * nThreadCount
    IN  IF nSize < min_size THEN min_size * 2 ELSE nSize

max_retired_ptr_count ==
    calc_retired_size(MaxRetiredPtrCount, hazard_ptr_count, max_thread_count)

Slots  == 1 .. hazard_ptr_count
RecIds == 1 .. MaxRecords

VARIABLES
    instance,   \* basic_smr::instance_ # nullptr
    nrec,       \* thread_list_: the head is record nrec (0: empty list)
    owner_rec,  \* owner_rec_ of each record: itself, or nullptr when free
    free_,      \* free_ hint of each record
    hazards,    \* hazards_ guard slots of each record
    retired,    \* retired_ array of each record, as the words m_n
    node,       \* life cycle of each container node (client side)
    disposed,   \* how many times each address's disposer has run
    fault,      \* "none", or the fatal error that stopped the program
    pc,         \* what each thread is doing
    stack,      \* return points of the nested calls of each thread
    tls,        \* the record a thread is attached to (0: detached)
    aCur,       \* alloc_thread_data: record being tried
    sCur,       \* scans: record whose guards are being read
    sSlot,      \* scans: guard slot being read
    plist,      \* classic_scan: published guards collected so far
    hCur,       \* help_scan: record being visited
    hsRec,      \* help_scan: record claimed (0: none)
    hMove,      \* help_scan: next entry of the claimed record to move
    retArg,     \* retire: address waiting for room
    helpArg     \* free_thread_data: callHelpScan

shared == <<instance, nrec, owner_rec, free_, hazards, retired, node, disposed, fault>>
locals == <<pc, stack, tls, aCur, sCur, sSlot, plist, hCur, hsRec, hMove, retArg, helpArg>>
vars == <<shared, locals>>

Idle == {"detached", "ready"}

(***************************************************************************)
(* Helpers.                                                               *)
(***************************************************************************)
NoGuards == [i \in Slots |-> nullptr]

\* The address a retired word stands for (a marked word is address + 1).
EntryAddr(e) == IF e \in Addrs THEN e ELSE e - 1

\* retired_ptr::free() of every entry of s: the disposer runs once per entry.
Dispose(s) ==
    /\ disposed' = [a \in Addrs |->
                      disposed[a] + Cardinality({i \in DOMAIN s : EntryAddr(s[i]) = a})]
    /\ node' = [a \in Addrs |->
                  IF \E i \in DOMAIN s : EntryAddr(s[i]) = a THEN "freed" ELSE node[a]]

Goto(t, l) == pc' = [pc EXCEPT ![t] = l] /\ UNCHANGED stack

Call(t, l, ret) ==
    /\ pc' = [pc EXCEPT ![t] = l]
    /\ stack' = [stack EXCEPT ![t] = <<ret>> \o @]

Return(t) ==
    /\ pc' = [pc EXCEPT ![t] = Head(stack[t])]
    /\ stack' = [stack EXCEPT ![t] = Tail(@)]

(***************************************************************************)
(* Registry life cycle: basic_smr::construct and basic_smr::destruct.    *)
(***************************************************************************)
Init ==
    /\ instance = FALSE
    /\ nrec = 0
    /\ owner_rec = [r \in RecIds |-> nullptr]
    /\ free_ = [r \in RecIds |-> FALSE]
    /\ hazards = [r \in RecIds |-> NoGuards]
    /\ retired = [r \in RecIds |-> <<>>]
    /\ node = [a \in Addrs |-> "live"]
    /\ disposed = [a \in Addrs |-> 0]
    /\ fault = "none"
    /\ pc = [t \in Threads |-> "detached"]
    /\ stack = [t \in Threads |-> <<>>]
    /\ tls = [t \in Threads |-> 0]
    /\ aCur = [t \in Threads |-> 0]
    /\ sCur = [t \in Threads |-> 0]
    /\ sSlot = [t \in Threads |-> 1]
    /\ plist = [t \in Threads |-> {}]
    /\ hCur = [t \in Threads |-> 0]
    /\ hsRec = [t \in Threads |-> 0]
    /\ hMove = [t \in Threads |-> 1]
    /\ retArg = [t \in Threads |-> nullptr]
    /\ helpArg = [t \in Threads |-> FALSE]

\* construct(): the singleton is created when there is none; the
\* constructor stores an empty thread_list_.
construct ==
    /\ ~instance
    /\ instance' = TRUE
    /\ nrec' = 0
    /\ UNCHANGED <<owner_rec, free_, hazards, retired, node, disposed, fault, locals>>

\* detach_all_thread(): free_thread_data(hprec, false) on every owned
\* record, which clears its guards and stores owner_rec_ = nullptr.
detach_all_thread ==
    /\ hazards' = [r \in RecIds |-> NoGuards]
    /\ owner_rec' = [r \in RecIds |-> nullptr]

\* ~basic_smr(): the walk from the head frees every entry still retired in
\* each record (those the scans of detach_all_thread freed first among
\* them), resets each buffer and destroys each record.  The code stores
\* free_ = true just before destroy_thread_data; no step reads a destroyed
\* record, so free_ returns to the value Init gives a record not yet
\* created.
DestroyThreadList ==
    /\ Dispose(FlattenSeq([i \in 1 .. nrec |-> retired[i]]))
    /\ retired' = [r \in RecIds |-> <<>>]
    /\ free_' = [r \in RecIds |-> FALSE]
    /\ nrec' = 0

\* destruct(bDetachAll), which callers must not run concurrently with any
\* other call.  Without bDetachAll no thread may still be attached, so
\* every record is already released with its guards cleared.  Nothing
\* resets a thread's TLS: a thread whose record was released here makes no
\* further call until it attaches again, which overwrites it.
destruct(bDetachAll) ==
    /\ instance
    /\ \A t \in Threads : pc[t] \in Idle
    /\ bDetachAll \/ \A t \in Threads : pc[t] = "detached"
    /\ detach_all_thread
    /\ DestroyThreadList
    /\ instance' = FALSE
    /\ pc' = [t \in Threads |-> "detached"]
    /\ UNCHANGED <<fault, stack, tls, aCur, sCur, sSlot, plist, hCur, hsRec, hMove,
                   retArg, helpArg>>

\* DefaultTLSManager::setTLS: the thread's record pointer.
setTLS(t, r) == tls' = [tls EXCEPT ![t] = r]

(***************************************************************************)
(* alloc_thread_data: reuse a free record, or prepend a new one.         *)
(***************************************************************************)
AttachStart(t) ==
    /\ instance
    /\ pc[t] = "detached"
    /\ aCur' = [aCur EXCEPT ![t] = nrec]
    /\ Goto(t, "alloc")
    /\ UNCHANGED <<shared, tls, sCur, sSlot, plist, hCur, hsRec, hMove, retArg, helpArg>>

\* Mutant: the free_.store(false) after a successful claim is missing.
Claimed_keepsFreeHint(r) ==
    /\ owner_rec' = [owner_rec EXCEPT ![r] = r]
    /\ UNCHANGED free_

\* A successful owner_rec_ CAS of alloc_thread_data, then free_ = false.
Claimed(r) ==
    /\ owner_rec' = [owner_rec EXCEPT ![r] = r]
    /\ free_' = [free_ EXCEPT ![r] = FALSE]

\* The owner_rec_ CAS from nullptr to the record, on one record per step.
AllocReuse(t) ==
    LET r == aCur[t] IN
    /\ pc[t] = "alloc"
    /\ r > 0
    /\ IF owner_rec[r] = nullptr
         THEN /\ Claimed(r)
              /\ setTLS(t, r)
              /\ aCur' = [aCur EXCEPT ![t] = 0]
              /\ Goto(t, "ready")
         ELSE /\ aCur' = [aCur EXCEPT ![t] = r - 1]
              /\ UNCHANGED <<owner_rec, free_, tls, pc, stack>>
    /\ UNCHANGED <<instance, nrec, hazards, retired, node, disposed, fault,
                   sCur, sSlot, plist, hCur, hsRec, hMove, retArg, helpArg>>

\* The client_record constructor: owner_rec_(this), free_ false.
client_record(r) ==
    /\ owner_rec' = [owner_rec EXCEPT ![r] = r]
    /\ free_' = [free_ EXCEPT ![r] = FALSE]

\* create_client_data: one block holding the record, its guard array (all
\* slots empty) and its empty retired array.
create_client_data(r) ==
    /\ client_record(r)
    /\ hazards' = [hazards EXCEPT ![r] = NoGuards]
    /\ retired' = [retired EXCEPT ![r] = <<>>]

\* No record could be claimed: create_client_data builds a record owned by
\* the caller and the thread_list_ CAS loop prepends it.
AllocNew(t) ==
    LET r == nrec + 1 IN
    /\ pc[t] = "alloc"
    /\ aCur[t] = 0
    /\ nrec < MaxRecords
    /\ nrec' = r
    /\ create_client_data(r)
    /\ setTLS(t, r)
    /\ Goto(t, "ready")
    /\ UNCHANGED <<instance, node, disposed, fault, aCur, sCur, sSlot, plist,
                   hCur, hsRec, hMove, retArg, helpArg>>

(***************************************************************************)
(* Client calls on the attached record (guard, retire, scan, detach).    *)
(***************************************************************************)
\* guard::protect: the slot is published and re-validated against the
\* container, so it can only come to hold a node that is still live.
GuardSet(t, i, a) ==
    /\ pc[t] = "ready"
    /\ node[a] = "live"
    /\ hazards' = [hazards EXCEPT ![tls[t]][i] = a]
    /\ UNCHANGED <<instance, nrec, owner_rec, free_, retired, node, disposed, fault, locals>>

GuardClear(t, i) ==
    /\ pc[t] = "ready"
    /\ hazards[tls[t]][i] # nullptr
    /\ hazards' = [hazards EXCEPT ![tls[t]][i] = nullptr]
    /\ UNCHANGED <<instance, nrec, owner_rec, free_, retired, node, disposed, fault, locals>>

HasRoom(t) == Len(retired[tls[t]]) < max_retired_ptr_count

AppendRetired(t, a) == retired' = [retired EXCEPT ![tls[t]] = Append(@, a)]

\* retire(p): the container has unlinked the live node p; it is appended to
\* the caller's buffer, after a scan if the buffer is full.
Retire(t, a) ==
    /\ pc[t] = "ready"
    /\ node[a] = "live"
    /\ node' = [node EXCEPT ![a] = "retired"]
    /\ IF HasRoom(t)
         THEN /\ AppendRetired(t, a)
              /\ UNCHANGED <<pc, stack, retArg>>
         ELSE /\ retArg' = [retArg EXCEPT ![t] = a]
              /\ Call(t, "scan", "retire_after_scan")
              /\ UNCHANGED retired
    /\ UNCHANGED <<instance, nrec, owner_rec, free_, hazards, disposed, fault, tls,
                   aCur, sCur, sSlot, plist, hCur, hsRec, hMove, helpArg>>

\* Still full after the scan: help_scan before appending.
RetireAfterScan(t) ==
    /\ pc[t] = "retire_after_scan"
    /\ IF HasRoom(t)
         THEN /\ AppendRetired(t, retArg[t])
              /\ retArg' = [retArg EXCEPT ![t] = nullptr]
              /\ Goto(t, "ready")
         ELSE /\ Call(t, "hs", "retire_after_help")
              /\ UNCHANGED <<retired, retArg>>
    /\ UNCHANGED <<instance, nrec, owner_rec, free_, hazards, node, disposed, fault,
                   tls, aCur, sCur, sSlot, plist, hCur, hsRec, hMove, helpArg>>

\* Still full after help_scan: the capacity cannot be recovered, which is
\* a fatal error.
RetireAfterHelp(t) ==
    /\ pc[t] = "retire_after_help"
    /\ IF HasRoom(t)
         THEN /\ AppendRetired(t, retArg[t])
              /\ UNCHANGED fault
         ELSE /\ fault' = "retire_capacity"
              /\ UNCHANGED retired
    /\ retArg' = [retArg EXCEPT ![t] = nullptr]
    /\ Goto(t, "ready")
    /\ UNCHANGED <<instance, nrec, owner_rec, free_, hazards, node, disposed,
                   tls, aCur, sCur, sSlot, plist, hCur, hsRec, hMove, helpArg>>

\* An explicit scan() on the caller's record.
ScanCall(t) ==
    /\ pc[t] = "ready"
    /\ Call(t, "scan", "ready")
    /\ UNCHANGED <<shared, tls, aCur, sCur, sSlot, plist, hCur, hsRec, hMove, retArg, helpArg>>

\* free_thread_data(pRec, callHelpScan): clear the guards, scan, optionally
\* help_scan, then store owner_rec_ = nullptr.
Detach(t) ==
    /\ pc[t] = "ready"
    /\ hazards' = [hazards EXCEPT ![tls[t]] = NoGuards]
    /\ \E callHelpScan \in BOOLEAN : helpArg' = [helpArg EXCEPT ![t] = callHelpScan]
    /\ Call(t, "scan", "release_after_scan")
    /\ UNCHANGED <<instance, nrec, owner_rec, free_, retired, node, disposed, fault,
                   tls, aCur, sCur, sSlot, plist, hCur, hsRec, hMove, retArg>>

ReleaseAfterScan(t) ==
    /\ pc[t] = "release_after_scan"
    /\ IF helpArg[t] THEN Call(t, "hs", "release_owner") ELSE Goto(t, "release_owner")
    /\ UNCHANGED <<shared, tls, aCur, sCur, sSlot, plist, hCur, hsRec, hMove, retArg, helpArg>>

ReleaseOwner(t) ==
    /\ pc[t] = "release_owner"
    /\ owner_rec' = [owner_rec EXCEPT ![tls[t]] = nullptr]
    /\ setTLS(t, 0)
    /\ Goto(t, "detached")
    /\ UNCHANGED <<instance, nrec, free_, hazards, retired, node, disposed, fault,
                   aCur, sCur, sSlot, plist, hCur, hsRec, hMove, retArg, helpArg>>

(***************************************************************************)
(* The scans.  Both read the guards of every record that is not free,     *)
(* one slot per step (the owner_rec_ test is made with the first slot),   *)
(* from a head loaded at the start, then compact the caller's buffer.     *)
(***************************************************************************)
SkipsRecord(t) == sSlot[t] = 1 /\ owner_rec[sCur[t]] = nullptr

GuardSeen(t) == IF SkipsRecord(t) THEN nullptr ELSE hazards[sCur[t]][sSlot[t]]

NextGuard(t) ==
    IF SkipsRecord(t) \/ sSlot[t] = hazard_ptr_count
      THEN /\ sCur' = [sCur EXCEPT ![t] = @ - 1]
           /\ sSlot' = [sSlot EXCEPT ![t] = 1]
      ELSE /\ sSlot' = [sSlot EXCEPT ![t] = @ + 1]
           /\ UNCHANGED sCur

ScanFrom(t, l) ==
    /\ sCur' = [sCur EXCEPT ![t] = nrec]
    /\ sSlot' = [sSlot EXCEPT ![t] = 1]
    /\ Goto(t, l)

ClassicStart(t) ==
    /\ pc[t] = "scan"
    /\ ScanType = "classic"
    /\ plist' = [plist EXCEPT ![t] = {}]
    /\ ScanFrom(t, "collect")
    /\ UNCHANGED <<shared, tls, aCur, hCur, hsRec, hMove, retArg, helpArg>>

ClassicCollect(t) ==
    /\ pc[t] = "collect"
    /\ sCur[t] > 0
    /\ plist' = [plist EXCEPT ![t] = IF GuardSeen(t) = nullptr THEN @ ELSE @ \cup {GuardSeen(t)}]
    /\ NextGuard(t)
    /\ UNCHANGED <<shared, pc, stack, tls, aCur, hCur, hsRec, hMove, retArg, helpArg>>

\* Mutant: retired.reset() is given one less than the number of survivors.
ClassicCompact_resetShort(r, pl) ==
    LET s == retired[r] IN
    /\ retired' = [retired EXCEPT ![r] = Front(SelectSeq(s, LAMBDA e : ClassicKeeps(s, pl)))]
    /\ Dispose(SelectSeq(s, LAMBDA e : ~ClassicKeeps(s, pl)))

\* Stage 2 of classic_scan on record r against the guards pl: the kept
\* entries move to the front, the others are freed, then reset.
ClassicCompact(r, pl) ==
    LET s == retired[r] IN
    /\ retired' = [retired EXCEPT ![r] = SelectSeq(s, LAMBDA e : ClassicKeeps(s, pl))]
    /\ Dispose(SelectSeq(s, LAMBDA e : ~ClassicKeeps(s, pl)))

ClassicFinish(t) ==
    /\ pc[t] = "collect"
    /\ sCur[t] = 0
    /\ ClassicCompact(tls[t], plist[t])
    /\ plist' = [plist EXCEPT ![t] = {}]
    /\ Return(t)
    /\ UNCHANGED <<instance, nrec, owner_rec, free_, hazards, fault, tls, aCur,
                   sCur, sSlot, hCur, hsRec, hMove, retArg, helpArg>>

\* inplace_scan: nothing to do on an empty buffer.
InplaceEmpty(t) ==
    /\ pc[t] = "scan"
    /\ ScanType = "inplace"
    /\ retired[tls[t]] = <<>>
    /\ Return(t)
    /\ UNCHANGED <<shared, tls, aCur, sCur, sSlot, plist, hCur, hsRec, hMove, retArg, helpArg>>

\* Mutant: the low-bit check is skipped and the in-place algorithm runs anyway.
AllUnmarked_skipped(s) == TRUE

\* The loop over the buffer that looks for a word with its low bit set.
AllUnmarked(s) == \A i \in DOMAIN s : ~IsMarked(s[i])

\* A retired word with its low bit set: fall back to classic_scan.
InplaceFallback(t) ==
    LET s == retired[tls[t]] IN
    /\ pc[t] = "scan"
    /\ ScanType = "inplace"
    /\ ~AllUnmarked(s)
    /\ plist' = [plist EXCEPT ![t] = {}]
    /\ ScanFrom(t, "collect")
    /\ UNCHANGED <<shared, tls, aCur, hCur, hsRec, hMove, retArg, helpArg>>

\* Sort the buffer by address, then load the head.
InplaceStart(t) ==
    LET s == retired[tls[t]] IN
    /\ pc[t] = "scan"
    /\ ScanType = "inplace"
    /\ s # <<>>
    /\ AllUnmarked(s)
    /\ retired' = [retired EXCEPT ![tls[t]] = SortSeq(s, <)]
    /\ ScanFrom(t, "mark")
    /\ UNCHANGED <<instance, nrec, owner_rec, free_, hazards, node, disposed, fault,
                   tls, aCur, plist, hCur, hsRec, hMove, retArg, helpArg>>

InplaceMark(t) ==
    /\ pc[t] = "mark"
    /\ sCur[t] > 0
    /\ retired' = [retired EXCEPT ![tls[t]] = MarkGuarded(@, GuardSeen(t))]
    /\ NextGuard(t)
    /\ UNCHANGED <<instance, nrec, owner_rec, free_, hazards, node, disposed, fault,
                   pc, stack, tls, aCur, plist, hCur, hsRec, hMove, retArg, helpArg>>

\* Mutant: pRec->retired_.reset() is given nDeferred - 1.
InplaceCompact_resetShort(r) ==
    /\ retired' = [retired EXCEPT ![r] = Front(Compacted(retired[r]))]
    /\ Dispose(SelectSeq(retired[r], LAMBDA e : ~IsMarked(e)))

\* Mutant: the compaction loop tests !(it->m_n & 1), keeping the unguarded
\* words and freeing the guarded ones.
InplaceCompact_keepsUnmarked(r) ==
    /\ retired' = [retired EXCEPT ![r] = SelectSeq(retired[r], LAMBDA e : ~IsMarked(e))]
    /\ Dispose(SelectSeq(retired[r], IsMarked))

\* The compaction of record r's buffer: marked words move to the front
\* with the mark cleared, the others are freed.
InplaceCompact(r) ==
    /\ retired' = [retired EXCEPT ![r] = Compacted(retired[r])]
    /\ Dispose(SelectSeq(retired[r], LAMBDA e : ~IsMarked(e)))

InplaceFinish(t) ==
    /\ pc[t] = "mark"
    /\ sCur[t] = 0
    /\ InplaceCompact(tls[t])
    /\ Return(t)
    /\ UNCHANGED <<instance, nrec, owner_rec, free_, hazards, fault, tls, aCur,
                   sCur, sSlot, plist, hCur, hsRec, hMove, retArg, helpArg>>

(***************************************************************************)
(* help_scan(pThis): claim every other record that is neither free_ nor  *)
(* owned, move its retired entries into pThis's buffer (scanning each     *)
(* time the buffer fills), mark it free_ and release it, then scan.       *)
(***************************************************************************)
HelpScanStart(t) ==
    /\ pc[t] = "hs"
    /\ hCur' = [hCur EXCEPT ![t] = nrec]
    /\ Goto(t, "hs_visit")
    /\ UNCHANGED <<shared, tls, aCur, sCur, sSlot, plist, hsRec, hMove, retArg, helpArg>>

\* The caller's own record, or one whose free_ hint is set, is passed over.
HelpScanSkip(t) ==
    LET r == hCur[t] IN
    /\ pc[t] = "hs_visit"
    /\ r > 0
    /\ r = tls[t] \/ free_[r]
    /\ hCur' = [hCur EXCEPT ![t] = r - 1]
    /\ UNCHANGED <<shared, pc, stack, tls, aCur, sCur, sSlot, plist, hsRec, hMove,
                   retArg, helpArg>>

\* free_ was read false: the claim is tried in a later step, by which time
\* the hint may no longer hold.
HelpScanTry(t) ==
    LET r == hCur[t] IN
    /\ pc[t] = "hs_visit"
    /\ r > 0
    /\ r # tls[t] /\ ~free_[r]
    /\ Goto(t, "hs_cas")
    /\ UNCHANGED <<shared, tls, aCur, sCur, sSlot, plist, hCur, hsRec, hMove, retArg, helpArg>>

\* Mutant: a failed claim retries the same record instead of moving on.
HelpScanOwned_retries(t) ==
    /\ pc[t] = "hs_cas"
    /\ owner_rec[hCur[t]] # nullptr
    /\ Goto(t, "hs_visit")
    /\ UNCHANGED <<shared, tls, aCur, sCur, sSlot, plist, hCur, hsRec, hMove, retArg, helpArg>>

\* curOwner is not nullptr (or the CAS fails): continue with the next record.
HelpScanOwned(t) ==
    /\ pc[t] = "hs_cas"
    /\ owner_rec[hCur[t]] # nullptr
    /\ hCur' = [hCur EXCEPT ![t] = @ - 1]
    /\ Goto(t, "hs_visit")
    /\ UNCHANGED <<shared, tls, aCur, sCur, sSlot, plist, hsRec, hMove, retArg, helpArg>>

\* Mutant: the curOwner == nullptr test is dropped, so the CAS from the
\* loaded curOwner also succeeds on a record its owner still holds.
OwnerCAS_noNullTest(t, r) == owner_rec' = [owner_rec EXCEPT ![r] = r]

\* Mutant: the CAS installs the claimant's record (pThis) as owner.
OwnerCAS_ownerIsCaller(t, r) ==
    /\ owner_rec[r] = nullptr
    /\ owner_rec' = [owner_rec EXCEPT ![r] = tls[t]]

\* help_scan's claim: curOwner is loaded and found nullptr, then
\* CAS(curOwner, hprec) installs the record as its own owner.
OwnerCAS(t, r) ==
    /\ owner_rec[r] = nullptr
    /\ owner_rec' = [owner_rec EXCEPT ![r] = r]

\* The owner_rec_ CAS succeeds; assert(!dest.full()) follows it.
HelpScanClaim(t) ==
    LET r == hCur[t] IN
    /\ pc[t] = "hs_cas"
    /\ OwnerCAS(t, r)
    /\ hsRec' = [hsRec EXCEPT ![t] = r]
    /\ hMove' = [hMove EXCEPT ![t] = 1]
    /\ fault' = IF HasRoom(t) THEN fault ELSE "help_scan_dest_full"
    /\ Goto(t, "hs_move")
    /\ UNCHANGED <<instance, nrec, free_, hazards, retired, node, disposed, tls,
                   aCur, sCur, sSlot, plist, hCur, retArg, helpArg>>

\* dest.push(*src_first): the entry is stored at the end of pThis's buffer;
\* push reports false once the buffer is full, and scan(pThis) follows.
\* A push into a buffer that is already full writes past its end.
HelpScanMove(t) ==
    LET src == retired[hsRec[t]]
        dest == retired[tls[t]]
    IN
    /\ pc[t] = "hs_move"
    /\ hMove[t] <= Len(src)
    /\ IF HasRoom(t)
         THEN /\ retired' = [retired EXCEPT ![tls[t]] = Append(dest, src[hMove[t]])]
              /\ hMove' = [hMove EXCEPT ![t] = @ + 1]
              /\ IF Len(dest) + 1 < max_retired_ptr_count
                   THEN UNCHANGED <<pc, stack>>
                   ELSE Call(t, "scan", "hs_move")
              /\ UNCHANGED fault
         ELSE /\ fault' = "retired_overflow"
              /\ UNCHANGED <<retired, hMove, pc, stack>>
    /\ UNCHANGED <<instance, nrec, owner_rec, free_, hazards, node, disposed, tls,
                   aCur, sCur, sSlot, plist, hCur, hsRec, retArg, helpArg>>

\* Mutant: src.interthread_clear() is missing.
ReleaseClaimed_noClear(r) ==
    /\ free_' = [free_ EXCEPT ![r] = TRUE]
    /\ owner_rec' = [owner_rec EXCEPT ![r] = nullptr]
    /\ UNCHANGED retired

\* Mutant: the owner_rec_ = nullptr store after the move is missing.
ReleaseClaimed_keepsOwner(r) ==
    /\ retired' = [retired EXCEPT ![r] = <<>>]
    /\ free_' = [free_ EXCEPT ![r] = TRUE]
    /\ UNCHANGED owner_rec

\* The claimed record, emptied: interthread_clear(), free_ = true,
\* owner_rec_ = nullptr.
ReleaseClaimed(r) ==
    /\ retired' = [retired EXCEPT ![r] = <<>>]
    /\ free_' = [free_ EXCEPT ![r] = TRUE]
    /\ owner_rec' = [owner_rec EXCEPT ![r] = nullptr]

\* The move is done: release the claimed record, then scan(pThis).
HelpScanRelease(t) ==
    LET r == hsRec[t] IN
    /\ pc[t] = "hs_move"
    /\ hMove[t] > Len(retired[r])
    /\ ReleaseClaimed(r)
    /\ hsRec' = [hsRec EXCEPT ![t] = 0]
    /\ hMove' = [hMove EXCEPT ![t] = 1]
    /\ hCur' = [hCur EXCEPT ![t] = r - 1]
    /\ Call(t, "scan", "hs_visit")
    /\ UNCHANGED <<instance, nrec, hazards, node, disposed, fault, tls, aCur,
                   sCur, sSlot, plist, retArg, helpArg>>

HelpScanDone(t) ==
    /\ pc[t] = "hs_visit"
    /\ hCur[t] = 0
    /\ Return(t)
    /\ UNCHANGED <<shared, tls, aCur, sCur, sSlot, plist, hCur, hsRec, hMove, retArg, helpArg>>

(***************************************************************************)
(* The specification.                                                     *)
(***************************************************************************)
\* A call a thread makes of its own accord.
ClientCall(t) ==
    \/ AttachStart(t)
    \/ \E i \in Slots, a \in Addrs : GuardSet(t, i, a)
    \/ \E i \in Slots : GuardClear(t, i)
    \/ \E a \in Addrs : Retire(t, a)
    \/ ScanCall(t)
    \/ Detach(t)

\* A step of a call already under way.
Step(t) ==
    \/ AllocReuse(t) \/ AllocNew(t)
    \/ RetireAfterScan(t) \/ RetireAfterHelp(t)
    \/ ReleaseAfterScan(t) \/ ReleaseOwner(t)
    \/ ClassicStart(t) \/ ClassicCollect(t) \/ ClassicFinish(t)
    \/ InplaceEmpty(t) \/ InplaceFallback(t) \/ InplaceStart(t)
    \/ InplaceMark(t) \/ InplaceFinish(t)
    \/ HelpScanStart(t) \/ HelpScanSkip(t) \/ HelpScanTry(t)
    \/ HelpScanOwned(t) \/ HelpScanClaim(t)
    \/ HelpScanMove(t) \/ HelpScanRelease(t) \/ HelpScanDone(t)

Next ==
    /\ fault = "none"
    /\ \/ construct
       \/ \E bDetachAll \in BOOLEAN : destruct(bDetachAll)
       \/ \E t \in Threads : ClientCall(t) \/ Step(t)

Spec == Init /\ [][Next]_vars

\* The operating system keeps running a thread that is inside a call; no
\* thread is obliged to make a new call.
FairSpec == Spec /\ \A t \in Threads : WF_vars(Step(t))

(***************************************************************************)
(* Properties.                                                            *)
(***************************************************************************)
TypeOK ==
    /\ instance \in BOOLEAN
    /\ nrec \in 0 .. MaxRecords
    /\ \A r \in RecIds : owner_rec[r] \in {nullptr, r}
    /\ free_ \in [RecIds -> BOOLEAN]
    /\ hazards \in [RecIds -> [Slots -> Addrs \cup {nullptr}]]
    /\ \A r \in RecIds : \A i \in DOMAIN retired[r] : EntryAddr(retired[r][i]) \in Addrs
    /\ node \in [Addrs -> {"live", "retired", "freed"}]
    /\ disposed \in [Addrs -> Nat]
    /\ pc \in [Threads -> STRING]
    /\ tls \in [Threads -> 0 .. MaxRecords]
    /\ hsRec \in [Threads -> 0 .. MaxRecords]

\* Every address some guard slot currently publishes.
Guarded == {hazards[r][i] : r \in RecIds, i \in Slots} \ {nullptr}

SR == INSTANCE SafeReclamation WITH guarded <- Guarded

\* The engine implements the SMR contract: a guard can only be gained on a
\* live node, and the scans (classic_scan, inplace_scan, and those run by
\* help_scan and free_thread_data) free a retired node only when no guard
\* slot anywhere publishes it at that moment.
RefinesSafeReclamation == SR!Spec

\* Each retired node's disposer runs at most once, whatever the scans,
\* the help_scan hand-over of abandoned entries and destruct() do.
DisposedAtMostOnce == \A a \in Addrs : disposed[a] <= 1

\* The entries of a record still to be accounted to it: while help_scan
\* moves a claimed record, the entries before hMove already sit in the
\* claimant's buffer.
PendingIdx(r) ==
    {i \in DOMAIN retired[r] : \A t \in Threads : hsRec[t] = r => i >= hMove[t]}

Copies(a) ==
    Cardinality(UNION {{<<r, i>> : i \in {j \in PendingIdx(r) : EntryAddr(retired[r][j]) = a}}
                       : r \in RecIds})
    + Cardinality({t \in Threads : retArg[t] = a})

\* A retired node is held by exactly one retired buffer (or is the pending
\* argument of a retire), and a node that is live or freed by none: the
\* help_scan hand-over and the compaction of the scans neither lose nor
\* duplicate an entry.
RetiredHeldOnce ==
    \A a \in Addrs : Copies(a) = IF node[a] = "retired" THEN 1 ELSE 0

\* The threads working on record r: the one attached to it (between a
\* successful alloc_thread_data and its owner_rec_ = nullptr store) and
\* the one whose help_scan has claimed it.
Holders(r) ==
    {t \in Threads : pc[t] \notin {"detached", "alloc"} /\ tls[t] = r}
    \cup {t \in Threads : hsRec[t] = r}

\* Spec 5: a record is used by at most one thread at a time, and only while
\* its owner_rec_ says it is owned.  The owner_rec_ CAS of
\* alloc_thread_data and of help_scan, each from nullptr, is what excludes
\* a second thread, however attaches, detaches and help_scans interleave.
ExclusiveOwnership ==
    \A r \in RecIds :
       /\ Cardinality(Holders(r)) <= 1
       /\ Holders(r) # {} => owner_rec[r] = r

\* The registry state of each record: absent until the list holds it,
\* then OWNED or FREE as owner_rec_ says, held by the thread working on it.
RegStatus ==
    [r \in RecIds |-> IF r > nrec THEN "absent"
                      ELSE IF owner_rec[r] = r THEN "OWNED" ELSE "FREE"]

RegHolder ==
    [r \in RecIds |-> IF Holders(r) = {} THEN "none" ELSE CHOOSE t \in Holders(r) : TRUE]

RR == INSTANCE RecordRegistry
        WITH Records <- RecIds, NoThread <- "none", status <- RegStatus, holder <- RegHolder

\* Spec 3 and 4.4: the registry behaves as the FREE/OWNED state machine.
\* Every owner_rec_ change is a claim by the thread that then works on
\* the record (alloc_thread_data, help_scan) or a release by the thread
\* that stops (free_thread_data, help_scan); a record is OWNED exactly
\* while some thread works on it, so none is left owned by nobody, and
\* the list only grows until destruct.
RefinesRecordRegistry == RR!Spec

\* The free_ hint that lets help_scan skip a record without claiming it is
\* only set on a record whose retired buffer is empty, through reuse by
\* alloc_thread_data and retires of its new owner.
FreeHintSound ==
    \A r \in RecIds : free_[r] => retired[r] = <<>>

\* No buffer overflows: help_scan never meets a full destination
\* (its assertion), never pushes past the end, and retire always finds room.
NoCapacityFault == fault = "none"

\* Every scan, help_scan, retire and release a thread has begun returns.
OperationsComplete ==
    \A t \in Threads : (pc[t] \notin Idle \cup {"alloc"}) ~> (pc[t] \in Idle)

====
