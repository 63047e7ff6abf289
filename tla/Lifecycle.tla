----------------------------- MODULE Lifecycle ------------------------------
(***************************************************************************)
(* The life cycle of the basic_smr singleton and of the memory it takes   *)
(* from the pluggable allocator (hp.cpp): set_memory_allocator,           *)
(* construct, destruct, the records alloc_thread_data creates and         *)
(* ~basic_smr destroys, and the guard vector classic_scan allocates for   *)
(* each scan.  Scans also issue the fence of the memory-barrier strategy  *)
(* in use, which composes this module with MemBarrier.                    *)
(*                                                                         *)
(* Memory is a sequence of blocks, each recording the allocator that      *)
(* returned it and the allocator whose free function released it.  The   *)
(* record list of an instance is its head and the next_ links, pushed by  *)
(* the CAS loop of alloc_thread_data and walked by ~basic_smr; how        *)
(* records are claimed and scanned is HazardPointers' part.               *)
(***************************************************************************)
EXTENDS Integers, Sequences, FiniteSets, TLC, MemBarrier

CONSTANTS
    Threads,        \* client threads
    Initializers,   \* the threads that call construct()
    Allocators,     \* allocation function pairs (model values)
    default_alloc,  \* default_alloc_memory / default_free_memory
    NDEBUG,         \* assert() is compiled out
    ScanType,       \* "classic" | "inplace"
    MemBarsUsed,    \* the strategies the program instantiates
    MaxBlocks       \* bound: blocks the model may allocate

ASSUME /\ Initializers \subseteq Threads
       /\ default_alloc \in Allocators
       /\ NDEBUG \in BOOLEAN
       /\ ScanType \in {"classic", "inplace"}
       /\ MemBarsUsed \subseteq MemBars
       /\ MaxBlocks \in Nat

nullptr == 0
NoAlloc == "none"

VARIABLES
    instance_,      \* basic_smr::instance_ (a block, or nullptr)
    s_alloc,        \* the pair s_alloc_memory / s_free_memory
    heap,           \* every block: [kind, by, freedBy]
    thread_list,    \* thread_list_ of each basic_smr block: its head record
    next_,          \* client_record::next_ of each record block
    smr,            \* per thread: the basic_smr its alloc_thread_data runs on
    owned,          \* record blocks whose owner_rec_ is set
    pc, tls, plist, \* per thread: phase, attached record, scan vector
    probed,         \* strategies whose availability has been probed
    afterScan,      \* per thread: where a scan returns to
    fault           \* "none", or the assertion that stopped the program

lcVars == <<instance_, s_alloc, heap, thread_list, next_, smr, owned, pc, tls, plist, probed, afterScan, fault>>
vars == <<lcVars, mbVars>>

Blocks == 1 .. Len(heap)
Live(b) == heap[b].freedBy = NoAlloc

\* s_alloc_memory(size): a fresh block from the current allocator.
Alloc(kind) == heap' = Append(heap, [kind |-> kind, by |-> s_alloc, freedBy |-> NoAlloc])

\* s_free_memory(p) on each block of S: released by the current allocator.
Free(S) == heap' = [b \in Blocks |-> IF b \in S THEN [heap[b] EXCEPT !.freedBy = s_alloc]
                                                ELSE heap[b]]

NewBlock == Len(heap) + 1
CanAlloc == Len(heap) < MaxBlocks

Init ==
    /\ MBInit
    /\ instance_ = nullptr
    /\ s_alloc = default_alloc
    /\ heap = <<>>
    /\ thread_list = [b \in {} |-> nullptr]
    /\ next_ = [b \in {} |-> nullptr]
    /\ smr = [t \in Threads |-> nullptr]
    /\ owned = {}
    /\ pc = [t \in Threads |-> "idle"]
    /\ tls = [t \in Threads |-> nullptr]
    /\ plist = [t \in Threads |-> nullptr]
    /\ probed = {}
    /\ afterScan = [t \in Threads |-> "attached"]
    /\ fault = "none"

\* Process start-up probes each strategy the program uses once, caching
\* the answer before the strategy's first use.
Probe(m) ==
    /\ m \in MemBarsUsed \ probed
    /\ probed' = probed \cup {m}
    /\ check_membarrier_available(m)
    /\ UNCHANGED <<instance_, s_alloc, heap, thread_list, next_, smr, owned, pc, tls, plist,
                   afterScan, fault>>

\* Mutant: the assert(instance_ == nullptr) is missing.
set_memory_allocator_noAssert(t, a) ==
    /\ pc[t] = "idle"
    /\ s_alloc' = a
    /\ UNCHANGED <<instance_, heap, thread_list, next_, smr, owned, pc, tls, plist, probed,
                   afterScan, fault, mbVars>>

\* set_memory_allocator: assert(instance_ == nullptr), then both function
\* pointers are replaced.
set_memory_allocator(t, a) ==
    /\ pc[t] = "idle"
    /\ IF instance_ # nullptr /\ ~NDEBUG
         THEN /\ fault' = "set_memory_allocator"
              /\ UNCHANGED s_alloc
         ELSE /\ s_alloc' = a
              /\ UNCHANGED fault
    /\ UNCHANGED <<instance_, heap, thread_list, next_, smr, owned, pc, tls, plist, probed,
                   afterScan, mbVars>>

\* construct(): the plain test of instance_ ...
construct(t) ==
    /\ pc[t] = "idle"
    /\ t \in Initializers
    /\ instance_ = nullptr
    /\ pc' = [pc EXCEPT ![t] = "construct"]
    /\ UNCHANGED <<instance_, s_alloc, heap, thread_list, next_, smr, owned, tls, plist, probed,
                   afterScan, fault, mbVars>>

\* ... and, later, instance_ = new (s_alloc_memory(...)) basic_smr with an
\* empty thread_list_.
ConstructNew(t) ==
    /\ pc[t] = "construct"
    /\ CanAlloc
    /\ Alloc("basic_smr")
    /\ instance_' = NewBlock
    /\ thread_list' = thread_list @@ (NewBlock :> nullptr)
    /\ pc' = [pc EXCEPT ![t] = "idle"]
    /\ UNCHANGED <<s_alloc, next_, smr, owned, tls, plist, probed, afterScan, fault, mbVars>>

\* The records reached from r along next_ (for hprec = r; hprec; hprec =
\* hprec->next_).  The list is acyclic: a record is pushed in front of a
\* head that was already published.
RECURSIVE ListFrom(_)
ListFrom(r) == IF r = nullptr THEN {} ELSE {r} \cup ListFrom(next_[r])

\* Mutant: the destructor's walk starts after the head record.
DestroyRecords_skipsHead(b) ==
    /\ Free(IF thread_list[b] = nullptr THEN {b} ELSE ListFrom(next_[thread_list[b]]) \cup {b})
    /\ thread_list' = [thread_list EXCEPT ![b] = nullptr]

\* ~basic_smr: load the head, store nullptr into thread_list_, and destroy
\* every record reached along next_ (destroy_thread_data, s_free_memory);
\* destruct() then frees the instance itself.
DestroyRecords(b) ==
    /\ Free(ListFrom(thread_list[b]) \cup {b})
    /\ thread_list' = [thread_list EXCEPT ![b] = nullptr]

\* Mutant: detach_all_thread() is not called; owned records stay owned.
detach_all_thread_skipped(b) == UNCHANGED owned

\* detach_all_thread(): free_thread_data on every owned record of the list.
detach_all_thread(b) == owned' = owned \ ListFrom(thread_list[b])

\* destruct(bDetachAll), never concurrent with another call: with
\* bDetachAll, detach_all_thread() releases every owned record first;
\* otherwise no record may still be owned.  No thread's TLS is reset: a
\* thread whose record was released here makes no further call on it.
destruct(bDetachAll) ==
    LET list == ListFrom(thread_list[instance_]) IN
    /\ instance_ # nullptr
    /\ \A t \in Threads : pc[t] \in {"idle", "attached"}
    /\ bDetachAll \/ owned \cap list = {}
    /\ IF bDetachAll THEN detach_all_thread(instance_) ELSE UNCHANGED owned
    /\ DestroyRecords(instance_)
    /\ instance_' = nullptr
    /\ pc' = [t \in Threads |-> IF tls[t] \in list THEN "idle" ELSE pc[t]]
    /\ UNCHANGED <<s_alloc, next_, smr, tls, plist, probed, afterScan, fault, mbVars>>

\* alloc_thread_data, called on the instance: claim a record of the list
\* that no thread owns, or create one (create_thread_data: s_alloc_memory),
\* set its owner_rec_, load pOldHead and store it into hprec->next_.
alloc_thread_data(t) ==
    LET free == ListFrom(thread_list[instance_]) \ owned IN
    /\ pc[t] = "idle"
    /\ instance_ # nullptr
    /\ \/ \E r \in free :
            /\ owned' = owned \cup {r}
            /\ tls' = [tls EXCEPT ![t] = r]
            /\ pc' = [pc EXCEPT ![t] = "attached"]
            /\ UNCHANGED <<heap, next_, smr>>
       \/ /\ free = {}
          /\ CanAlloc
          /\ Alloc("client_record")
          /\ next_' = next_ @@ (NewBlock :> thread_list[instance_])
          /\ smr' = [smr EXCEPT ![t] = instance_]
          /\ owned' = owned \cup {NewBlock}
          /\ tls' = [tls EXCEPT ![t] = NewBlock]
          /\ pc' = [pc EXCEPT ![t] = "prepend"]
    /\ UNCHANGED <<instance_, s_alloc, thread_list, plist, probed, afterScan, fault, mbVars>>

\* Mutant: the new head is stored without comparing it with pOldHead.
PrependCAS_store(t, b, r) ==
    /\ thread_list' = [thread_list EXCEPT ![b] = r]
    /\ smr' = [smr EXCEPT ![t] = nullptr]
    /\ pc' = [pc EXCEPT ![t] = "attached"]
    /\ UNCHANGED next_

\* Mutant: a failed CAS does not reload pOldHead, so hprec->next_ keeps
\* the old head and the loop compares against it forever.
PrependCAS_noReload(t, b, r) ==
    IF thread_list[b] = next_[r]
      THEN /\ thread_list' = [thread_list EXCEPT ![b] = r]
           /\ smr' = [smr EXCEPT ![t] = nullptr]
           /\ pc' = [pc EXCEPT ![t] = "attached"]
           /\ UNCHANGED next_
      ELSE UNCHANGED <<thread_list, smr, pc, next_>>

\* thread_list.compare_exchange_weak(pOldHead, hprec): the record is
\* published when the head is still pOldHead (= hprec->next_); otherwise
\* pOldHead takes the current head and the loop body stores it into
\* hprec->next_ again.
PrependCAS(t, b, r) ==
    IF thread_list[b] = next_[r]
      THEN /\ thread_list' = [thread_list EXCEPT ![b] = r]
           /\ smr' = [smr EXCEPT ![t] = nullptr]
           /\ pc' = [pc EXCEPT ![t] = "attached"]
           /\ UNCHANGED next_
      ELSE /\ next_' = [next_ EXCEPT ![r] = thread_list[b]]
           /\ UNCHANGED <<thread_list, smr, pc>>

\* One iteration of the do/while loop that pushes hprec onto the
\* thread_list_ of the instance the call started on.
Prepend(t) ==
    /\ pc[t] = "prepend"
    /\ PrependCAS(t, smr[t], tls[t])
    /\ UNCHANGED <<instance_, s_alloc, heap, owned, tls, plist, probed, afterScan, fault, mbVars>>

\* scan(): classic_scan reserves its guard vector from s_alloc_memory; an
\* in-place scan does so only when it falls back to classic_scan.
ScanStart(t, ret) ==
    /\ pc[t] = "attached"
    /\ afterScan' = [afterScan EXCEPT ![t] = ret]
    /\ \/ /\ CanAlloc
          /\ Alloc("plist")
          /\ plist' = [plist EXCEPT ![t] = NewBlock]
       \/ /\ ScanType = "inplace"
          /\ UNCHANGED <<heap, plist>>
    /\ pc' = [pc EXCEPT ![t] = "scan_fence"]
    /\ UNCHANGED <<instance_, s_alloc, thread_list, next_, smr, owned, tls, probed, fault, mbVars>>

\* The scan side of the barrier strategy: the heavyweight membarrier when
\* its probe found it available, an ordinary fence otherwise.
ScanFence(t) ==
    /\ pc[t] = "scan_fence"
    /\ \E m \in MemBarsUsed \cap probed :
          IF membarrier_available_[m] THEN call_membarrier(m) ELSE UNCHANGED mbVars
    /\ pc' = [pc EXCEPT ![t] = "scan_end"]
    /\ UNCHANGED <<instance_, s_alloc, heap, thread_list, next_, smr, owned, tls, plist, probed,
                   afterScan, fault>>

\* The guard vector goes back through s_free_memory; free_thread_data
\* then stores owner_rec_ = nullptr.
ScanEnd(t) ==
    /\ pc[t] = "scan_end"
    /\ IF plist[t] # nullptr THEN Free({plist[t]}) ELSE UNCHANGED heap
    /\ plist' = [plist EXCEPT ![t] = nullptr]
    /\ IF afterScan[t] = "release"
         THEN /\ owned' = owned \ {tls[t]}
              /\ tls' = [tls EXCEPT ![t] = nullptr]
              /\ pc' = [pc EXCEPT ![t] = "idle"]
         ELSE /\ pc' = [pc EXCEPT ![t] = "attached"]
              /\ UNCHANGED <<owned, tls>>
    /\ UNCHANGED <<instance_, s_alloc, thread_list, next_, smr, probed, afterScan, fault, mbVars>>

Next ==
    /\ fault = "none"
    /\ \/ \E m \in MemBars : Probe(m)
       \/ \E b \in BOOLEAN : destruct(b)
       \/ \E t \in Threads :
            \/ \E a \in Allocators : set_memory_allocator(t, a)
            \/ construct(t) \/ ConstructNew(t)
            \/ alloc_thread_data(t) \/ Prepend(t)
            \/ \E ret \in {"attached", "release"} : ScanStart(t, ret)
            \/ ScanFence(t) \/ ScanEnd(t)

Spec == Init /\ [][Next]_vars

\* A thread inside the push loop keeps being scheduled until the program
\* stops: the loop never blocks, so weak fairness of each of its
\* iterations is what the OS scheduler gives.  No other step is assumed.
FairSpec == Spec /\ \A t \in Threads : WF_vars(fault = "none" /\ Prepend(t))

(***************************************************************************)
(* Properties.                                                            *)
(***************************************************************************)
TypeOK ==
    /\ MBTypeOK
    /\ instance_ \in {nullptr} \cup Blocks
    /\ s_alloc \in Allocators
    /\ \A b \in Blocks : heap[b].by \in Allocators
                        /\ heap[b].freedBy \in Allocators \cup {NoAlloc}
    /\ \A r \in owned : r \in Blocks /\ heap[r].kind = "client_record" /\ Live(r)
    /\ pc \in [Threads -> {"idle", "construct", "prepend", "attached", "scan_fence",
                                "scan_end"}]
    /\ probed \subseteq MemBarsUsed

\* Every block the SMR frees (the instance, each record, each scan's guard
\* vector) goes back to the allocator that returned it, although
\* set_memory_allocator may rebind the functions between an allocation
\* (construct, alloc_thread_data, classic_scan) and the matching free
\* (destruct, ~basic_smr, the end of the scan).
FreedByOwnAllocator ==
    \A b \in Blocks : heap[b].freedBy \in {NoAlloc, heap[b].by}

\* Once the singleton is destroyed and no thread is inside a call, every
\* block the SMR allocated has been freed: construct() leaves no instance
\* behind, and ~basic_smr reaches every record of the list.
NoLeak ==
    (instance_ = nullptr /\ \A t \in Threads : pc[t] = "idle")
      => \A b \in Blocks : ~Live(b)

\* Every live record that alloc_thread_data has returned stays reachable
\* from the head of a live basic_smr: two threads pushing records at once
\* through the thread_list_ CAS loop never unlink each other's record, so
\* the reuse walk and ~basic_smr's walk both see it.
RecordsReachable ==
    \A r \in Blocks :
        (heap[r].kind = "client_record" /\ Live(r) /\ \A t \in Threads : smr[t] = nullptr \/ tls[t] # r)
          => \E b \in Blocks : heap[b].kind = "basic_smr" /\ Live(b) /\ r \in ListFrom(thread_list[b])

\* The lock-free push of alloc_thread_data terminates: a thread that has
\* created a record and entered the compare_exchange_weak loop eventually
\* publishes it and returns, however the other threads' pushes interleave
\* with its retries, unless an assertion stops the program first.
PrependCompletes ==
    \A t \in Threads : pc[t] = "prepend" ~> (pc[t] = "attached" \/ fault # "none")

====
