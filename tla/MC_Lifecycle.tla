---------------------------- MODULE MC_Lifecycle ----------------------------
(* Model values for the threads and allocators of Lifecycle. *)
EXTENDS Lifecycle

CONSTANTS t1, t2, custom_alloc

MC_Threads == {t1, t2}
MC_Allocators == {default_alloc, custom_alloc}

====
