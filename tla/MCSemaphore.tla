----------------------------- MODULE MCSemaphore -----------------------------
(* TLC instances of Semaphore: three threads are enough for a poster, a     *)
(* sleeper and a thread that barges in between them.                        *)
EXTENDS Semaphore, TLC

Symmetry == Permutations(Threads)
=============================================================================
