---------------------------- MODULE MCSemaphore -----------------------------
(* One semaphore, its threads and priorities for TLC. *)
EXTENDS Semaphore, MCIpc
CONSTANT sem
=============================================================================
