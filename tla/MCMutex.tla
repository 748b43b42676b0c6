------------------------------ MODULE MCMutex -------------------------------
(* Up to two mutexes and a semaphore between threads of distinct priorities. *)
EXTENDS Mutex, MCIpc
CONSTANTS m1, m2, sem

\* one mutex with a ceiling, one without
FirstOnly == {<<m1, 1>>}
=============================================================================
