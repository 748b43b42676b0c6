------------------------- MODULE AbstractSemaphore -------------------------
(***************************************************************************)
(* What a counting semaphore promises its callers: a permit that is put    *)
(* back goes to a thread that waits, and is stored only when none does;    *)
(* every wait ends with one permit or with a failure, never with both.     *)
(***************************************************************************)
EXTENDS Naturals

CONSTANTS Caller, MaxPermits
VARIABLES avail,      \* the permits that can be taken at once
          st          \* where each caller is
vars == <<avail, st>>

Init == /\ avail \in 0..MaxPermits
        /\ st = [t \in Caller |-> "out"]

NoneWaits == \A t \in Caller : st[t] # "waiting"

TakeNow(t) == /\ st[t] = "out" /\ avail > 0
              /\ avail' = avail - 1
              /\ UNCHANGED st

Wait(t) == /\ st[t] = "out" /\ avail = 0
           /\ st' = [st EXCEPT ![t] = "waiting"]
           /\ UNCHANGED avail

\* a permit is put back: one that waits gets it, or it is stored
Grant(t) == /\ st[t] = "waiting"
            /\ st' = [st EXCEPT ![t] = "granted"]
            /\ UNCHANGED avail

Put == /\ NoneWaits
       /\ avail' = avail + 1 /\ avail' <= MaxPermits
       /\ UNCHANGED st

\* the wait times out, or the semaphore goes away
Fail(t) == /\ st[t] = "waiting"
           /\ st' = [st EXCEPT ![t] = "failed"]
           /\ UNCHANGED avail

Reset == /\ avail' \in 0..MaxPermits
         /\ st' = [t \in Caller |-> IF st[t] = "waiting" THEN "failed" ELSE st[t]]

Return(t) == /\ st[t] \in {"granted", "failed"}
             /\ st' = [st EXCEPT ![t] = "out"]
             /\ UNCHANGED avail

Next == \/ Put \/ Reset
        \/ \E t \in Caller : TakeNow(t) \/ Wait(t) \/ Grant(t) \/ Fail(t) \/ Return(t)

Spec == Init /\ [][Next]_vars
=============================================================================
