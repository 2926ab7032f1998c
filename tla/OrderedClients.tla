--------------------------- MODULE OrderedClients ---------------------------
(***************************************************************************)
(* The lock table under clients that cannot deadlock, since trx.cc detects *)
(* no deadlock (is_deadlock is a stub): every transaction locks records in *)
(* increasing key order and never asks for an exclusive lock where it      *)
(* holds a shared one.  Keys are integers, as in lock_acquire.             *)
(***************************************************************************)
EXTENDS LockTable

ASSUME RecAssumption == Rec \subseteq Nat

Disciplined(t, r, m) ==
  \/ Covering(queue[r], t, m) # {}
  \/ \A n \in 1 .. Len(trxLocks[t]) : trxLocks[t][n] < r

OrderedAcquire(t, r, m) == Disciplined(t, r, m) /\ LockAcquire(t, r, m)

Releases(t) == \E r \in Rec : \E i \in DOMAIN queue[r] : LockRelease(t, r, i)
WakesUp(t) == \E r \in Rec : \E i \in DOMAIN queue[r] : WakeUp(t, r, i)

OrderedNext ==
  \E t \in Trx :
    \/ TrxBegin(t)
    \/ \E r \in Rec, m \in Mode : OrderedAcquire(t, r, m)
    \/ WakesUp(t)
    \/ CommitBegin(t)
    \/ Releases(t)
    \/ CommitEnd(t)

\* A thread that can run does: one that is signalled gets the latch back, a
\* commit goes on, and a client that is not blocked commits in the end.
Fairness ==
  \A t \in Trx : /\ WF_vars(WakesUp(t))
                 /\ WF_vars(CommitBegin(t))
                 /\ WF_vars(Releases(t))
                 /\ WF_vars(CommitEnd(t))

OrderedSpec == Init /\ [][OrderedNext]_vars /\ Fairness

-----------------------------------------------------------------------------
\* Every transaction that has to wait gets its lock: each release passes the
\* signal on to somebody who will release in turn.
EveryWaitEnds == \A t \in Trx : pc[t] = "waiting" ~> pc[t] = "running"
=============================================================================
