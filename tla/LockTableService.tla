-------------------------- MODULE LockTableService --------------------------
(* The lock table implements LockService: the refinement mapping. *)
EXTENDS LockTable

Phase(p) == CASE p = "unborn" -> "idle"
              [] p \in {"running", "waiting"} -> "growing"
              [] p = "committing" -> "shrinking"
              [] p = "ended" -> "over"

phaseBar == [t \in Trx |-> Phase(pc[t])]

\* The strongest mode of t's granted locks in a record's list.
HeldMode(q, t) ==
  LET modes == {q[i].mode : i \in {j \in Own(q, t) : Granted(q[j])}}
  IN IF "X" \in modes THEN "X" ELSE IF modes # {} THEN "S" ELSE "none"

heldBar == [r \in Rec |-> [t \in Trx |-> HeldMode(queue[r], t)]]

\* A request waits while its object sleeps; the signal is what grants it.
Awaits(q, t, m) == \E i \in Own(q, t) : ~Granted(q[i]) /\ q[i].mode = m

wantBar == [t \in Trx |-> {w \in Rec \X Mode : Awaits(queue[w[1]], t, w[2])}]

Service == INSTANCE LockService WITH phase <- phaseBar, held <- heldBar, want <- wantBar

\* Every run of lock_acquire, lock_release and trx_commit is a run of the lock
\* service: strict two-phase locking, no grant against an excluding lock, no
\* wait on a record that nobody else holds or awaits.
ImplementsLockService == Service!Spec
=============================================================================
