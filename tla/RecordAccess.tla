----------------------------- MODULE RecordAccess -----------------------------
(***************************************************************************)
(* db_find and db_update (newbpt.cc) over the lock table.  Both copy the   *)
(* leaf page under buffer_mutex, let the mutex go, and only then ask for   *)
(* the record lock; db_find answers from the copy, db_update writes the    *)
(* whole copy back with one record changed.  page_mutex is locked in a     *)
(* copy of the control block of their own, so it keeps nobody out.         *)
(*                                                                         *)
(* A record's value is the transaction that wrote it.  The tree and the    *)
(* pool around the leaf do not change meanwhile.                           *)
(***************************************************************************)
EXTENDS LockTable

CONSTANTS PageOf,    \* PageOf[r]: the leaf page of record r
          Initial    \* the value of a record nobody has updated

VARIABLES leaf,    \* leaf[r]: the value of record r in its page
          op,      \* op[t]: the call t is in, as a set of at most one
          known    \* known[t][r]: what t has read or written, as such a set

recordVars == <<leaf, op, known>>
allVars == <<vars, recordVars>>

ASSUME RecordAccessAssumption == Initial \notin Trx

Values == Trx \union {Initial}

OnPage(r) == {s \in Rec : PageOf[s] = PageOf[r]}

\* mode S stands for db_find and X for db_update; locked is set when the call
\* has entered lock_acquire.
Call(r, m, locked) == [rec |-> r, mode |-> m, locked |-> locked,
                       copy |-> [s \in OnPage(r) |-> leaf[s]]]

Calls == UNION {[rec : {r}, mode : Mode, locked : BOOLEAN, copy : [OnPage(r) -> Values]] :
                r \in Rec}

AccessTypeOK ==
  /\ TypeOK
  /\ leaf \in [Rec -> Values]
  /\ known \in [Trx -> [Rec -> SUBSET Values]]
  /\ op \in [Trx -> SUBSET Calls]
  /\ \A t \in Trx : \A c, d \in op[t] : c = d

AccessInit == /\ Init
              /\ leaf = [r \in Rec |-> Initial]
              /\ op = [t \in Trx |-> {}]
              /\ known = [t \in Trx |-> [r \in Rec |-> {}]]

-----------------------------------------------------------------------------
\* The part under buffer_mutex: the leaf is found, pinned and copied.
CopyLeaf(t, r, m) ==
  /\ pc[t] = "running" /\ op[t] = {}
  /\ op' = [op EXCEPT ![t] = {Call(r, m, FALSE)}]
  /\ UNCHANGED <<vars, leaf, known>>

\* Faulty: db_update asks for a shared lock.
AcquireShared(t) ==
  \E c \in op[t] :
    /\ ~c.locked
    /\ LockAcquire(t, c.rec, "S")
    /\ op' = [op EXCEPT ![t] = {[c EXCEPT !.locked = TRUE]}]
    /\ UNCHANGED <<leaf, known>>

\* The record lock, which may make the thread wait.
Acquire(t) ==
  \E c \in op[t] :
    /\ ~c.locked
    /\ LockAcquire(t, c.rec, c.mode)
    /\ op' = [op EXCEPT ![t] = {[c EXCEPT !.locked = TRUE]}]
    /\ UNCHANGED <<leaf, known>>

\* db_find answers from its copy.
Answer(t) ==
  \E c \in op[t] :
    /\ pc[t] = "running" /\ c.locked /\ c.mode = "S"
    /\ known' = [known EXCEPT ![t][c.rec] = {c.copy[c.rec]}]
    /\ op' = [op EXCEPT ![t] = {}]
    /\ UNCHANGED <<vars, leaf>>

\* db_update writes its copy back: one record new, the others as they were.
WriteBack(t) ==
  \E c \in op[t] :
    /\ pc[t] = "running" /\ c.locked /\ c.mode = "X"
    /\ leaf' = [r \in Rec |-> IF r = c.rec THEN t
                              ELSE IF r \in OnPage(c.rec) THEN c.copy[r] ELSE leaf[r]]
    /\ known' = [known EXCEPT ![t][c.rec] = {t}]
    /\ op' = [op EXCEPT ![t] = {}]
    /\ UNCHANGED vars

\* A client commits between two calls.
Commit(t) == op[t] = {} /\ CommitBegin(t) /\ UNCHANGED recordVars

\* The rest of trx_commit.
Commits(t) ==
  \/ \E r \in Rec : \E i \in DOMAIN queue[r] : LockRelease(t, r, i) /\ UNCHANGED recordVars
  \/ CommitEnd(t) /\ UNCHANGED recordVars

AccessNext ==
  \E t \in Trx :
    \/ TrxBegin(t) /\ UNCHANGED recordVars
    \/ \E r \in Rec, m \in Mode : CopyLeaf(t, r, m)
    \/ Acquire(t)
    \/ \E r \in Rec : \E i \in DOMAIN queue[r] : WakeUp(t, r, i) /\ UNCHANGED recordVars
    \/ Answer(t)
    \/ WriteBack(t)
    \/ Commit(t)
    \/ Commits(t)

AccessSpec == AccessInit /\ [][AccessNext]_allVars

-----------------------------------------------------------------------------
\* Until it commits, a record a transaction has updated keeps its value: no
\* other transaction's update, of this or of another record, takes it back.
UpdatesStay ==
  \A t \in Trx, r \in Rec :
    pc[t] \in {"running", "waiting"} /\ known[t][r] = {t} => leaf[r] = t

\* What db_find answers was written by a transaction that has begun to commit.
NoDirtyRead ==
  [][\A t, u \in Trx, r \in Rec :
       t # u /\ u \in known'[t][r] /\ u \notin known[t][r] =>
         pc[u] \in {"committing", "ended"}]_allVars

-----------------------------------------------------------------------------
(* The inductive invariant.                                                *)

Committed(t) == pc[t] \in {"committing", "ended"}

\* t's exclusive lock on r is granted.
HoldsX(t, r) ==
  \E i \in Own(queue[r], t) : Granted(queue[r][i]) /\ queue[r][i].mode = "X"

\* A value of r that its writer may still change is locked by the writer.
Settled(v, r) == v \in Trx => Committed(v) \/ HoldsX(v, r)

Alone(r) == OnPage(r) = {r}

\* Every value, in the page or in a copy taken before the lock was asked for, is
\* a committing transaction's or locked by its writer, and a call that has left
\* lock_acquire has an object that serves its mode.  Where a page holds one
\* record, a writer's own value is the page's, in its copies and in what it knows.
CallInv(t, c) ==
  /\ ~Committed(t)
  /\ c.locked => Covering(queue[c.rec], t, c.mode) # {}
  /\ \A s \in OnPage(c.rec) : Settled(c.copy[s], s)
  /\ Alone(c.rec) /\ c.copy[c.rec] = t => leaf[c.rec] = t

KnownInv(t, r) == Alone(r) /\ ~Committed(t) /\ known[t][r] = {t} => leaf[r] = t

AccessInv == /\ \A r \in Rec : Settled(leaf[r], r)
             /\ \A t \in Trx : \A c \in op[t] : CallInv(t, c)
             /\ \A t \in Trx, r \in Rec : KnownInv(t, r)
=============================================================================
