------------------------------ MODULE LockTable ------------------------------
(***************************************************************************)
(* The record lock table (lock_table.cc) together with the lock list of    *)
(* each transaction (trx_add, trx_commit in trx.cc).                       *)
(*                                                                         *)
(* lock_acquire and lock_release run from beginning to end under           *)
(* lock_table_latch, so each is one step; the only place where the latch   *)
(* is given up inside is pthread_cond_wait, which splits an acquisition    *)
(* that waits into the request, the signal and the return.  trx_commit     *)
(* gives up trx_table_latch around every lock_release, so a commit is a    *)
(* sequence of steps between which other threads run.                      *)
(*                                                                         *)
(* A record is a (table, page, key) triple: the hash entry of the page and *)
(* the key of head_map / tail_map in it.  One thread drives a transaction, *)
(* so a transaction whose thread sleeps makes no request.                  *)
(***************************************************************************)
EXTENDS Naturals, Sequences

CONSTANTS Trx,      \* transaction ids, as trx_begin hands them out
          Rec       \* records that can be locked

VARIABLES queue,    \* queue[r]: the list of lock objects of record r
          trxLocks, \* trxLocks[t]: the records of t's lock objects, oldest first
          released, \* released[t]: how many of them trx_commit has released
          pc        \* pc[t]: what the thread of t is doing

vars == <<queue, trxLocks, released, pc>>

(***************************************************************************)
(* lock_t.  "acquired" is is_acquired, which no code ever sets after the   *)
(* object is built: an object that waited and was woken keeps FALSE.       *)
(* "wait" is the state of its condition variable: "asleep" in              *)
(* pthread_cond_wait, "signalled" when it was signalled but the thread has *)
(* not got the latch back, "no" when nobody waits on it.                   *)
(***************************************************************************)
Mode == {"S", "X"}                       \* lock_mode 0 and 1

Lock == [trx : Trx, nth : Nat \ {0}, mode : Mode, acquired : BOOLEAN,
         wait : {"no", "asleep", "signalled"}]

Phases == {"unborn", "running", "waiting", "committing", "ended"}

TypeOK == /\ queue \in [Rec -> Seq(Lock)]
          /\ trxLocks \in [Trx -> Seq(Rec)]
          /\ released \in [Trx -> Nat]
          /\ pc \in [Trx -> Phases]

Init == /\ queue = [r \in Rec |-> << >>]
        /\ trxLocks = [t \in Trx |-> << >>]
        /\ released = [t \in Trx |-> 0]
        /\ pc = [t \in Trx |-> "unborn"]

-----------------------------------------------------------------------------
(* The scan lock_acquire makes of a record's list.                         *)

\* Locks of other transactions, waiting ones included (other_trx_lock).
Others(q, t) == {i \in DOMAIN q : q[i].trx # t}

\* Exclusive locks of other transactions (x_other_trx_lock).
XOthers(q, t) == {i \in Others(q, t) : q[i].mode = "X"}

\* t's own locks (same_trx_lock), and those that already serve mode m.
Own(q, t) == {i \in DOMAIN q : q[i].trx = t}
CoveringSameMode(q, t, m) == {i \in Own(q, t) : q[i].mode = m}  \* faulty
Covering(q, t, m) == {i \in Own(q, t) : m = "S" \/ q[i].mode = "X"}

\* Faulty: an exclusive request is tested against exclusive locks only.
GrantedUnderShared(q, t, m) ==
  q = << >> \/ (q[Len(q)].acquired /\ XOthers(q, t) = {})

\* Faulty: sleeping requests are not looked at, so readers pass a writer.
GrantedReadersFirst(q, t, m) ==
  \A i \in Others(q, t) : q[i].acquired => m = "S" /\ q[i].mode = "S"

\* Faulty: the modes are not compared.
GrantedAfterAcquired(q, t, m) == q = << >> \/ q[Len(q)].acquired

\* The value of is_acquired for a new lock object appended to q.
GrantedOnArrival(q, t, m) ==
  \/ q = << >>
  \/ /\ q[Len(q)].acquired
     /\ IF m = "S" THEN XOthers(q, t) = {} ELSE Others(q, t) = {}

\* Faulty: the head is taken off, whichever object is released.
UnlinkHead(q, i) == Tail(q)

\* The list without its i-th object.
Unlink(q, i) == [j \in 1 .. Len(q) - 1 |-> IF j < i THEN q[j] ELSE q[j + 1]]

\* pthread_cond_signal on an object nobody sleeps on has no effect.
Signal(l) == IF l.wait = "asleep" THEN [l EXCEPT !.wait = "signalled"] ELSE l

\* lock_release signals the new head, and when that one is shared, the
\* shared locks that follow it up to the first exclusive one.
SignalHead(q) ==
  [j \in 1 .. Len(q) |->
     IF j = 1 \/ \A k \in 1 .. j : q[k].mode = "S" THEN Signal(q[j]) ELSE q[j]]

\* Faulty: nobody is signalled; or only after an exclusive lock.
ReleaseSilently(q, i) == Unlink(q, i)
ReleaseSignalsAfterX(q, i) ==
  IF i = 1 /\ Len(q) > 1 /\ q[1].mode = "X" THEN SignalHead(Unlink(q, i)) ELSE Unlink(q, i)

\* The list after the i-th object is released: only the release of the head
\* signals, and only when the next object was not acquired on arrival.
AfterRelease(q, i) ==
  IF i = 1 /\ Len(q) > 1 /\ ~q[2].acquired
    THEN SignalHead(Unlink(q, i))
    ELSE Unlink(q, i)

-----------------------------------------------------------------------------
(* Actions.                                                                *)

\* trx_begin: a new entry with an empty lock list.
TrxBegin(t) ==
  /\ pc[t] = "unborn"
  /\ pc' = [pc EXCEPT ![t] = "running"]
  /\ UNCHANGED <<queue, trxLocks, released>>

\* lock_acquire finds a lock of t that already covers the request.
AcquireHeld(t, r, m) ==
  /\ pc[t] = "running"
  /\ Covering(queue[r], t, m) # {}
  /\ UNCHANGED vars

\* lock_acquire turns t's shared lock exclusive in place: t is alone in the list.
AcquireUpgrade(t, r, m) ==
  /\ pc[t] = "running"
  /\ Covering(queue[r], t, m) = {}
  /\ Own(queue[r], t) # {}
  /\ Others(queue[r], t) = {}
  /\ queue' = [queue EXCEPT ![r][Len(queue[r])].mode = "X"]
  /\ UNCHANGED <<trxLocks, released, pc>>

\* Faulty: the object is numbered before it is put on its transaction's list.
NumberedTooEarly(t, m, granted) ==
  [trx |-> t, nth |-> Len(trxLocks[t]), mode |-> m, acquired |-> granted,
   wait |-> IF granted THEN "no" ELSE "asleep"]

\* The lock object lock_acquire builds, the next one on t's list.
NewLock(t, m, granted) ==
  [trx |-> t, nth |-> Len(trxLocks[t]) + 1, mode |-> m, acquired |-> granted,
   wait |-> IF granted THEN "no" ELSE "asleep"]

\* lock_acquire appends a new object, trx_add puts it on t's list, and the
\* thread goes to sleep when the object is not acquired on arrival.
AcquireNew(t, r, m) ==
  LET granted == GrantedOnArrival(queue[r], t, m)
      new == NewLock(t, m, granted)
  IN /\ pc[t] = "running"
     /\ Covering(queue[r], t, m) = {}
     /\ Own(queue[r], t) = {} \/ Others(queue[r], t) # {}
     /\ queue' = [queue EXCEPT ![r] = Append(@, new)]
     /\ trxLocks' = [trxLocks EXCEPT ![t] = Append(@, r)]
     /\ pc' = [pc EXCEPT ![t] = IF granted THEN "running" ELSE "waiting"]
     /\ UNCHANGED released

LockAcquire(t, r, m) ==
  AcquireHeld(t, r, m) \/ AcquireUpgrade(t, r, m) \/ AcquireNew(t, r, m)

\* pthread_cond_wait returns after a signal.  is_acquired stays FALSE.
WakeUp(t, r, i) ==
  /\ pc[t] = "waiting"
  /\ queue[r][i].trx = t
  /\ queue[r][i].wait = "signalled"
  /\ queue' = [queue EXCEPT ![r][i].wait = "no"]
  /\ pc' = [pc EXCEPT ![t] = "running"]
  /\ UNCHANGED <<trxLocks, released>>

\* Faulty: a transaction may be committed while its thread waits.
CommitWhileWaiting(t) ==
  /\ pc[t] \in {"running", "waiting"}
  /\ pc' = [pc EXCEPT ![t] = IF trxLocks[t] = << >> THEN "ended" ELSE "committing"]
  /\ UNCHANGED <<queue, trxLocks, released>>

\* trx_commit up to the first lock_release; without locks it is over at once.
CommitBegin(t) ==
  /\ pc[t] = "running"
  /\ pc' = [pc EXCEPT ![t] = IF trxLocks[t] = << >> THEN "ended" ELSE "committing"]
  /\ UNCHANGED <<queue, trxLocks, released>>

\* lock_release of the next object on t's list, the i-th one of r's list.
LockRelease(t, r, i) ==
  /\ pc[t] = "committing"
  /\ released[t] < Len(trxLocks[t])
  /\ r = trxLocks[t][released[t] + 1]
  /\ queue[r][i].trx = t
  /\ queue[r][i].nth = released[t] + 1
  /\ queue' = [queue EXCEPT ![r] = AfterRelease(@, i)]
  /\ released' = [released EXCEPT ![t] = @ + 1]
  /\ UNCHANGED <<trxLocks, pc>>

\* Faulty: the walk stops at the last object instead of after it.
CommitEndsEarly(t) ==
  /\ pc[t] = "committing"
  /\ released[t] + 1 = Len(trxLocks[t])
  /\ pc' = [pc EXCEPT ![t] = "ended"]
  /\ trxLocks' = [trxLocks EXCEPT ![t] = << >>]
  /\ released' = [released EXCEPT ![t] = 0]
  /\ UNCHANGED queue

\* The end of trx_commit: the transaction's entry is erased.
CommitEnd(t) ==
  /\ pc[t] = "committing"
  /\ released[t] = Len(trxLocks[t])
  /\ pc' = [pc EXCEPT ![t] = "ended"]
  /\ trxLocks' = [trxLocks EXCEPT ![t] = << >>]
  /\ released' = [released EXCEPT ![t] = 0]
  /\ UNCHANGED queue

Next ==
  \E t \in Trx :
    \/ TrxBegin(t)
    \/ \E r \in Rec, m \in Mode : LockAcquire(t, r, m)
    \/ \E r \in Rec : \E i \in DOMAIN queue[r] : WakeUp(t, r, i)
    \/ CommitBegin(t)
    \/ \E r \in Rec : \E i \in DOMAIN queue[r] : LockRelease(t, r, i)
    \/ CommitEnd(t)

Spec == Init /\ [][Next]_vars

-----------------------------------------------------------------------------
(* Safety.                                                                 *)

\* A request is granted when its thread is no longer held back by the lock
\* table: it never waited, or it has been signalled.
Granted(l) == l.wait # "asleep"

\* Mutual exclusion per record (readme.md, "Lock Table"): two locks of one
\* record that are granted at the same time belong to different transactions
\* and are both shared, whatever requests, signals and releases came before.
MutualExclusion ==
  \A r \in Rec : \A i, j \in DOMAIN queue[r] :
    (i < j /\ Granted(queue[r][i]) /\ Granted(queue[r][j])) =>
      /\ queue[r][i].trx # queue[r][j].trx
      /\ queue[r][i].mode = "S" /\ queue[r][j].mode = "S"

\* No overtaking: the signals of lock_release never let a request in while an
\* older request on the same record still sleeps.
NoOvertaking ==
  \A r \in Rec : \A i, j \in DOMAIN queue[r] :
    i < j /\ Granted(queue[r][j]) => Granted(queue[r][i])

\* No lost wake-up at the head: the first lock of a record's list is granted,
\* so a list of sleepers that nobody will signal cannot be left behind.
HeadGranted ==
  \A r \in Rec : queue[r] # << >> => Granted(queue[r][1])

\* The two lists a lock object is on agree: the objects trx_commit has still to
\* release are exactly the objects in the record lists, each where its
\* transaction's list says, so the walk of trx_commit meets no freed object
\* and leaves none behind.
ListsAgree ==
  /\ \A r \in Rec : \A i \in DOMAIN queue[r] :
       LET l == queue[r][i]
       IN /\ l.nth \in released[l.trx] + 1 .. Len(trxLocks[l.trx])
          /\ trxLocks[l.trx][l.nth] = r
          /\ \A j \in DOMAIN queue[r] :
               queue[r][j].trx = l.trx /\ queue[r][j].nth = l.nth => i = j
  /\ \A t \in Trx : \A n \in released[t] + 1 .. Len(trxLocks[t]) :
       \E i \in DOMAIN queue[trxLocks[t][n]] :
         /\ queue[trxLocks[t][n]][i].trx = t
         /\ queue[trxLocks[t][n]][i].nth = n

\* Whoever sleeps on a record has no lock on it yet: the locks ahead of the
\* request belong to others, who will release them.  (Lost as soon as a
\* transaction asks for an exclusive lock where it holds a shared one.)
WaitsForOthers ==
  \A r \in Rec : \A j \in DOMAIN queue[r] :
    ~Granted(queue[r][j]) =>
      /\ j > 1
      /\ \A i \in 1 .. j - 1 : queue[r][i].trx # queue[r][j].trx

\* A transaction does not wait when it is the only one left: the lock it waited
\* for is released by then, and lock_release "wakes up the successor".
NeverWaitsAlone ==
  \A t \in Trx : pc[t] = "waiting" =>
    \E u \in Trx \ {t} : pc[u] \in {"running", "waiting", "committing"}

\* Strict two-phase locking: a granted lock is taken away or weakened by no
\* step of another transaction and by no step before its own commit.
LockOf(r, t) == {<<queue[r][i].nth, queue[r][i].mode>> :
                   i \in {j \in Own(queue[r], t) : Granted(queue[r][j])}}

HeldUntilCommit ==
  [][\A r \in Rec, t \in Trx :
       pc[t] # "committing" =>
         \A l \in LockOf(r, t) : \E k \in LockOf(r, t)' :
           k[1] = l[1] /\ (l[2] = "X" => k[2] = "X")]_vars

-----------------------------------------------------------------------------
(* The inductive invariant, one record list at a time.                     *)

\* is_acquired objects never went to sleep, granted objects are a prefix of
\* the list that excludes nobody in it, and a second object of the same
\* transaction is the exclusive one of an upgrade that has to wait.
QueueInv(q) ==
  /\ \A i \in 1 .. Len(q) : q[i].acquired => q[i].wait = "no"
  /\ \A i, j \in 1 .. Len(q) : i < j =>
       /\ Granted(q[j]) => Granted(q[i])
       /\ Granted(q[i]) /\ Granted(q[j]) =>
            /\ q[i].trx # q[j].trx
            /\ q[i].mode = "S" /\ q[j].mode = "S"
       /\ q[i].trx = q[j].trx => q[j].mode = "X"
  /\ Len(q) > 0 => Granted(q[1])

\* What makes MutualExclusion, NoOvertaking and HeadGranted inductive: a woken
\* object that keeps is_acquired FALSE is never taken for a sleeping one in a
\* way that lets two excluding locks in.
LockTableInv == TypeOK /\ \A r \in Rec : QueueInv(queue[r])

\* What makes ListsAgree inductive: a commit has not released more objects
\* than the transaction's list holds.
ListsInv == ListsAgree /\ \A t \in Trx : released[t] <= Len(trxLocks[t])

\* A thread waits on exactly one lock object, its transaction's, and nobody
\* waits on any other: what makes every signal reach the thread it is meant
\* for.  A transaction that has not begun or is over has no locks.
WaitInv ==
  /\ \A r \in Rec : \A i \in DOMAIN queue[r] : queue[r][i].wait # "no" =>
       /\ pc[queue[r][i].trx] = "waiting"
       /\ \A s \in Rec : \A j \in DOMAIN queue[s] :
            queue[s][j].trx = queue[r][i].trx /\ queue[s][j].wait # "no" => s = r /\ j = i
  /\ \A t \in Trx : pc[t] = "waiting" =>
       \E r \in Rec : \E i \in DOMAIN queue[r] :
         queue[r][i].trx = t /\ queue[r][i].wait # "no"
  /\ \A t \in Trx : pc[t] \in {"unborn", "ended"} => trxLocks[t] = << >>
=============================================================================
