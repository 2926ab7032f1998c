--------------------------- MODULE LockTableProofs ---------------------------
(***************************************************************************)
(* Proofs about the lock table, for any set of transactions and records.   *)
(* The lemmas are about one list of lock objects and what each operation   *)
(* does to it; the theorems put them together over all records.  Then: who *)
(* waits, for how long a lock is held, and that the lock table implements  *)
(* the lock service.                                                       *)
(***************************************************************************)
EXTENDS LockTableService, SequenceTheorems, TLAPS

\* A list is a function on 1 .. Len with values in Lock, and conversely.
LEMMA ListIsFunction ==
  ASSUME NEW q \in Seq(Lock)
  PROVE  /\ Len(q) \in Nat /\ DOMAIN q = 1 .. Len(q)
         /\ \A i \in 1 .. Len(q) : q[i] \in Lock
  OBVIOUS

LEMMA FunctionIsList ==
  ASSUME NEW n \in Nat, NEW q, q = [i \in 1 .. n |-> q[i]],
         \A i \in 1 .. n : q[i] \in Lock
  PROVE  q \in Seq(Lock) /\ Len(q) = n
<1>1. q \in [1 .. n -> Lock]
  OBVIOUS
<1> QED BY <1>1

\* Unlinking the i-th object keeps the order of the others.
LEMMA UnlinkList ==
  ASSUME NEW q \in Seq(Lock), NEW i \in 1 .. Len(q)
  PROVE  /\ Unlink(q, i) \in Seq(Lock)
         /\ Len(Unlink(q, i)) = Len(q) - 1
         /\ \A j \in 1 .. Len(q) - 1 :
              Unlink(q, i)[j] = IF j < i THEN q[j] ELSE q[j + 1]
<1> DEFINE n == Len(q) - 1
           u == Unlink(q, i)
<1>1. n \in Nat
  BY ListIsFunction
<1>2. \A j \in 1 .. n : u[j] = (IF j < i THEN q[j] ELSE q[j + 1]) /\ u[j] \in Lock
  BY ListIsFunction, <1>1 DEF Unlink
<1>3. u = [j \in 1 .. n |-> u[j]]
  BY DEF Unlink
<1>4. u \in Seq(Lock) /\ Len(u) = n
  BY <1>1, <1>2, <1>3, FunctionIsList
<1> QED BY <1>2, <1>4

\* A signal changes nothing but the state of the condition variable, and never
\* to "asleep".
LEMMA SignalLock ==
  ASSUME NEW l \in Lock
  PROVE  /\ Signal(l) \in Lock
         /\ Signal(l).trx = l.trx /\ Signal(l).mode = l.mode
         /\ Signal(l).nth = l.nth /\ Signal(l).acquired = l.acquired
         /\ Granted(Signal(l))
         /\ Signal(l).wait = "no" <=> l.wait = "no"
         /\ l.wait = "no" => Signal(l) = l
  BY DEF Signal, Lock, Mode, Granted

\* Signalling the head of a list keeps its length and the objects it skips.
LEMMA SignalHeadList ==
  ASSUME NEW q \in Seq(Lock)
  PROVE  /\ SignalHead(q) \in Seq(Lock)
         /\ Len(SignalHead(q)) = Len(q)
         /\ \A j \in 1 .. Len(q) :
              SignalHead(q)[j] = IF j = 1 \/ \A k \in 1 .. j : q[k].mode = "S"
                                   THEN Signal(q[j]) ELSE q[j]
<1> DEFINE s == SignalHead(q)
<1>1. \A j \in 1 .. Len(q) :
        /\ s[j] = (IF j = 1 \/ \A k \in 1 .. j : q[k].mode = "S"
                     THEN Signal(q[j]) ELSE q[j])
        /\ s[j] \in Lock
  BY ListIsFunction, SignalLock DEF SignalHead
<1>2. s = [j \in 1 .. Len(q) |-> s[j]]
  BY DEF SignalHead
<1>3. s \in Seq(Lock) /\ Len(s) = Len(q)
  BY <1>1, <1>2, FunctionIsList, ListIsFunction
<1> QED BY <1>1, <1>3

-----------------------------------------------------------------------------
(* Each operation keeps the invariant of the list it works on.             *)

\* The object lock_acquire appends: acquired only when nothing in the list
\* excludes it, and never a second shared object of the same transaction.
LEMMA AppendKeepsInv ==
  ASSUME NEW q \in Seq(Lock), QueueInv(q),
         NEW t \in Trx, NEW m \in Mode, NEW l \in Lock,
         l.trx = t, l.mode = m, l.acquired = GrantedOnArrival(q, t, m),
         l.wait = (IF l.acquired THEN "no" ELSE "asleep"),
         Covering(q, t, m) = {},
         Own(q, t) = {} \/ Others(q, t) # {}
  PROVE  Append(q, l) \in Seq(Lock) /\ QueueInv(Append(q, l))
<1> DEFINE n == Len(q)
           p == Append(q, l)
<1>1. /\ p \in Seq(Lock) /\ Len(p) = n + 1 /\ p[n + 1] = l /\ n \in Nat
      /\ \A i \in 1 .. n : p[i] = q[i] /\ q[i] \in Lock
  OBVIOUS
<1>2. DOMAIN q = 1 .. n
  BY ListIsFunction
<1>3. \A i \in 1 .. n : q[i].trx = t => m = "X" /\ q[i].mode = "S"
  BY <1>1, <1>2 DEF Covering, Own, Mode, Lock
<1>4. ASSUME Granted(l), n > 0
      PROVE  \A i \in 1 .. n : Granted(q[i]) /\ q[i].mode = "S" /\ q[i].trx # t /\ m = "S"
  <2>1. l.acquired
    BY <1>4 DEF Granted
  <2>2. q # << >>
    BY <1>4
  <2>3. q[n].acquired /\ (IF m = "S" THEN XOthers(q, t) = {} ELSE Others(q, t) = {})
    BY <2>1, <2>2 DEF GrantedOnArrival
  <2>4. \A i \in 1 .. n : Granted(q[i])
    BY <1>1, <1>4, <2>3 DEF QueueInv, Granted
  <2>5. m = "S"
    <3>1. SUFFICES ASSUME m # "S" PROVE FALSE
      OBVIOUS
    <3>2. Others(q, t) = {}
      BY <2>3, <3>1
    <3>3. \A i \in 1 .. n : q[i].trx = t
      BY <1>2, <3>2 DEF Others
    <3>4. 1 \in Own(q, t)
      BY <1>1, <1>2, <1>4, <3>3 DEF Own
    <3> QED BY <3>2, <3>4
  <2>6. \A i \in 1 .. n : q[i].trx # t
    BY <1>3, <2>5 
  <2>7. \A i \in 1 .. n : q[i].mode = "S"
    BY <1>1, <1>2, <2>3, <2>5, <2>6 DEF XOthers, Others, Lock, Mode
  <2> QED BY <2>4, <2>5, <2>6, <2>7
<1>5. \A i \in 1 .. n + 1 : p[i].acquired => p[i].wait = "no"
  BY <1>1 DEF QueueInv
<1>6. ASSUME NEW i \in 1 .. n + 1, NEW j \in 1 .. n + 1, i < j
      PROVE  /\ Granted(p[j]) => Granted(p[i])
             /\ Granted(p[i]) /\ Granted(p[j]) =>
                  p[i].trx # p[j].trx /\ p[i].mode = "S" /\ p[j].mode = "S"
             /\ p[i].trx = p[j].trx => p[j].mode = "X"
  <2>1. CASE j <= n
    BY <1>1, <1>6, <2>1 DEF QueueInv
  <2>2. CASE j = n + 1
    BY <1>1, <1>3, <1>4, <1>6, <2>2
  <2> QED BY <2>1, <2>2, <1>1
<1>7. Granted(p[1])
  <2>1. CASE n = 0
    BY <1>1, <2>1 DEF GrantedOnArrival, Granted
  <2>2. CASE n > 0
    BY <1>1, <2>2 DEF QueueInv
  <2> QED BY <1>1, <2>1, <2>2
<1> QED BY <1>1, <1>5, <1>6, <1>7 DEF QueueInv

\* An upgrade in place happens in a list of one object.
LEMMA UpgradeKeepsInv ==
  ASSUME NEW q \in Seq(Lock), QueueInv(q), NEW t \in Trx, NEW m \in Mode,
         Covering(q, t, m) = {}, Own(q, t) # {}, Others(q, t) = {}
  PROVE  /\ [q EXCEPT ![Len(q)].mode = "X"] \in Seq(Lock)
         /\ QueueInv([q EXCEPT ![Len(q)].mode = "X"])
<1> DEFINE p == [q EXCEPT ![Len(q)].mode = "X"]
<1>1. DOMAIN q = 1 .. Len(q) /\ Len(q) \in Nat /\ \A i \in 1 .. Len(q) : q[i] \in Lock
  BY ListIsFunction
<1>2. \A i \in 1 .. Len(q) : q[i].trx = t
  BY <1>1 DEF Others
<1>3. \A i \in 1 .. Len(q) : q[i].mode = "S"
  BY <1>1, <1>2 DEF Covering, Own, Lock, Mode
<1>4. Len(q) = 1
  <2>1. Len(q) > 0
    BY <1>1 DEF Own
  <2>2. ~(Len(q) > 1)
    BY <1>1, <1>2, <1>3 DEF QueueInv
  <2> QED BY <1>1, <2>1, <2>2
<1>5. DOMAIN q = {1} /\ 1 .. 1 = {1} /\ q[1] \in Lock
  BY <1>1, <1>4
<1>6. p = [i \in 1 .. 1 |-> [q[1] EXCEPT !.mode = "X"]]
  <2>1. p = [q EXCEPT ![1] = [q[1] EXCEPT !.mode = "X"]]
    BY <1>4, Zenon
  <2>2. q = [i \in 1 .. 1 |-> q[1]]
    BY <1>5
  <2> HIDE DEF p
  <2> QED BY <1>5, <2>1, <2>2
<1>7. [q[1] EXCEPT !.mode = "X"] \in Lock
  BY <1>5 DEF Lock, Mode
<1>8. p[1] \in Lock /\ p[1].acquired = q[1].acquired /\ p[1].wait = q[1].wait
  BY <1>5, <1>6, <1>7 DEF Lock
<1>9. p \in Seq(Lock) /\ Len(p) = 1
  <2>1. p = [i \in 1 .. 1 |-> p[i]] /\ \A i \in 1 .. 1 : p[i] \in Lock
    BY <1>6, <1>7
  <2> HIDE DEF p
  <2> QED BY <2>1, FunctionIsList
<1>10. (q[1].acquired => q[1].wait = "no") /\ Granted(q[1])
  BY <1>4 DEF QueueInv
<1> HIDE DEF p
<1>11. QueueInv(p)
  BY <1>8, <1>9, <1>10 DEF QueueInv, Granted
<1> QED BY <1>9, <1>11 DEF p

\* The return from pthread_cond_wait does not change who is granted.
LEMMA WakeKeepsInv ==
  ASSUME NEW q \in Seq(Lock), QueueInv(q), NEW i \in DOMAIN q,
         q[i].wait = "signalled"
  PROVE  /\ [q EXCEPT ![i].wait = "no"] \in Seq(Lock)
         /\ QueueInv([q EXCEPT ![i].wait = "no"])
<1> DEFINE p == [q EXCEPT ![i].wait = "no"]
<1>1. DOMAIN q = 1 .. Len(q) /\ Len(q) \in Nat /\ \A j \in 1 .. Len(q) : q[j] \in Lock
  BY ListIsFunction
<1>2. \A j \in 1 .. Len(q) :
        /\ p[j] \in Lock
        /\ p[j].trx = q[j].trx /\ p[j].mode = q[j].mode
        /\ p[j].acquired = q[j].acquired
        /\ Granted(p[j]) <=> Granted(q[j])
        /\ q[j].wait = "no" => p[j].wait = "no"
  BY <1>1 DEF Lock, Granted
<1>3. p = [j \in 1 .. Len(q) |-> p[j]]
  BY <1>1
<1>4. p \in Seq(Lock) /\ Len(p) = Len(q)
  BY <1>1, <1>2, <1>3, FunctionIsList
<1> QED BY <1>1, <1>2, <1>4 DEF QueueInv

\* A release: the list without the released object, signalled at its head when
\* the head was the one released.
LEMMA ReleaseKeepsInv ==
  ASSUME NEW q \in Seq(Lock), QueueInv(q), NEW i \in DOMAIN q
  PROVE  AfterRelease(q, i) \in Seq(Lock) /\ QueueInv(AfterRelease(q, i))
<1> DEFINE u == Unlink(q, i)
           s == SignalHead(u)
           k == Len(q) - 1
<1>1. i \in 1 .. Len(q) /\ k \in Nat /\ \A j \in 1 .. Len(q) : q[j] \in Lock
  BY ListIsFunction
<1>2. /\ u \in Seq(Lock) /\ Len(u) = k
      /\ \A j \in 1 .. k : u[j] = IF j < i THEN q[j] ELSE q[j + 1]
  BY <1>1, UnlinkList
<1>3. /\ \A j \in 1 .. k : u[j].acquired => u[j].wait = "no"
      /\ \A h, j \in 1 .. k : h < j =>
           /\ Granted(u[j]) => Granted(u[h])
           /\ Granted(u[h]) /\ Granted(u[j]) =>
                u[h].trx # u[j].trx /\ u[h].mode = "S" /\ u[j].mode = "S"
           /\ u[h].trx = u[j].trx => u[j].mode = "X"
  <2>1. \A j \in 1 .. k : u[j].acquired => u[j].wait = "no"
    BY <1>1, <1>2 DEF QueueInv
  <2>2. ASSUME NEW h \in 1 .. k, NEW j \in 1 .. k, h < j
        PROVE  \E a, b \in 1 .. Len(q) : a < b /\ u[h] = q[a] /\ u[j] = q[b]
    <3> DEFINE a == IF h < i THEN h ELSE h + 1
               b == IF j < i THEN j ELSE j + 1
    <3>1. a \in 1 .. Len(q) /\ b \in 1 .. Len(q) /\ a < b
      BY <1>1, <2>2
    <3>2. u[h] = q[a] /\ u[j] = q[b]
      BY <1>1, <1>2
    <3> QED BY <3>1, <3>2
  <2> QED BY <2>1, <2>2, SMTT(30) DEF QueueInv
<1>4. CASE i = 1 /\ Len(q) > 1 /\ ~q[2].acquired
  <2>1. AfterRelease(q, i) = s
    BY <1>4 DEF AfterRelease
  <2>2. k > 0 /\ u[1] = q[2]
    BY <1>1, <1>2, <1>4
  <2>3. /\ s \in Seq(Lock) /\ Len(s) = k
        /\ \A j \in 1 .. k :
             s[j] = IF j = 1 \/ \A h \in 1 .. j : u[h].mode = "S" THEN Signal(u[j]) ELSE u[j]
    BY <1>2, SignalHeadList
  <2>4. \A j \in 1 .. k : u[j] \in Lock
    BY <1>2, ListIsFunction
  <2>5. \A j \in 1 .. k :
          /\ s[j].trx = u[j].trx /\ s[j].mode = u[j].mode /\ s[j].acquired = u[j].acquired
          /\ Granted(u[j]) => Granted(s[j])
          /\ s[j].acquired => s[j].wait = "no"
    <3> TAKE j \in 1 .. k
    <3>1. CASE s[j] = Signal(u[j])
      BY <1>3, <2>4, <3>1, SignalLock
    <3>2. CASE s[j] = u[j]
      BY <1>3, <3>2
    <3> QED BY <2>3, <3>1, <3>2
  <2>6. \A j \in 1 .. k : Granted(u[j]) /\ j > 1 => \A h \in 1 .. j : u[h].mode = "S"
    BY <1>3, <2>2
  <2>7. ASSUME NEW j \in 1 .. k, Granted(s[j]), j > 1
        PROVE  \A h \in 1 .. j : u[h].mode = "S"
    <3>1. SUFFICES ASSUME ~ \A h \in 1 .. j : u[h].mode = "S" PROVE FALSE
      OBVIOUS
    <3>2. j # 1
      BY <2>2, <2>7
    <3>3. s[j] = u[j]
      BY <2>3, <3>1, <3>2
    <3> QED BY <2>6, <2>7, <3>1, <3>3
  <2>8. ASSUME NEW h \in 1 .. k, NEW j \in 1 .. k, h < j
        PROVE  /\ Granted(s[j]) => Granted(s[h])
               /\ Granted(s[h]) /\ Granted(s[j]) =>
                    s[h].trx # s[j].trx /\ s[h].mode = "S" /\ s[j].mode = "S"
               /\ s[h].trx = s[j].trx => s[j].mode = "X"
    <3>1. j > 1 /\ h \in 1 .. j /\ j \in 1 .. j
      BY <2>8
    <3>2. s[h].trx = s[j].trx => s[j].mode = "X"
      BY <1>3, <2>5, <2>8
    <3>3. ASSUME Granted(s[j])
          PROVE  /\ Granted(s[h]) /\ s[h].mode = "S" /\ s[j].mode = "S"
                 /\ s[h].trx # s[j].trx
      <4>1. \A a \in 1 .. j : u[a].mode = "S"
        BY <2>7, <3>1, <3>3
      <4>2. \A a \in 1 .. h : u[a].mode = "S"
        BY <2>8, <4>1
      <4>3. s[h] = Signal(u[h])
        BY <2>3, <4>2
      <4>4. Granted(s[h])
        BY <2>4, <4>3, SignalLock
      <4>5. s[h].mode = "S" /\ s[j].mode = "S"
        BY <2>5, <3>1, <4>1
      <4> QED BY <3>2, <4>4, <4>5
    <3> QED BY <3>2, <3>3
  <2>9. Granted(s[1])
    BY <2>2, <2>3, <2>4, SignalLock
  <2> QED BY <2>1, <2>3, <2>5, <2>8, <2>9 DEF QueueInv
<1>5. CASE ~(i = 1 /\ Len(q) > 1 /\ ~q[2].acquired)
  <2>1. AfterRelease(q, i) = u
    BY <1>5 DEF AfterRelease
  <2>2. k > 0 => Granted(u[1])
    <3>1. CASE i = 1
      BY <1>1, <1>2, <1>5, <3>1 DEF QueueInv, Granted
    <3>2. CASE i # 1
      BY <1>1, <1>2, <3>2 DEF QueueInv
    <3> QED BY <3>1, <3>2
  <2> QED BY <1>2, <1>3, <2>1, <2>2, SMTT(30) DEF QueueInv
<1> QED BY <1>4, <1>5

-----------------------------------------------------------------------------
(* Theorems.                                                               *)

LEMMA InitInv == Init => LockTableInv
<1> SUFFICES ASSUME Init PROVE LockTableInv
  OBVIOUS
<1>1. << >> \in Seq(Lock) /\ << >> \in Seq(Rec) /\ Len(<< >>) = 0
  OBVIOUS
<1>2. TypeOK
  BY <1>1 DEF Init, TypeOK, Phases
<1>3. \A r \in Rec : QueueInv(queue[r])
  BY <1>1 DEF Init, QueueInv
<1> QED BY <1>2, <1>3 DEF LockTableInv

\* The step lemma: one step of the proof per action of the specification.
LEMMA NextInv == LockTableInv /\ [Next]_vars => LockTableInv'
<1> SUFFICES ASSUME LockTableInv, [Next]_vars PROVE LockTableInv'
  OBVIOUS
<1>1. TypeOK /\ \A r \in Rec : queue[r] \in Seq(Lock) /\ QueueInv(queue[r])
  BY DEF LockTableInv, TypeOK
<1>2. ASSUME NEW t \in Trx, TrxBegin(t) PROVE LockTableInv'
  BY <1>1, <1>2 DEF TrxBegin, LockTableInv, TypeOK, Phases
<1>3. ASSUME NEW t \in Trx, NEW r \in Rec, NEW m \in Mode, LockAcquire(t, r, m)
      PROVE  LockTableInv'
  <2>1. CASE AcquireHeld(t, r, m)
    BY <1>1, <2>1 DEF AcquireHeld, vars, LockTableInv, TypeOK
  <2>2. CASE AcquireUpgrade(t, r, m)
    <3> DEFINE p == [queue[r] EXCEPT ![Len(queue[r])].mode = "X"]
    <3>1. p \in Seq(Lock) /\ QueueInv(p)
      BY <1>1, <2>2, UpgradeKeepsInv DEF AcquireUpgrade
    <3>2. queue' = [queue EXCEPT ![r] = p]
      BY <2>2 DEF AcquireUpgrade
    <3> HIDE DEF p
    <3>3. TypeOK'
      BY <1>1, <2>2, <3>1, <3>2 DEF AcquireUpgrade, TypeOK
    <3>4. \A x \in Rec : QueueInv(queue'[x])
      BY <1>1, <3>1, <3>2 DEF TypeOK
    <3> QED BY <3>3, <3>4 DEF LockTableInv
  <2>3. CASE AcquireNew(t, r, m)
    <3> DEFINE granted == GrantedOnArrival(queue[r], t, m)
               new == NewLock(t, m, granted)
               p == Append(queue[r], new)
    <3>1. trxLocks[t] \in Seq(Rec) /\ Len(trxLocks[t]) + 1 \in Nat \ {0}
      BY <1>1 DEF TypeOK
    <3>2. granted \in BOOLEAN
      BY DEF GrantedOnArrival
    <3>3. new \in Lock
      BY <3>1, <3>2 DEF Lock, NewLock
    <3>4. /\ new.trx = t /\ new.mode = m /\ new.acquired = granted
          /\ new.wait = IF new.acquired THEN "no" ELSE "asleep"
      BY DEF NewLock
    <3>5. /\ queue' = [queue EXCEPT ![r] = p]
          /\ trxLocks' = [trxLocks EXCEPT ![t] = Append(trxLocks[t], r)]
          /\ pc' = [pc EXCEPT ![t] = IF granted THEN "running" ELSE "waiting"]
          /\ released' = released
          /\ Covering(queue[r], t, m) = {}
          /\ Own(queue[r], t) = {} \/ Others(queue[r], t) # {}
      BY <2>3 DEF AcquireNew
    <3>6. p \in Seq(Lock) /\ QueueInv(p)
      <4> HIDE DEF new
      <4> QED BY <1>1, <3>3, <3>4, <3>5, AppendKeepsInv
    <3> HIDE DEF p, granted
    <3>7. TypeOK'
      BY <1>1, <3>1, <3>5, <3>6 DEF TypeOK, Phases
    <3>8. \A x \in Rec : QueueInv(queue'[x])
      BY <1>1, <3>5, <3>6 DEF TypeOK
    <3> QED BY <3>7, <3>8 DEF LockTableInv
  <2> QED BY <1>3, <2>1, <2>2, <2>3 DEF LockAcquire
<1>4. ASSUME NEW t \in Trx, NEW r \in Rec, NEW i \in DOMAIN queue[r], WakeUp(t, r, i)
      PROVE  LockTableInv'
  <2> DEFINE p == [queue[r] EXCEPT ![i].wait = "no"]
  <2>1. p \in Seq(Lock) /\ QueueInv(p)
    BY <1>1, <1>4, WakeKeepsInv DEF WakeUp
  <2>2. queue' = [queue EXCEPT ![r] = p]
    BY <1>4 DEF WakeUp
  <2> HIDE DEF p
  <2>3. TypeOK'
    BY <1>1, <1>4, <2>1, <2>2 DEF WakeUp, TypeOK, Phases
  <2>4. \A x \in Rec : QueueInv(queue'[x])
    BY <1>1, <2>1, <2>2 DEF TypeOK
  <2> QED BY <2>3, <2>4 DEF LockTableInv
<1>5. ASSUME NEW t \in Trx, CommitBegin(t) PROVE LockTableInv'
  BY <1>1, <1>5 DEF CommitBegin, LockTableInv, TypeOK, Phases
<1>6. ASSUME NEW t \in Trx, NEW r \in Rec, NEW i \in DOMAIN queue[r], LockRelease(t, r, i)
      PROVE  LockTableInv'
  <2> DEFINE p == AfterRelease(queue[r], i)
  <2>1. p \in Seq(Lock) /\ QueueInv(p)
    BY <1>1, ReleaseKeepsInv
  <2>2. queue' = [queue EXCEPT ![r] = p]
    BY <1>6 DEF LockRelease
  <2> HIDE DEF p
  <2>3. TypeOK'
    BY <1>1, <1>6, <2>1, <2>2 DEF LockRelease, TypeOK
  <2>4. \A x \in Rec : QueueInv(queue'[x])
    BY <1>1, <2>1, <2>2 DEF TypeOK
  <2> QED BY <2>3, <2>4 DEF LockTableInv
<1>7. ASSUME NEW t \in Trx, CommitEnd(t) PROVE LockTableInv'
  <2>1. << >> \in Seq(Rec)
    OBVIOUS
  <2> QED BY <1>1, <1>7, <2>1 DEF CommitEnd, LockTableInv, TypeOK, Phases
<1>8. CASE UNCHANGED vars
  BY <1>1, <1>8 DEF vars, LockTableInv, TypeOK
<1> QED BY <1>2, <1>3, <1>4, <1>5, <1>6, <1>7, <1>8 DEF Next

\* The lists of lock objects keep their invariant in every reachable state of
\* the lock table, for any number of transactions and records.
THEOREM LockTableInvariant == Spec => []LockTableInv
<1>1. Init => LockTableInv
  BY InitInv
<1>2. LockTableInv /\ [Next]_vars => LockTableInv'
  BY NextInv
<1> QED BY <1>1, <1>2, PTL DEF Spec

\* The state variables keep their types.
THEOREM TypeCorrect == Spec => []TypeOK
<1>1. LockTableInv => TypeOK
  BY DEF LockTableInv
<1> QED BY <1>1, LockTableInvariant, PTL

\* Two granted locks of a record are shared and of different transactions.
THEOREM MutualExclusionHolds == Spec => []MutualExclusion
<1>1. LockTableInv => MutualExclusion
  <2> SUFFICES ASSUME LockTableInv PROVE MutualExclusion
    OBVIOUS
  <2>1. \A r \in Rec : QueueInv(queue[r]) /\ DOMAIN queue[r] = 1 .. Len(queue[r])
    BY ListIsFunction DEF LockTableInv, TypeOK
  <2> QED BY <2>1 DEF QueueInv, MutualExclusion
<1> QED BY <1>1, LockTableInvariant, PTL

\* lock_release never lets a younger request in before an older one.
THEOREM NoOvertakingHolds == Spec => []NoOvertaking
<1>1. LockTableInv => NoOvertaking
  <2> SUFFICES ASSUME LockTableInv PROVE NoOvertaking
    OBVIOUS
  <2>1. \A r \in Rec : QueueInv(queue[r]) /\ DOMAIN queue[r] = 1 .. Len(queue[r])
    BY ListIsFunction DEF LockTableInv, TypeOK
  <2> QED BY <2>1 DEF QueueInv, NoOvertaking
<1> QED BY <1>1, LockTableInvariant, PTL

\* The first request of a record's list is never left asleep.
THEOREM HeadGrantedHolds == Spec => []HeadGranted
<1>1. LockTableInv => HeadGranted
  <2> SUFFICES ASSUME LockTableInv, NEW r \in Rec, queue[r] # << >>
               PROVE  Granted(queue[r][1])
    BY DEF HeadGranted
  <2>1. queue[r] \in Seq(Lock) /\ QueueInv(queue[r])
    BY DEF LockTableInv, TypeOK
  <2>2. Len(queue[r]) > 0
    BY <2>1
  <2> QED BY <2>1, <2>2 DEF QueueInv
<1> QED BY <1>1, LockTableInvariant, PTL

-----------------------------------------------------------------------------
(* The two lists of a lock object agree.                                   *)

\* The objects of a well-typed lock table belong to transactions and are numbered.
LEMMA ObjectTypes ==
  ASSUME TypeOK
  PROVE  \A r \in Rec : \A i \in DOMAIN queue[r] :
           /\ DOMAIN queue[r] = 1 .. Len(queue[r]) /\ Len(queue[r]) \in Nat
           /\ queue[r][i] \in Lock
           /\ queue[r][i].trx \in Trx /\ queue[r][i].nth \in Nat \ {0}
<1>1. \A l \in Lock : l.trx \in Trx /\ l.nth \in Nat \ {0}
  BY DEF Lock
<1>2. ASSUME NEW r \in Rec, NEW i \in DOMAIN queue[r]
      PROVE  /\ DOMAIN queue[r] = 1 .. Len(queue[r]) /\ Len(queue[r]) \in Nat
             /\ queue[r][i] \in Lock
  <2>1. queue[r] \in Seq(Lock)
    BY DEF TypeOK
  <2> QED BY <2>1, ListIsFunction
<1> QED BY <1>1, <1>2

\* Overwriting the mode or the condition of an object changes no owner.
LEMMA FieldKeepsOwners ==
  ASSUME NEW q \in Seq(Lock), NEW i, NEW p,
         \/ p = [q EXCEPT ![i].mode = "X"]
         \/ p = [q EXCEPT ![i].wait = "no"]
  PROVE  /\ DOMAIN p = DOMAIN q
         /\ \A j \in DOMAIN q : p[j].trx = q[j].trx /\ p[j].nth = q[j].nth
<1>1. \A l \in Lock : /\ [l EXCEPT !.mode = "X"].trx = l.trx
                      /\ [l EXCEPT !.mode = "X"].nth = l.nth
                      /\ [l EXCEPT !.wait = "no"].trx = l.trx
                      /\ [l EXCEPT !.wait = "no"].nth = l.nth
  BY DEF Lock
<1>2. \A j \in DOMAIN q : q[j] \in Lock
  BY ListIsFunction
<1>3. CASE p = [q EXCEPT ![i].mode = "X"]
  <2>1. \A j \in DOMAIN q : p[j] = IF j = i THEN [q[j] EXCEPT !.mode = "X"] ELSE q[j]
    BY <1>3
  <2> QED BY <1>1, <1>2, <1>3, <2>1
<1>4. CASE p = [q EXCEPT ![i].wait = "no"]
  <2>1. \A j \in DOMAIN q : p[j] = IF j = i THEN [q[j] EXCEPT !.wait = "no"] ELSE q[j]
    BY <1>4
  <2> QED BY <1>1, <1>2, <1>4, <2>1
<1> QED BY <1>3, <1>4

\* What the operations on a list keep of an object: it is not taken for
\* another, not weakened, and not put back to sleep.
Keeps(l, k) == /\ k.trx = l.trx /\ k.nth = l.nth /\ k.mode = l.mode
               /\ k.wait = "no" <=> l.wait = "no"
               /\ Granted(l) => Granted(k)

\* A release keeps every other object, in its order.
LEMMA ReleaseKeepsOthers ==
  ASSUME NEW q \in Seq(Lock), NEW i \in DOMAIN q
  PROVE  LET p == AfterRelease(q, i)
         IN /\ DOMAIN p = 1 .. Len(q) - 1
            /\ \A j \in DOMAIN p :
                 /\ (IF j < i THEN j ELSE j + 1) \in DOMAIN q \ {i}
                 /\ Keeps(q[IF j < i THEN j ELSE j + 1], p[j])
<1> DEFINE u == Unlink(q, i)
           s == SignalHead(u)
           p == AfterRelease(q, i)
<1>1. i \in 1 .. Len(q) /\ Len(q) \in Nat /\ DOMAIN q = 1 .. Len(q)
  BY ListIsFunction
<1>2. /\ u \in Seq(Lock) /\ Len(u) = Len(q) - 1
      /\ \A j \in 1 .. Len(q) - 1 : u[j] = IF j < i THEN q[j] ELSE q[j + 1]
  BY <1>1, UnlinkList
<1>3. DOMAIN u = 1 .. Len(q) - 1 /\ \A j \in 1 .. Len(q) - 1 : u[j] \in Lock
  BY <1>2, ListIsFunction
<1>4. /\ s \in Seq(Lock) /\ Len(s) = Len(q) - 1
      /\ \A j \in 1 .. Len(q) - 1 : s[j] = Signal(u[j]) \/ s[j] = u[j]
  BY <1>2, SignalHeadList
<1>5. DOMAIN s = 1 .. Len(q) - 1
  BY <1>4, ListIsFunction
<1>6. ASSUME NEW j \in 1 .. Len(q) - 1 PROVE Keeps(u[j], s[j])
  <2> DEFINE l == u[j]
  <2>1. l \in Lock /\ (s[j] = Signal(l) \/ s[j] = l)
    BY <1>3, <1>4
  <2> HIDE DEF l
  <2>2. Keeps(l, Signal(l)) /\ Keeps(l, l)
    BY <2>1, SignalLock DEF Keeps
  <2> QED BY <2>1, <2>2 DEF l
<1>7. p = s \/ p = u
  BY DEF AfterRelease
<1>8. DOMAIN p = 1 .. Len(q) - 1
  BY <1>3, <1>5, <1>7
<1>9. \A j \in 1 .. Len(q) - 1 : Keeps(u[j], p[j])
  BY <1>6, <1>7 DEF Keeps
<1>10. \A j \in 1 .. Len(q) - 1 : (IF j < i THEN j ELSE j + 1) \in DOMAIN q \ {i}
  BY <1>1
<1> QED BY <1>2, <1>8, <1>9, <1>10

\* Steps that change neither who owns the objects nor the transactions' lists.
LEMMA SameOwnersKeepLists ==
  ASSUME ListsInv, UNCHANGED <<trxLocks, released>>,
         \A r \in Rec :
           /\ DOMAIN queue'[r] = DOMAIN queue[r]
           /\ \A i \in DOMAIN queue[r] :
                /\ queue'[r][i].trx = queue[r][i].trx
                /\ queue'[r][i].nth = queue[r][i].nth,
         TypeOK
  PROVE  ListsInv'
<1>1. \A t \in Trx : \A n \in released[t] + 1 .. Len(trxLocks[t]) : trxLocks[t][n] \in Rec
  BY DEF TypeOK
<1> QED BY <1>1, SMTT(30) DEF ListsInv, ListsAgree

\* lock_acquire: the new object is the next one on both lists.
LEMMA AcquireKeepsLists ==
  ASSUME TypeOK, ListsInv, NEW t \in Trx, NEW r \in Rec, NEW m \in Mode,
         AcquireNew(t, r, m)
  PROVE  ListsInv'
<1> DEFINE granted == GrantedOnArrival(queue[r], t, m)
           new == NewLock(t, m, granted)
           n == Len(queue[r])
           k == Len(trxLocks[t])
<1>1. /\ queue \in [Rec -> Seq(Lock)] /\ trxLocks \in [Trx -> Seq(Rec)]
      /\ released \in [Trx -> Nat]
  BY DEF TypeOK
<1>2. /\ queue' = [queue EXCEPT ![r] = Append(queue[r], new)]
      /\ trxLocks' = [trxLocks EXCEPT ![t] = Append(trxLocks[t], r)]
      /\ released' = released
  BY DEF AcquireNew
<1>3. new.trx = t /\ new.nth = k + 1
  BY DEF NewLock
<1> HIDE DEF new
<1>4. /\ n \in Nat /\ k \in Nat
      /\ DOMAIN queue[r] = 1 .. n /\ DOMAIN queue'[r] = 1 .. n + 1
      /\ queue'[r][n + 1] = new /\ \A i \in 1 .. n : queue'[r][i] = queue[r][i]
      /\ \A x \in Rec \ {r} : queue'[x] = queue[x]
  BY <1>1, <1>2
<1>5. /\ Len(trxLocks'[t]) = k + 1 /\ trxLocks'[t][k + 1] = r
      /\ \A j \in 1 .. k : trxLocks'[t][j] = trxLocks[t][j] /\ trxLocks[t][j] \in Rec
      /\ \A u \in Trx \ {t} : trxLocks'[u] = trxLocks[u]
  BY <1>1, <1>2
<1>6. released[t] \in Nat /\ released[t] <= k
  BY <1>1 DEF ListsInv
<1>7. \A x \in Rec : \A i \in DOMAIN queue[x] :
        queue[x][i].trx \in Trx /\ queue[x][i].nth \in Nat \ {0}
  BY ObjectTypes
<1>8. \A x \in Rec : \A i \in DOMAIN queue[x] : queue[x][i].trx = t => queue[x][i].nth \in 1 .. k
  BY <1>6, <1>7 DEF ListsInv, ListsAgree
<1>9. ASSUME NEW x \in Rec, NEW i \in DOMAIN queue'[x]
      PROVE  LET l == queue'[x][i]
             IN /\ l.nth \in released'[l.trx] + 1 .. Len(trxLocks'[l.trx])
                /\ trxLocks'[l.trx][l.nth] = x
                /\ \A j \in DOMAIN queue'[x] :
                     queue'[x][j].trx = l.trx /\ queue'[x][j].nth = l.nth => i = j
  <2>1. CASE x = r /\ i = n + 1
    BY <1>2, <1>3, <1>4, <1>5, <1>6, <1>8, <2>1, SMTT(30)
  <2>2. CASE ~(x = r /\ i = n + 1)
    <3> DEFINE l == queue[x][i]
    <3>1. i \in DOMAIN queue[x] /\ queue'[x][i] = l
      BY <1>4, <2>2
    <3>2. /\ l.nth \in released[l.trx] + 1 .. Len(trxLocks[l.trx])
          /\ trxLocks[l.trx][l.nth] = x
          /\ \A j \in DOMAIN queue[x] :
               queue[x][j].trx = l.trx /\ queue[x][j].nth = l.nth => i = j
          /\ l.trx \in Trx /\ l.nth \in Nat \ {0}
      BY <1>7, <3>1 DEF ListsInv, ListsAgree
    <3> HIDE DEF l
    <3>3. /\ l.nth \in released'[l.trx] + 1 .. Len(trxLocks'[l.trx])
          /\ trxLocks'[l.trx][l.nth] = x
      <4>1. CASE l.trx = t
        BY <1>2, <1>4, <1>5, <1>6, <3>2, <4>1
      <4>2. CASE l.trx # t
        BY <1>2, <1>5, <3>2, <4>2
      <4> QED BY <4>1, <4>2
    <3>4. ASSUME NEW j \in DOMAIN queue'[x], queue'[x][j].trx = l.trx, queue'[x][j].nth = l.nth
          PROVE  i = j
      <4>1. CASE x = r /\ j = n + 1
        <5>1. l.trx = t /\ l.nth = k + 1
          BY <1>3, <1>4, <3>4, <4>1
        <5> QED BY <1>4, <1>8, <3>1, <5>1 DEF l
      <4>2. CASE ~(x = r /\ j = n + 1)
        <5>1. j \in DOMAIN queue[x] /\ queue'[x][j] = queue[x][j]
          BY <1>4, <4>2
        <5> QED BY <3>2, <3>4, <5>1
      <4> QED BY <4>1, <4>2
    <3> QED BY <3>1, <3>3, <3>4
  <2> QED BY <2>1, <2>2
<1>10. ASSUME NEW u \in Trx, NEW j \in released'[u] + 1 .. Len(trxLocks'[u])
       PROVE  \E i \in DOMAIN queue'[trxLocks'[u][j]] :
                /\ queue'[trxLocks'[u][j]][i].trx = u
                /\ queue'[trxLocks'[u][j]][i].nth = j
  <2>1. CASE u = t /\ j = k + 1
    <3>1. trxLocks'[u][j] = r
      BY <1>5, <2>1
    <3>2. /\ n + 1 \in DOMAIN queue'[r]
          /\ queue'[r][n + 1].trx = u /\ queue'[r][n + 1].nth = j
      BY <1>3, <1>4, <2>1
    <3> QED BY <3>1, <3>2
  <2>2. CASE ~(u = t /\ j = k + 1)
    <3>1. /\ j \in released[u] + 1 .. Len(trxLocks[u])
          /\ trxLocks'[u][j] = trxLocks[u][j] /\ trxLocks[u][j] \in Rec
      BY <1>1, <1>2, <1>4, <1>5, <1>6, <2>2
    <3>2. PICK i \in DOMAIN queue[trxLocks[u][j]] :
            /\ queue[trxLocks[u][j]][i].trx = u
            /\ queue[trxLocks[u][j]][i].nth = j
      BY <3>1 DEF ListsInv, ListsAgree
    <3> DEFINE x == trxLocks[u][j]
    <3>3. x \in Rec /\ i \in DOMAIN queue[x]
      BY <3>1
    <3> HIDE DEF x
    <3>4. i \in DOMAIN queue'[x] /\ queue'[x][i] = queue[x][i]
      <4>1. CASE x = r
        BY <1>4, <3>3, <4>1
      <4>2. CASE x # r
        BY <1>4, <3>3, <4>2
      <4> QED BY <4>1, <4>2
    <3> QED BY <3>1, <3>2, <3>4 DEF x
  <2> QED BY <2>1, <2>2
<1>11. \A u \in Trx : released'[u] <= Len(trxLocks'[u])
  BY <1>1, <1>2, <1>4, <1>5 DEF ListsInv
<1> QED BY <1>9, <1>10, <1>11 DEF ListsInv, ListsAgree

\* lock_release: the object that goes is the next one trx_commit comes to.
LEMMA ReleaseKeepsLists ==
  ASSUME TypeOK, ListsInv, NEW t \in Trx, NEW r \in Rec, NEW i \in DOMAIN queue[r],
         LockRelease(t, r, i)
  PROVE  ListsInv'
<1> DEFINE p == AfterRelease(queue[r], i)
           Old(j) == IF j < i THEN j ELSE j + 1
           n == released[t] + 1
<1>1. /\ queue \in [Rec -> Seq(Lock)] /\ trxLocks \in [Trx -> Seq(Rec)]
      /\ released \in [Trx -> Nat]
  BY DEF TypeOK
<1>2. /\ queue' = [queue EXCEPT ![r] = p]
      /\ released' = [released EXCEPT ![t] = n] /\ trxLocks' = trxLocks
      /\ n \in 1 .. Len(trxLocks[t]) /\ r = trxLocks[t][n]
      /\ queue[r][i].trx = t /\ queue[r][i].nth = n
  BY <1>1 DEF LockRelease
<1>3. /\ DOMAIN p = 1 .. Len(queue[r]) - 1
      /\ \A j \in DOMAIN p : /\ Old(j) \in DOMAIN queue[r] \ {i}
                             /\ p[j].trx = queue[r][Old(j)].trx
                             /\ p[j].nth = queue[r][Old(j)].nth
  BY <1>1, ReleaseKeepsOthers DEF Keeps
<1>4. /\ DOMAIN queue[r] = 1 .. Len(queue[r]) /\ Len(queue[r]) \in Nat
      /\ i \in 1 .. Len(queue[r])
  BY <1>1, ListIsFunction
<1>5. queue'[r] = p /\ \A x \in Rec \ {r} : queue'[x] = queue[x]
  BY <1>1, <1>2
<1> HIDE DEF p
<1>6. \A x \in Rec : \A j \in DOMAIN queue[x] :
        queue[x][j].trx \in Trx /\ queue[x][j].nth \in Nat \ {0}
  BY ObjectTypes
<1>7. /\ released'[t] = n /\ \A u \in Trx \ {t} : released'[u] = released[u]
      /\ \A u \in Trx : released'[u] \in Nat
  BY <1>1, <1>2
<1>8. ASSUME NEW x \in Rec, NEW j \in DOMAIN queue'[x]
      PROVE  LET l == queue'[x][j]
             IN /\ l.nth \in released'[l.trx] + 1 .. Len(trxLocks'[l.trx])
                /\ trxLocks'[l.trx][l.nth] = x
                /\ \A h \in DOMAIN queue'[x] :
                     queue'[x][h].trx = l.trx /\ queue'[x][h].nth = l.nth => j = h
  <2> DEFINE a(h) == IF x = r THEN Old(h) ELSE h
             l == queue[x][a(j)]
  <2>1. \A h \in DOMAIN queue'[x] :
          /\ a(h) \in DOMAIN queue[x]
          /\ x = r => a(h) # i
          /\ queue'[x][h].trx = queue[x][a(h)].trx
          /\ queue'[x][h].nth = queue[x][a(h)].nth
    BY <1>3, <1>5
  <2>2. \A h \in DOMAIN queue'[x] : a(h) = a(j) => h = j
    BY <1>3, <1>4, <1>5
  <2> HIDE DEF a
  <2>3. /\ l.nth \in released[l.trx] + 1 .. Len(trxLocks[l.trx])
        /\ trxLocks[l.trx][l.nth] = x
        /\ \A h \in DOMAIN queue[x] :
             queue[x][h].trx = l.trx /\ queue[x][h].nth = l.nth => a(j) = h
        /\ l.trx \in Trx /\ l.nth \in Nat \ {0}
    BY <1>6, <2>1 DEF ListsInv, ListsAgree
  <2>4. ~(l.trx = t /\ l.nth = n)
    <3>1. SUFFICES ASSUME l.trx = t, l.nth = n PROVE FALSE
      OBVIOUS
    <3>2. x = r
      BY <1>2, <2>3, <3>1
    <3>3. a(j) = i
      BY <1>2, <2>3, <3>1, <3>2
    <3> QED BY <2>1, <3>2, <3>3
  <2>5. queue'[x][j].trx = l.trx /\ queue'[x][j].nth = l.nth
    BY <2>1
  <2> HIDE DEF l
  <2>6. l.nth \in released'[l.trx] + 1 .. Len(trxLocks'[l.trx])
    <3>1. released[l.trx] \in Nat /\ Len(trxLocks[l.trx]) \in Nat
      BY <1>1, <2>3
    <3>2. CASE l.trx = t
      BY <1>2, <1>7, <2>3, <2>4, <3>1, <3>2
    <3>3. CASE l.trx # t
      BY <1>2, <1>7, <2>3, <3>3
    <3> QED BY <3>2, <3>3
  <2>7. trxLocks'[l.trx][l.nth] = x
    BY <1>2, <2>3
  <2>8. \A h \in DOMAIN queue'[x] :
          queue'[x][h].trx = l.trx /\ queue'[x][h].nth = l.nth => j = h
    BY <2>1, <2>2, <2>3
  <2> QED BY <2>5, <2>6, <2>7, <2>8
<1>9. ASSUME NEW u \in Trx, NEW m \in released'[u] + 1 .. Len(trxLocks'[u])
      PROVE  \E j \in DOMAIN queue'[trxLocks'[u][m]] :
               /\ queue'[trxLocks'[u][m]][j].trx = u
               /\ queue'[trxLocks'[u][m]][j].nth = m
  <2> DEFINE x == trxLocks[u][m]
  <2>1. /\ m \in released[u] + 1 .. Len(trxLocks[u]) /\ x \in Rec
        /\ trxLocks'[u][m] = x /\ ~(u = t /\ m = n)
    BY <1>1, <1>2, <1>7
  <2>2. PICK b \in DOMAIN queue[x] : queue[x][b].trx = u /\ queue[x][b].nth = m
    BY <2>1 DEF ListsInv, ListsAgree
  <2> HIDE DEF x
  <2>3. CASE x = r
    <3> DEFINE j == IF b < i THEN b ELSE b - 1
    <3>1. b \in 1 .. Len(queue[r]) /\ b # i
      BY <1>2, <1>4, <2>1, <2>2, <2>3
    <3>2. j \in DOMAIN p /\ Old(j) = b
      BY <1>3, <1>4, <3>1
    <3> HIDE DEF j, Old
    <3> QED BY <1>3, <1>5, <2>1, <2>2, <2>3, <3>2
  <2>4. CASE x # r
    BY <1>5, <2>1, <2>2, <2>4
  <2> QED BY <2>3, <2>4
<1>10. \A u \in Trx : released'[u] <= Len(trxLocks'[u])
  BY <1>1, <1>2, <1>7 DEF ListsInv
<1> QED BY <1>8, <1>9, <1>10 DEF ListsInv, ListsAgree

\* A commit never releases more objects than its transaction's list holds, and
\* the two lists agree: what makes ListsAgree inductive.
THEOREM ListsInvariant == Spec => []ListsInv
<1>1. Init => ListsInv
  BY DEF Init, ListsInv, ListsAgree
<1>2. TypeOK /\ ListsInv /\ [Next]_vars => ListsInv'
  <2> SUFFICES ASSUME TypeOK, ListsInv, [Next]_vars PROVE ListsInv'
    OBVIOUS
  <2>1. \A r \in Rec : queue[r] \in Seq(Lock)
    BY DEF TypeOK
  <2>2. ASSUME NEW t \in Trx, TrxBegin(t) PROVE ListsInv'
    BY <2>2, SameOwnersKeepLists DEF TrxBegin
  <2>3. ASSUME NEW t \in Trx, NEW r \in Rec, NEW m \in Mode, LockAcquire(t, r, m)
        PROVE  ListsInv'
    <3>1. CASE AcquireHeld(t, r, m)
      BY <3>1, SameOwnersKeepLists DEF AcquireHeld, vars
    <3>2. CASE AcquireUpgrade(t, r, m)
      <4>1. queue' = [queue EXCEPT ![r][Len(queue[r])].mode = "X"]
        BY <3>2 DEF AcquireUpgrade
      <4>2. \A x \in Rec : /\ DOMAIN queue'[x] = DOMAIN queue[x]
                           /\ \A i \in DOMAIN queue[x] :
                                /\ queue'[x][i].trx = queue[x][i].trx
                                /\ queue'[x][i].nth = queue[x][i].nth
        <5>1. ASSUME NEW x \in Rec, x # r PROVE queue'[x] = queue[x]
          BY <4>1, <5>1 DEF TypeOK
        <5>2. queue'[r] = [queue[r] EXCEPT ![Len(queue[r])].mode = "X"]
          BY <4>1 DEF TypeOK
        <5> QED BY <2>1, <5>1, <5>2, FieldKeepsOwners, SMTT(30)
      <4> QED BY <3>2, <4>2, SameOwnersKeepLists DEF AcquireUpgrade
    <3>3. CASE AcquireNew(t, r, m)
      BY <3>3, AcquireKeepsLists
    <3> QED BY <2>3, <3>1, <3>2, <3>3 DEF LockAcquire
  <2>4. ASSUME NEW t \in Trx, NEW r \in Rec, NEW i \in DOMAIN queue[r], WakeUp(t, r, i)
        PROVE  ListsInv'
    <3>1. queue' = [queue EXCEPT ![r][i].wait = "no"]
      BY <2>4 DEF WakeUp
    <3>2. \A x \in Rec : /\ DOMAIN queue'[x] = DOMAIN queue[x]
                         /\ \A j \in DOMAIN queue[x] :
                              /\ queue'[x][j].trx = queue[x][j].trx
                              /\ queue'[x][j].nth = queue[x][j].nth
      <4>1. ASSUME NEW x \in Rec, x # r PROVE queue'[x] = queue[x]
        BY <3>1, <4>1 DEF TypeOK
      <4>2. queue'[r] = [queue[r] EXCEPT ![i].wait = "no"]
        BY <3>1 DEF TypeOK
      <4> QED BY <2>1, <4>1, <4>2, FieldKeepsOwners
    <3> QED BY <2>4, <3>2, SameOwnersKeepLists DEF WakeUp
  <2>5. ASSUME NEW t \in Trx, CommitBegin(t) PROVE ListsInv'
    BY <2>5, SameOwnersKeepLists DEF CommitBegin
  <2>6. ASSUME NEW t \in Trx, NEW r \in Rec, NEW i \in DOMAIN queue[r], LockRelease(t, r, i)
        PROVE  ListsInv'
    BY <2>6, ReleaseKeepsLists
  <2>7. ASSUME NEW t \in Trx, CommitEnd(t) PROVE ListsInv'
    <3>1. /\ queue' = queue /\ released[t] = Len(trxLocks[t])
          /\ trxLocks' = [trxLocks EXCEPT ![t] = << >>]
          /\ released' = [released EXCEPT ![t] = 0]
      BY <2>7 DEF CommitEnd
    <3>2. /\ trxLocks'[t] = << >> /\ released'[t] = 0
          /\ \A u \in Trx \ {t} : trxLocks'[u] = trxLocks[u] /\ released'[u] = released[u]
      BY <3>1 DEF TypeOK
    <3>3. Len(trxLocks[t]) \in Nat
      BY DEF TypeOK
    <3>4. \A x \in Rec : \A i \in DOMAIN queue[x] : queue[x][i].trx \in Trx \ {t}
      <4> SUFFICES ASSUME NEW x \in Rec, NEW i \in DOMAIN queue[x], queue[x][i].trx = t
                   PROVE  FALSE
        BY ObjectTypes
      <4>1. queue[x][i].nth \in released[t] + 1 .. Len(trxLocks[t])
        BY DEF ListsInv, ListsAgree
      <4> QED BY <3>1, <3>3, <4>1
    <3>5. \A u \in Trx : released'[u] + 1 .. Len(trxLocks'[u]) # {} => u # t
      BY <3>2
    <3> QED BY <3>1, <3>2, <3>4, <3>5 DEF ListsInv, ListsAgree
  <2>8. CASE UNCHANGED vars
    BY <2>8, SameOwnersKeepLists DEF vars
  <2> QED BY <2>2, <2>3, <2>4, <2>5, <2>6, <2>7, <2>8 DEF Next
<1> QED BY <1>1, <1>2, TypeCorrect, PTL DEF Spec

\* trx_commit's walk over the transaction's list meets every lock object of the
\* transaction once and no object that was freed before.
THEOREM ListsAgreeHolds == Spec => []ListsAgree
<1>1. ListsInv => ListsAgree
  BY DEF ListsInv
<1> QED BY <1>1, ListsInvariant, PTL

-----------------------------------------------------------------------------
(* Who waits for a record lock, and for how long a lock is held.           *)

\* Where the objects of a list are before and after its i-th one is released.
OldPlace(i, j) == IF j < i THEN j ELSE j + 1
NewPlace(i, j) == IF j < i THEN j ELSE j - 1

\* A release keeps every object but the one released, each in its new place.
LEMMA ReleasePlaces ==
  ASSUME NEW q \in Seq(Lock), NEW i \in DOMAIN q, NEW p, p = AfterRelease(q, i)
  PROVE  /\ \A j \in DOMAIN p :
              OldPlace(i, j) \in DOMAIN q \ {i} /\ Keeps(q[OldPlace(i, j)], p[j])
         /\ \A j \in DOMAIN q \ {i} :
              NewPlace(i, j) \in DOMAIN p /\ Keeps(q[j], p[NewPlace(i, j)])
         /\ \A j \in DOMAIN p : NewPlace(i, OldPlace(i, j)) = j
         /\ \A j, k \in DOMAIN p : OldPlace(i, j) = OldPlace(i, k) => j = k
<1>1. DOMAIN q = 1 .. Len(q) /\ Len(q) \in Nat
  BY ListIsFunction
<1>2. /\ DOMAIN p = 1 .. Len(q) - 1
      /\ \A j \in DOMAIN p :
           OldPlace(i, j) \in DOMAIN q \ {i} /\ Keeps(q[OldPlace(i, j)], p[j])
  BY ReleaseKeepsOthers DEF OldPlace
<1>3. \A j \in DOMAIN q \ {i} :
        NewPlace(i, j) \in DOMAIN p /\ OldPlace(i, NewPlace(i, j)) = j
  BY <1>1, <1>2 DEF OldPlace, NewPlace
<1>4. /\ \A j \in DOMAIN p : NewPlace(i, OldPlace(i, j)) = j
      /\ \A j, k \in DOMAIN p : OldPlace(i, j) = OldPlace(i, k) => j = k
  BY <1>1, <1>2 DEF OldPlace, NewPlace
<1> QED BY <1>2, <1>3, <1>4

\* An upgrade in place changes one mode and nothing else.
LEMMA UpgradeKeepsOthers ==
  ASSUME NEW q \in Seq(Lock), NEW i, NEW p, p = [q EXCEPT ![i].mode = "X"]
  PROVE  /\ DOMAIN p = DOMAIN q
         /\ \A j \in DOMAIN q : /\ p[j].trx = q[j].trx /\ p[j].nth = q[j].nth
                                /\ p[j].wait = q[j].wait
                                /\ p[j].mode = q[j].mode \/ p[j].mode = "X"
<1>1. \A l \in Lock : /\ [l EXCEPT !.mode = "X"].trx = l.trx
                      /\ [l EXCEPT !.mode = "X"].nth = l.nth
                      /\ [l EXCEPT !.mode = "X"].wait = l.wait
                      /\ [l EXCEPT !.mode = "X"].mode = "X"
  BY DEF Lock
<1>2. \A j \in DOMAIN q : q[j] \in Lock
  BY ListIsFunction
<1>3. \A j \in DOMAIN q : p[j] = IF j = i THEN [q[j] EXCEPT !.mode = "X"] ELSE q[j]
  OBVIOUS
<1> QED BY <1>1, <1>2, <1>3

\* The return from pthread_cond_wait changes the state of one condition variable.
LEMMA WakeKeepsOthers ==
  ASSUME NEW q \in Seq(Lock), NEW i \in DOMAIN q, NEW p, p = [q EXCEPT ![i].wait = "no"]
  PROVE  /\ DOMAIN p = DOMAIN q
         /\ \A j \in DOMAIN q : /\ p[j].trx = q[j].trx /\ p[j].nth = q[j].nth
                                /\ p[j].mode = q[j].mode
                                /\ p[j].wait = IF j = i THEN "no" ELSE q[j].wait
<1>1. \A l \in Lock : /\ [l EXCEPT !.wait = "no"].trx = l.trx
                      /\ [l EXCEPT !.wait = "no"].nth = l.nth
                      /\ [l EXCEPT !.wait = "no"].mode = l.mode
                      /\ [l EXCEPT !.wait = "no"].wait = "no"
  BY DEF Lock
<1>2. \A j \in DOMAIN q : q[j] \in Lock
  BY ListIsFunction
<1>3. \A j \in DOMAIN q : p[j] = IF j = i THEN [q[j] EXCEPT !.wait = "no"] ELSE q[j]
  OBVIOUS
<1> QED BY <1>1, <1>2, <1>3

\* An object appended to a list comes after all others.
LEMMA AppendKeepsOthers ==
  ASSUME NEW q \in Seq(Lock), NEW l \in Lock
  PROVE  /\ DOMAIN Append(q, l) = DOMAIN q \union {Len(q) + 1}
         /\ Len(q) + 1 \notin DOMAIN q
         /\ Append(q, l)[Len(q) + 1] = l
         /\ \A j \in DOMAIN q : Append(q, l)[j] = q[j]
  OBVIOUS

-----------------------------------------------------------------------------
(* A thread waits on one object.                                           *)

\* Steps that put nobody to sleep and wake nobody, and keep all objects.
LEMMA SameWaits ==
  ASSUME TypeOK, WaitInv,
         \A r \in Rec :
           /\ DOMAIN queue'[r] = DOMAIN queue[r]
           /\ \A i \in DOMAIN queue[r] : /\ queue'[r][i].trx = queue[r][i].trx
                                         /\ queue'[r][i].wait = queue[r][i].wait,
         \A t \in Trx : /\ pc'[t] = "waiting" <=> pc[t] = "waiting"
                        /\ pc'[t] \in {"unborn", "ended"} => trxLocks'[t] = << >>
  PROVE  WaitInv'
<1>1. \A r \in Rec : \A i \in DOMAIN queue[r] : queue[r][i].trx \in Trx
  BY ObjectTypes
<1> QED BY <1>1 DEF WaitInv

\* lock_acquire: a running thread waits on nothing before, and on the new object
\* if at all after.
LEMMA AcquireKeepsWaits ==
  ASSUME TypeOK, WaitInv, NEW t \in Trx, NEW r \in Rec, NEW m \in Mode,
         AcquireNew(t, r, m)
  PROVE  WaitInv'
<1> DEFINE granted == GrantedOnArrival(queue[r], t, m)
           new == NewLock(t, m, granted)
           n == Len(queue[r]) + 1
<1>1. /\ queue \in [Rec -> Seq(Lock)] /\ pc \in [Trx -> Phases]
      /\ trxLocks \in [Trx -> Seq(Rec)]
  BY DEF TypeOK
<1>2. /\ pc[t] = "running"
      /\ queue' = [queue EXCEPT ![r] = Append(queue[r], new)]
      /\ trxLocks' = [trxLocks EXCEPT ![t] = Append(trxLocks[t], r)]
      /\ pc' = [pc EXCEPT ![t] = IF granted THEN "running" ELSE "waiting"]
  BY DEF AcquireNew
<1>3. new.trx = t /\ new.wait = IF granted THEN "no" ELSE "asleep"
  BY DEF NewLock
<1>4. new \in Lock
  <2>1. Len(trxLocks[t]) + 1 \in Nat \ {0} /\ granted \in BOOLEAN
    BY <1>1 DEF GrantedOnArrival
  <2> QED BY <2>1 DEF NewLock, Lock
<1> HIDE DEF new, granted
<1>5. /\ DOMAIN queue'[r] = DOMAIN queue[r] \union {n} /\ n \notin DOMAIN queue[r]
      /\ queue'[r][n] = new
      /\ \A j \in DOMAIN queue[r] : queue'[r][j] = queue[r][j]
      /\ \A x \in Rec \ {r} : queue'[x] = queue[x]
  BY <1>1, <1>2, <1>4, AppendKeepsOthers, SMTT(30)
<1> HIDE DEF n
<1>6. \A x \in Rec : \A i \in DOMAIN queue[x] :
        queue[x][i].trx \in Trx /\ (queue[x][i].trx = t => queue[x][i].wait = "no")
  BY <1>2, ObjectTypes DEF WaitInv
<1>7. \A x \in Rec : \A i \in DOMAIN queue'[x] :
        \/ x = r /\ i = n
        \/ i \in DOMAIN queue[x] /\ queue'[x][i] = queue[x][i]
  BY <1>5
<1>8. \A u \in Trx \ {t} : pc'[u] = pc[u] /\ trxLocks'[u] = trxLocks[u]
  BY <1>1, <1>2
<1>9. pc'[t] = IF granted THEN "running" ELSE "waiting"
  BY <1>1, <1>2
<1>10. ASSUME NEW x \in Rec, NEW i \in DOMAIN queue'[x], queue'[x][i].wait # "no"
       PROVE  /\ pc'[queue'[x][i].trx] = "waiting"
              /\ \A s \in Rec : \A j \in DOMAIN queue'[s] :
                   queue'[s][j].trx = queue'[x][i].trx /\ queue'[s][j].wait # "no"
                     => s = x /\ j = i
  <2>1. CASE x = r /\ i = n
    BY <1>3, <1>5, <1>6, <1>7, <1>9, <1>10, <2>1
  <2>2. CASE i \in DOMAIN queue[x] /\ queue'[x][i] = queue[x][i]
    <3>1. queue[x][i].trx \in Trx \ {t}
      BY <1>6, <1>10, <2>2
    <3>2. pc'[queue'[x][i].trx] = "waiting"
      BY <1>8, <1>10, <2>2, <3>1 DEF WaitInv
    <3> QED BY <1>3, <1>5, <1>7, <1>10, <2>2, <3>1, <3>2 DEF WaitInv
  <2> QED BY <1>7, <2>1, <2>2
<1>11. ASSUME NEW u \in Trx, pc'[u] = "waiting"
       PROVE  \E x \in Rec : \E i \in DOMAIN queue'[x] :
                queue'[x][i].trx = u /\ queue'[x][i].wait # "no"
  <2>1. CASE u = t
    BY <1>3, <1>5, <1>9, <1>11, <2>1
  <2>2. CASE u # t
    <3>1. PICK x \in Rec : \E i \in DOMAIN queue[x] : queue[x][i].trx = u /\ queue[x][i].wait # "no"
      BY <1>8, <1>11, <2>2 DEF WaitInv
    <3>2. PICK i \in DOMAIN queue[x] : queue[x][i].trx = u /\ queue[x][i].wait # "no"
      BY <3>1
    <3>3. i \in DOMAIN queue'[x] /\ queue'[x][i] = queue[x][i]
      BY <1>5
    <3> QED BY <3>2, <3>3
  <2> QED BY <2>1, <2>2
<1>12. \A u \in Trx : pc'[u] \in {"unborn", "ended"} => trxLocks'[u] = << >>
  BY <1>8, <1>9 DEF WaitInv
<1> QED BY <1>10, <1>11, <1>12 DEF WaitInv

\* The return from pthread_cond_wait: the object the thread waited on was its only one.
LEMMA WakeKeepsWaits ==
  ASSUME TypeOK, WaitInv, NEW t \in Trx, NEW r \in Rec, NEW i \in DOMAIN queue[r],
         WakeUp(t, r, i)
  PROVE  WaitInv'
<1>1. /\ queue \in [Rec -> Seq(Lock)] /\ pc \in [Trx -> Phases]
  BY DEF TypeOK
<1>2. /\ pc[t] = "waiting" /\ queue[r][i].trx = t /\ queue[r][i].wait = "signalled"
      /\ queue' = [queue EXCEPT ![r][i].wait = "no"]
      /\ pc' = [pc EXCEPT ![t] = "running"] /\ trxLocks' = trxLocks
  BY DEF WakeUp
<1>3. queue'[r] = [queue[r] EXCEPT ![i].wait = "no"] /\ \A x \in Rec \ {r} : queue'[x] = queue[x]
  BY <1>1, <1>2
<1>4. \A x \in Rec :
        /\ DOMAIN queue'[x] = DOMAIN queue[x]
        /\ \A j \in DOMAIN queue[x] :
             /\ queue'[x][j].trx = queue[x][j].trx
             /\ queue'[x][j].wait = IF x = r /\ j = i THEN "no" ELSE queue[x][j].wait
  BY <1>1, <1>3, WakeKeepsOthers
<1>5. \A x \in Rec : \A j \in DOMAIN queue[x] :
        queue[x][j].trx = t /\ queue[x][j].wait # "no" => x = r /\ j = i
  BY <1>2 DEF WaitInv
<1>6. \A u \in Trx : pc'[u] = IF u = t THEN "running" ELSE pc[u]
  BY <1>1, <1>2
<1>7. \A x \in Rec : \A j \in DOMAIN queue[x] : queue[x][j].trx \in Trx
  BY ObjectTypes
<1>8. ASSUME NEW x \in Rec, NEW j \in DOMAIN queue'[x], queue'[x][j].wait # "no"
      PROVE  /\ pc'[queue'[x][j].trx] = "waiting"
             /\ \A s \in Rec : \A k \in DOMAIN queue'[s] :
                  queue'[s][k].trx = queue'[x][j].trx /\ queue'[s][k].wait # "no"
                    => s = x /\ k = j
  BY <1>4, <1>5, <1>6, <1>7, <1>8 DEF WaitInv
<1>9. ASSUME NEW u \in Trx, pc'[u] = "waiting"
      PROVE  \E x \in Rec : \E j \in DOMAIN queue'[x] :
               queue'[x][j].trx = u /\ queue'[x][j].wait # "no"
  <2>1. u # t /\ pc[u] = "waiting"
    BY <1>6, <1>9
  <2>2. PICK x \in Rec : \E j \in DOMAIN queue[x] : queue[x][j].trx = u /\ queue[x][j].wait # "no"
    BY <2>1 DEF WaitInv
  <2>3. PICK j \in DOMAIN queue[x] : queue[x][j].trx = u /\ queue[x][j].wait # "no"
    BY <2>2
  <2> QED BY <1>2, <1>4, <2>1, <2>3
<1>10. \A u \in Trx : pc'[u] \in {"unborn", "ended"} => trxLocks'[u] = << >>
  BY <1>2, <1>6 DEF WaitInv
<1> QED BY <1>8, <1>9, <1>10 DEF WaitInv

\* lock_release: a signal moves nobody from one object to another.
LEMMA ReleaseKeepsWaits ==
  ASSUME TypeOK, WaitInv, NEW t \in Trx, NEW r \in Rec, NEW i \in DOMAIN queue[r],
         LockRelease(t, r, i)
  PROVE  WaitInv'
<1> DEFINE old(x, j) == IF x = r THEN OldPlace(i, j) ELSE j
           new(x, j) == IF x = r THEN NewPlace(i, j) ELSE j
<1>1. queue \in [Rec -> Seq(Lock)]
  BY DEF TypeOK
<1>2. /\ queue' = [queue EXCEPT ![r] = AfterRelease(queue[r], i)]
      /\ pc' = pc /\ trxLocks' = trxLocks
      /\ pc[t] = "committing" /\ queue[r][i].trx = t
  BY DEF LockRelease
<1>3. queue'[r] = AfterRelease(queue[r], i) /\ \A x \in Rec \ {r} : queue'[x] = queue[x]
  BY <1>1, <1>2
<1>4. \A x \in Rec : \A j \in DOMAIN queue'[x] :
        /\ old(x, j) \in DOMAIN queue[x]
        /\ queue'[x][j].trx = queue[x][old(x, j)].trx
        /\ queue'[x][j].wait = "no" <=> queue[x][old(x, j)].wait = "no"
        /\ \A k \in DOMAIN queue'[x] : old(x, j) = old(x, k) => j = k
  BY <1>1, <1>3, ReleasePlaces DEF Keeps
<1>5. \A x \in Rec : \A j \in DOMAIN queue[x] :
        queue[x][j].trx # t =>
          /\ new(x, j) \in DOMAIN queue'[x]
          /\ queue'[x][new(x, j)].trx = queue[x][j].trx
          /\ queue'[x][new(x, j)].wait = "no" <=> queue[x][j].wait = "no"
  BY <1>1, <1>2, <1>3, ReleasePlaces DEF Keeps
<1> HIDE DEF old, new
<1>6. ASSUME NEW x \in Rec, NEW j \in DOMAIN queue'[x], queue'[x][j].wait # "no"
      PROVE  /\ pc'[queue'[x][j].trx] = "waiting"
             /\ \A s \in Rec : \A k \in DOMAIN queue'[s] :
                  queue'[s][k].trx = queue'[x][j].trx /\ queue'[s][k].wait # "no"
                    => s = x /\ k = j
  BY <1>2, <1>4, <1>6 DEF WaitInv
<1>7. ASSUME NEW u \in Trx, pc'[u] = "waiting"
      PROVE  \E x \in Rec : \E j \in DOMAIN queue'[x] :
               queue'[x][j].trx = u /\ queue'[x][j].wait # "no"
  <2>1. PICK x \in Rec : \E j \in DOMAIN queue[x] : queue[x][j].trx = u /\ queue[x][j].wait # "no"
    BY <1>2, <1>7 DEF WaitInv
  <2>2. PICK j \in DOMAIN queue[x] : queue[x][j].trx = u /\ queue[x][j].wait # "no"
    BY <2>1
  <2>3. u # t
    BY <1>2, <1>7, <2>2
  <2> QED BY <1>5, <2>2, <2>3
<1> QED BY <1>2, <1>6, <1>7 DEF WaitInv

LEMMA WaitStep == TypeOK /\ WaitInv /\ [Next]_vars => WaitInv'
<1> SUFFICES ASSUME TypeOK, WaitInv, [Next]_vars PROVE WaitInv'
  OBVIOUS
<1>1. queue \in [Rec -> Seq(Lock)] /\ pc \in [Trx -> Phases] /\ trxLocks \in [Trx -> Seq(Rec)]
  BY DEF TypeOK
<1>2. ASSUME NEW t \in Trx, TrxBegin(t) PROVE WaitInv'
  BY <1>1, <1>2, SameWaits DEF TrxBegin, WaitInv
<1>3. ASSUME NEW t \in Trx, NEW r \in Rec, NEW m \in Mode, LockAcquire(t, r, m)
      PROVE  WaitInv'
  <2>1. CASE AcquireHeld(t, r, m)
    BY <2>1, SameWaits DEF AcquireHeld, vars, WaitInv
  <2>2. CASE AcquireUpgrade(t, r, m)
    <3>1. /\ queue' = [queue EXCEPT ![r][Len(queue[r])].mode = "X"]
          /\ pc' = pc /\ trxLocks' = trxLocks
      BY <2>2 DEF AcquireUpgrade
    <3>2. /\ queue'[r] = [queue[r] EXCEPT ![Len(queue[r])].mode = "X"]
          /\ \A x \in Rec \ {r} : queue'[x] = queue[x]
      BY <1>1, <3>1
    <3>3. \A x \in Rec :
            /\ DOMAIN queue'[x] = DOMAIN queue[x]
            /\ \A i \in DOMAIN queue[x] : /\ queue'[x][i].trx = queue[x][i].trx
                                          /\ queue'[x][i].wait = queue[x][i].wait
      <4>1. /\ DOMAIN queue'[r] = DOMAIN queue[r]
            /\ \A i \in DOMAIN queue[r] : /\ queue'[r][i].trx = queue[r][i].trx
                                          /\ queue'[r][i].wait = queue[r][i].wait
        BY <1>1, <3>2, UpgradeKeepsOthers
      <4> QED BY <3>2, <4>1
    <3> QED BY <3>1, <3>3, SameWaits DEF WaitInv
  <2>3. CASE AcquireNew(t, r, m)
    BY <2>3, AcquireKeepsWaits
  <2> QED BY <1>3, <2>1, <2>2, <2>3 DEF LockAcquire
<1>4. ASSUME NEW t \in Trx, NEW r \in Rec, NEW i \in DOMAIN queue[r], WakeUp(t, r, i)
      PROVE  WaitInv'
  BY <1>4, WakeKeepsWaits
<1>5. ASSUME NEW t \in Trx, CommitBegin(t) PROVE WaitInv'
  BY <1>1, <1>5, SameWaits DEF CommitBegin, WaitInv
<1>6. ASSUME NEW t \in Trx, NEW r \in Rec, NEW i \in DOMAIN queue[r], LockRelease(t, r, i)
      PROVE  WaitInv'
  BY <1>6, ReleaseKeepsWaits
<1>7. ASSUME NEW t \in Trx, CommitEnd(t) PROVE WaitInv'
  BY <1>1, <1>7, SameWaits DEF CommitEnd, WaitInv
<1>8. CASE UNCHANGED vars
  BY <1>8, SameWaits DEF vars, WaitInv
<1> QED BY <1>2, <1>3, <1>4, <1>5, <1>6, <1>7, <1>8 DEF Next

\* A thread waits on exactly one lock object, its transaction's, and nobody on
\* any other; transactions that have not begun or are over have no locks.
THEOREM WaitsOnOneLock == Spec => []WaitInv
<1>1. Init => WaitInv
  <2>1. DOMAIN << >> = {}
    OBVIOUS
  <2> QED BY <2>1 DEF Init, WaitInv
<1>2. TypeOK /\ WaitInv /\ [Next]_vars => WaitInv'
  BY WaitStep
<1> QED BY <1>1, <1>2, TypeCorrect, PTL DEF Spec

-----------------------------------------------------------------------------
(* Locks are held until commit.                                            *)

\* t still has on r every granted lock it had: the same object of its list, not weakened.
StillHeld(r, t) ==
  \A l \in LockOf(r, t) : \E k \in LockOf(r, t)' :
    k[1] = l[1] /\ (l[2] = "X" => k[2] = "X")

\* Every object of t in r's list has a place in the new list: it is not put to
\* sleep and not weakened.
Placed(r, t) ==
  \A i \in DOMAIN queue[r] : queue[r][i].trx = t =>
    \E j \in DOMAIN queue'[r] :
      /\ queue'[r][j].trx = t /\ queue'[r][j].nth = queue[r][i].nth
      /\ Granted(queue[r][i]) => Granted(queue'[r][j])
      /\ queue[r][i].mode = "X" => queue'[r][j].mode = "X"

LEMMA HeldIfPlaced ==
  ASSUME NEW r \in Rec, NEW t \in Trx, Placed(r, t)
  PROVE  StillHeld(r, t)
<1> SUFFICES ASSUME NEW l \in LockOf(r, t)
             PROVE  \E k \in LockOf(r, t)' : k[1] = l[1] /\ (l[2] = "X" => k[2] = "X")
  BY DEF StillHeld
<1>1. PICK i \in DOMAIN queue[r] : /\ queue[r][i].trx = t /\ Granted(queue[r][i])
                                  /\ l = <<queue[r][i].nth, queue[r][i].mode>>
  BY DEF LockOf, Own
<1>2. PICK j \in DOMAIN queue'[r] :
        /\ queue'[r][j].trx = t /\ queue'[r][j].nth = queue[r][i].nth
        /\ Granted(queue'[r][j])
        /\ queue[r][i].mode = "X" => queue'[r][j].mode = "X"
  BY <1>1 DEF Placed
<1> DEFINE k == <<queue'[r][j].nth, queue'[r][j].mode>>
<1>3. k \in LockOf(r, t)'
  BY <1>2 DEF LockOf, Own, Granted
<1>4. k[1] = l[1] /\ (l[2] = "X" => k[2] = "X")
  BY <1>1, <1>2
<1> QED BY <1>3, <1>4

\* No step of another transaction, and none of its own before it commits, takes
\* an object off a list, puts it back to sleep or weakens it.
LEMMA ObjectsStay ==
  ASSUME TypeOK, [Next]_vars, NEW x \in Rec, NEW u \in Trx, pc[u] # "committing"
  PROVE  Placed(x, u)
<1>1. queue \in [Rec -> Seq(Lock)]
  BY DEF TypeOK
<1>2. CASE queue' = queue
  BY <1>2 DEF Placed
<1>3. ASSUME NEW t \in Trx, NEW r \in Rec, NEW m \in Mode, LockAcquire(t, r, m)
      PROVE  Placed(x, u)
  <2>1. CASE AcquireHeld(t, r, m)
    BY <1>2, <2>1 DEF AcquireHeld, vars
  <2>2. CASE AcquireUpgrade(t, r, m)
    <3>1. /\ queue'[r] = [queue[r] EXCEPT ![Len(queue[r])].mode = "X"]
          /\ \A y \in Rec \ {r} : queue'[y] = queue[y]
      BY <1>1, <2>2 DEF AcquireUpgrade
    <3>2. \A i \in DOMAIN queue[x] :
            /\ i \in DOMAIN queue'[x]
            /\ queue'[x][i].trx = queue[x][i].trx /\ queue'[x][i].nth = queue[x][i].nth
            /\ queue'[x][i].wait = queue[x][i].wait
            /\ queue'[x][i].mode = queue[x][i].mode \/ queue'[x][i].mode = "X"
      BY <1>1, <3>1, UpgradeKeepsOthers, SMTT(30)
    <3> QED BY <3>2 DEF Placed, Granted
  <2>3. CASE AcquireNew(t, r, m)
    <3> DEFINE new == NewLock(t, m, GrantedOnArrival(queue[r], t, m))
    <3>1. queue' = [queue EXCEPT ![r] = Append(queue[r], new)]
      BY <2>3 DEF AcquireNew
    <3> HIDE DEF new
    <3>2. queue'[r] = Append(queue[r], new) /\ \A y \in Rec \ {r} : queue'[y] = queue[y]
      BY <1>1, <3>1
    <3>3. \A i \in DOMAIN queue[x] : i \in DOMAIN queue'[x] /\ queue'[x][i] = queue[x][i]
      BY <1>1, <3>2
    <3> QED BY <3>3 DEF Placed
  <2> QED BY <1>3, <2>1, <2>2, <2>3 DEF LockAcquire
<1>4. ASSUME NEW t \in Trx, NEW r \in Rec, NEW i \in DOMAIN queue[r], WakeUp(t, r, i)
      PROVE  Placed(x, u)
  <2>1. /\ queue'[r] = [queue[r] EXCEPT ![i].wait = "no"]
        /\ \A y \in Rec \ {r} : queue'[y] = queue[y]
    BY <1>1, <1>4 DEF WakeUp
  <2>2. \A j \in DOMAIN queue[x] :
          /\ j \in DOMAIN queue'[x]
          /\ queue'[x][j].trx = queue[x][j].trx /\ queue'[x][j].nth = queue[x][j].nth
          /\ queue'[x][j].mode = queue[x][j].mode
          /\ queue'[x][j].wait \in {"no", queue[x][j].wait}
    BY <1>1, <2>1, WakeKeepsOthers
  <2> QED BY <2>2 DEF Placed, Granted
<1>5. ASSUME NEW t \in Trx, NEW r \in Rec, NEW i \in DOMAIN queue[r], LockRelease(t, r, i)
      PROVE  Placed(x, u)
  <2>1. u # t /\ queue[r][i].trx = t
    BY <1>5 DEF LockRelease
  <2>2. /\ queue'[r] = AfterRelease(queue[r], i)
        /\ \A y \in Rec \ {r} : queue'[y] = queue[y]
    BY <1>1, <1>5 DEF LockRelease
  <2>3. CASE x = r
    <3>1. \A j \in DOMAIN queue[r] \ {i} :
            NewPlace(i, j) \in DOMAIN queue'[r] /\ Keeps(queue[r][j], queue'[r][NewPlace(i, j)])
      BY <1>1, <2>2, ReleasePlaces
    <3> QED BY <2>1, <2>3, <3>1 DEF Placed, Keeps
  <2>4. CASE x # r
    BY <2>2, <2>4 DEF Placed
  <2> QED BY <2>3, <2>4
<1>6. CASE \E t \in Trx : TrxBegin(t) \/ CommitBegin(t) \/ CommitEnd(t)
  BY <1>2, <1>6 DEF TrxBegin, CommitBegin, CommitEnd
<1>7. CASE UNCHANGED vars
  BY <1>2, <1>7 DEF vars
<1> QED BY <1>3, <1>4, <1>5, <1>6, <1>7 DEF Next

\* Locks are held until commit.
THEOREM HeldUntilCommitHolds == Spec => HeldUntilCommit
<1>1. TypeOK /\ [Next]_vars =>
        [\A r \in Rec, t \in Trx : pc[t] # "committing" =>
           \A l \in LockOf(r, t) : \E k \in LockOf(r, t)' :
             k[1] = l[1] /\ (l[2] = "X" => k[2] = "X")]_vars
  BY ObjectsStay, HeldIfPlaced DEF StillHeld
<1> QED BY <1>1, TypeCorrect, PTL DEF Spec, HeldUntilCommit

-----------------------------------------------------------------------------
(* The lock table implements the lock service, for any set of transactions *)
(* and records.  Initial states map to initial states; a request maps to   *)
(* Lock or Wait, a release with its signals to one Release, and the return *)
(* from pthread_cond_wait to no step.                                      *)

(* What a list says of a transaction's lock and request.                   *)

\* A transaction has at most one granted object in a list, whose mode is its lock.
LEMMA HeldModeOf ==
  ASSUME NEW q \in Seq(Lock), QueueInv(q), NEW t
  PROVE  /\ \A i \in DOMAIN q : q[i].trx = t /\ Granted(q[i]) => HeldMode(q, t) = q[i].mode
         /\ HeldMode(q, t) # "none" =>
              \E i \in DOMAIN q :
                q[i].trx = t /\ Granted(q[i]) /\ q[i].mode = HeldMode(q, t)
<1> DEFINE G == {j \in Own(q, t) : Granted(q[j])}
           modes == {q[i].mode : i \in G}
<1>1. DOMAIN q = 1 .. Len(q) /\ Len(q) \in Nat /\ \A i \in DOMAIN q : q[i].mode \in Mode
  BY ListIsFunction DEF Lock
<1>2. \A i \in DOMAIN q : i \in G <=> q[i].trx = t /\ Granted(q[i])
  BY DEF Own
<1>3. \A i, j \in G : i = j
  BY <1>1 DEF QueueInv, Own
<1>4. HeldMode(q, t) = IF "X" \in modes THEN "X" ELSE IF modes # {} THEN "S" ELSE "none"
  BY DEF HeldMode
<1>5. \A i \in G : i \in DOMAIN q /\ modes = {q[i].mode}
  BY <1>3 DEF Own
<1>6. ASSUME NEW i \in G PROVE HeldMode(q, t) = q[i].mode
  <2> HIDE DEF modes, G
  <2> QED BY <1>1, <1>4, <1>5, <1>6 DEF Mode
<1>7. G = {} => HeldMode(q, t) = "none"
  BY <1>4
<1> HIDE DEF G, modes
<1> QED BY <1>2, <1>5, <1>6, <1>7

\* Lists in which t has the same granted objects give it the same lock.
LEMMA SameHeldMode ==
  ASSUME NEW q \in Seq(Lock), QueueInv(q), NEW p \in Seq(Lock), QueueInv(p), NEW t,
         \A i \in DOMAIN q : q[i].trx = t /\ Granted(q[i]) =>
           \E j \in DOMAIN p : p[j].trx = t /\ Granted(p[j]) /\ p[j].mode = q[i].mode,
         \A j \in DOMAIN p : p[j].trx = t /\ Granted(p[j]) =>
           \E i \in DOMAIN q : q[i].trx = t /\ Granted(q[i]) /\ q[i].mode = p[j].mode
  PROVE  HeldMode(p, t) = HeldMode(q, t)
<1>1. CASE HeldMode(q, t) # "none"
  BY <1>1, HeldModeOf
<1>2. CASE HeldMode(p, t) # "none"
  BY <1>2, HeldModeOf
<1> QED BY <1>1, <1>2

\* Locks that exclude each other are not held at the same time.
LEMMA HeldModesExclude ==
  ASSUME NEW q \in Seq(Lock), QueueInv(q), NEW t, NEW u, t # u, HeldMode(q, t) = "X"
  PROVE  HeldMode(q, u) = "none"
<1>1. DOMAIN q = 1 .. Len(q) /\ Len(q) \in Nat
  BY ListIsFunction
<1>2. PICK i \in DOMAIN q : q[i].trx = t /\ Granted(q[i]) /\ q[i].mode = "X"
  BY HeldModeOf
<1>3. SUFFICES ASSUME HeldMode(q, u) # "none" PROVE FALSE
  OBVIOUS
<1>4. PICK j \in DOMAIN q : q[j].trx = u /\ Granted(q[j])
  BY <1>3, HeldModeOf
<1>5. i < j \/ j < i
  BY <1>1, <1>2, <1>4
<1> QED BY <1>1, <1>2, <1>4, <1>5 DEF QueueInv

LEMMA HeldCompatible ==
  ASSUME NEW r \in Rec, LockTableInv
  PROVE  \A t, u \in Trx : t # u /\ heldBar[r][t] = "X" => heldBar[r][u] = "none"
  BY HeldModesExclude DEF heldBar, LockTableInv, TypeOK

\* A thread that waits asks for one lock, one that does not for none.
LEMMA WantOf ==
  ASSUME TypeOK, WaitInv, NEW t \in Trx
  PROVE  /\ pc[t] # "waiting" => wantBar[t] = {}
         /\ \A r \in Rec : \A i \in DOMAIN queue[r] :
              queue[r][i].trx = t /\ ~Granted(queue[r][i]) =>
                wantBar[t] = {<<r, queue[r][i].mode>>}
<1>1. wantBar[t] = {w \in Rec \X Mode : Awaits(queue[w[1]], t, w[2])}
  BY DEF wantBar
<1>2. \A r \in Rec, m \in Mode :
        Awaits(queue[r], t, m) <=>
          \E i \in DOMAIN queue[r] :
            queue[r][i].trx = t /\ ~Granted(queue[r][i]) /\ queue[r][i].mode = m
  BY DEF Awaits, Own
<1>3. ASSUME pc[t] # "waiting" PROVE wantBar[t] = {}
  <2>1. \A r \in Rec, m \in Mode : ~Awaits(queue[r], t, m)
    BY <1>2, <1>3 DEF WaitInv, Granted
  <2> QED BY <1>1, <2>1
<1>4. ASSUME NEW r \in Rec, NEW i \in DOMAIN queue[r],
             queue[r][i].trx = t, ~Granted(queue[r][i])
      PROVE  wantBar[t] = {<<r, queue[r][i].mode>>}
  <2>1. queue[r][i].mode \in Mode
    BY ObjectTypes DEF Lock
  <2>2. \A x \in Rec, m \in Mode :
          Awaits(queue[x], t, m) <=> x = r /\ m = queue[r][i].mode
    BY <1>2, <1>4, <2>1 DEF WaitInv, Granted
  <2> QED BY <1>1, <2>1, <2>2
<1> QED BY <1>3, <1>4

-----------------------------------------------------------------------------
(* Each action maps to a step of the service, or to none.                  *)

\* The mapping of the phases, and of a step of one transaction from one to another.
LEMMA PhaseValues ==
  /\ Phase("unborn") = "idle"
  /\ Phase("running") = "growing" /\ Phase("waiting") = "growing"
  /\ Phase("committing") = "shrinking"
  /\ Phase("ended") = "over"
  BY DEF Phase

LEMMA PhaseOf ==
  ASSUME NEW t \in Trx
  PROVE  /\ pc[t] = "unborn" => phaseBar[t] = "idle"
         /\ pc[t] \in {"running", "waiting"} => phaseBar[t] = "growing"
         /\ pc[t] = "committing" => phaseBar[t] = "shrinking"
         /\ pc[t] = "ended" => phaseBar[t] = "over"
  BY PhaseValues DEF phaseBar

LEMMA PhaseStep ==
  ASSUME TypeOK, NEW t \in Trx, NEW p, pc' = [pc EXCEPT ![t] = p]
  PROVE  phaseBar' = [phaseBar EXCEPT ![t] = Phase(p)]
  BY DEF phaseBar, TypeOK

\* Changes of a list that keep owners, modes and grants do not show in it.
LEMMA SameModes ==
  ASSUME NEW q, NEW p, NEW t, DOMAIN p = DOMAIN q,
         \A i \in DOMAIN q : p[i].trx = q[i].trx /\ p[i].mode = q[i].mode,
         \A i \in DOMAIN q : Granted(p[i]) <=> Granted(q[i])
  PROVE  /\ HeldMode(p, t) = HeldMode(q, t)
         /\ \A m \in Mode : Awaits(p, t, m) <=> Awaits(q, t, m)
<1>1. Own(p, t) = Own(q, t)
  BY DEF Own
<1>2. \A i \in Own(q, t) : i \in DOMAIN q
  BY DEF Own
<1>3. {j \in Own(p, t) : Granted(p[j])} = {j \in Own(q, t) : Granted(q[j])}
  BY <1>1, <1>2, Zenon
<1> DEFINE G == {j \in Own(q, t) : Granted(q[j])}
<1>4. \A i \in G : p[i].mode = q[i].mode
  BY <1>2
<1>5. {p[i].mode : i \in G} = {q[i].mode : i \in G}
  <2> HIDE DEF G
  <2> QED BY <1>4
<1>6. HeldMode(p, t) = HeldMode(q, t)
  BY <1>3, <1>5 DEF HeldMode
<1>7. \A m \in Mode : Awaits(p, t, m) <=> Awaits(q, t, m)
  BY <1>1, <1>2 DEF Awaits
<1> QED BY <1>6, <1>7

\* Steps that change no owner, mode or grant are not seen by the service.
LEMMA SameBars ==
  ASSUME \A x \in Rec :
           /\ DOMAIN queue'[x] = DOMAIN queue[x]
           /\ \A i \in DOMAIN queue[x] :
                /\ queue'[x][i].trx = queue[x][i].trx
                /\ queue'[x][i].mode = queue[x][i].mode
                /\ Granted(queue'[x][i]) <=> Granted(queue[x][i])
  PROVE  heldBar' = heldBar /\ wantBar' = wantBar
<1>1. ASSUME NEW x \in Rec, NEW t \in Trx
      PROVE  /\ HeldMode(queue'[x], t) = HeldMode(queue[x], t)
             /\ \A m \in Mode : Awaits(queue'[x], t, m) <=> Awaits(queue[x], t, m)
  <2> DEFINE p == queue'[x]
             q == queue[x]
  <2>1. /\ DOMAIN p = DOMAIN q
        /\ \A i \in DOMAIN q : p[i].trx = q[i].trx /\ p[i].mode = q[i].mode
        /\ \A i \in DOMAIN q : Granted(p[i]) <=> Granted(q[i])
    OBVIOUS
  <2> HIDE DEF p, q
  <2>2. /\ HeldMode(p, t) = HeldMode(q, t)
        /\ \A m \in Mode : Awaits(p, t, m) <=> Awaits(q, t, m)
    BY <2>1, SameModes
  <2> QED BY <2>2 DEF p, q
<1>2. heldBar' = heldBar
  BY <1>1 DEF heldBar
<1>3. wantBar' = wantBar
  BY <1>1 DEF wantBar
<1> QED BY <1>2, <1>3

LEMMA BeginImplements ==
  ASSUME TypeOK, NEW t \in Trx, TrxBegin(t)
  PROVE  Service!Begin(t)
<1>1. pc[t] = "unborn" /\ pc' = [pc EXCEPT ![t] = "running"] /\ queue' = queue
  BY DEF TrxBegin
<1>2. phaseBar[t] = "idle"
  BY <1>1, PhaseOf
<1>3. phaseBar' = [phaseBar EXCEPT ![t] = "growing"]
  BY <1>1, PhaseStep, PhaseValues
<1>4. heldBar' = heldBar /\ wantBar' = wantBar
  BY <1>1, SameBars
<1> QED BY <1>2, <1>3, <1>4 DEF Service!Begin

\* trx_commit of a transaction without locks is over at once.
LEMMA CommitImplements ==
  ASSUME TypeOK, WaitInv, ListsInv, NEW t \in Trx, CommitBegin(t)
  PROVE  Service!Commit(t)
<1>1. /\ pc[t] = "running" /\ queue' = queue
      /\ pc' = [pc EXCEPT ![t] = IF trxLocks[t] = << >> THEN "ended" ELSE "committing"]
  BY DEF CommitBegin
<1>2. phaseBar[t] = "growing" /\ wantBar[t] = {}
  BY <1>1, PhaseOf, WantOf
<1>3. heldBar' = heldBar /\ wantBar' = wantBar
  BY <1>1, SameBars
<1> DEFINE p == IF trxLocks[t] = << >> THEN "over" ELSE "shrinking"
<1>4. phaseBar' = [phaseBar EXCEPT ![t] = p]
  <2>1. Phase(IF trxLocks[t] = << >> THEN "ended" ELSE "committing") = p
    BY PhaseValues
  <2> QED BY <1>1, <2>1, PhaseStep
<1>5. p = "over" => \A r \in Rec : heldBar[r][t] = "none"
  <2> SUFFICES ASSUME trxLocks[t] = << >>, NEW r \in Rec PROVE heldBar[r][t] = "none"
    OBVIOUS
  <2>1. Own(queue[r], t) = {}
    <3>1. \A i \in DOMAIN queue[r] :
            queue[r][i].trx = t => queue[r][i].nth \in released[t] + 1 .. Len(trxLocks[t])
      BY DEF ListsInv, ListsAgree
    <3>2. released[t] \in Nat /\ Len(trxLocks[t]) = 0
      BY DEF TypeOK
    <3> QED BY <3>1, <3>2 DEF Own
  <2> QED BY <2>1 DEF heldBar, HeldMode
<1> HIDE DEF p
<1>6. p \in {"shrinking", "over"}
  BY DEF p
<1> QED BY <1>2, <1>3, <1>4, <1>5, <1>6 DEF Service!Commit

\* The transaction's entry is erased when none of its locks is left.
LEMMA FinishImplements ==
  ASSUME TypeOK, ListsInv, NEW t \in Trx, CommitEnd(t)
  PROVE  Service!Finish(t)
<1>1. /\ pc[t] = "committing" /\ released[t] = Len(trxLocks[t]) /\ queue' = queue
      /\ pc' = [pc EXCEPT ![t] = "ended"]
  BY DEF CommitEnd
<1>2. phaseBar[t] = "shrinking"
  BY <1>1, PhaseOf
<1>3. phaseBar' = [phaseBar EXCEPT ![t] = "over"]
  BY <1>1, PhaseStep, PhaseValues
<1>4. heldBar' = heldBar /\ wantBar' = wantBar
  BY <1>1, SameBars
<1>5. ASSUME NEW r \in Rec PROVE heldBar[r][t] = "none"
  <2>1. \A i \in DOMAIN queue[r] :
          queue[r][i].trx = t => queue[r][i].nth \in released[t] + 1 .. Len(trxLocks[t])
    BY DEF ListsInv, ListsAgree
  <2>2. released[t] \in Nat
    BY DEF TypeOK
  <2>3. Own(queue[r], t) = {}
    BY <1>1, <2>1, <2>2 DEF Own
  <2> QED BY <2>3 DEF heldBar, HeldMode
<1> QED BY <1>2, <1>3, <1>4, <1>5 DEF Service!Finish

\* The return from pthread_cond_wait is no step of the service: the signal was.
LEMMA WakeUpStutters ==
  ASSUME TypeOK, NEW t \in Trx, NEW r \in Rec, NEW i \in DOMAIN queue[r], WakeUp(t, r, i)
  PROVE  UNCHANGED Service!vars
<1>1. queue \in [Rec -> Seq(Lock)]
  BY DEF TypeOK
<1>2. /\ pc[t] = "waiting" /\ queue[r][i].wait = "signalled"
      /\ queue' = [queue EXCEPT ![r][i].wait = "no"]
      /\ pc' = [pc EXCEPT ![t] = "running"]
  BY DEF WakeUp
<1>3. queue'[r] = [queue[r] EXCEPT ![i].wait = "no"] /\ \A x \in Rec \ {r} : queue'[x] = queue[x]
  BY <1>1, <1>2
<1>4. /\ DOMAIN queue'[r] = DOMAIN queue[r]
      /\ \A j \in DOMAIN queue[r] :
           /\ queue'[r][j].trx = queue[r][j].trx
           /\ queue'[r][j].mode = queue[r][j].mode
           /\ queue'[r][j].wait = IF j = i THEN "no" ELSE queue[r][j].wait
  BY <1>1, <1>3, WakeKeepsOthers
<1>5. heldBar' = heldBar /\ wantBar' = wantBar
  BY <1>2, <1>3, <1>4, SameBars DEF Granted
<1>6. phaseBar' = phaseBar
  <2>1. \A u \in Trx : pc'[u] = IF u = t THEN "running" ELSE pc[u]
    BY <1>2 DEF TypeOK
  <2>2. \A u \in Trx : Phase(pc'[u]) = Phase(pc[u])
    BY <1>2, <2>1, PhaseValues
  <2> QED BY <2>2 DEF phaseBar
<1> QED BY <1>5, <1>6 DEF Service!vars

\* A change of one transaction's lock on one record.
LEMMA HeldBarStep ==
  ASSUME NEW r \in Rec, NEW t \in Trx, NEW h,
         \A x \in Rec \ {r} : queue'[x] = queue[x],
         HeldMode(queue'[r], t) = h,
         \A u \in Trx \ {t} : HeldMode(queue'[r], u) = HeldMode(queue[r], u)
  PROVE  heldBar' = [heldBar EXCEPT ![r][t] = h]
<1>1. \A x \in Rec, u \in Trx :
        HeldMode(queue'[x], u) = IF x = r /\ u = t THEN h ELSE HeldMode(queue[x], u)
  OBVIOUS
<1>2. heldBar' = [x \in Rec |-> [u \in Trx |->
                    IF x = r /\ u = t THEN h ELSE HeldMode(queue[x], u)]]
  BY <1>1 DEF heldBar
<1>3. heldBar[r] = [u \in Trx |-> HeldMode(queue[r], u)]
  BY DEF heldBar
<1>4. [heldBar[r] EXCEPT ![t] = h] = [u \in Trx |-> IF u = t THEN h ELSE HeldMode(queue[r], u)]
  BY <1>3
<1>5. [heldBar EXCEPT ![r] = [heldBar[r] EXCEPT ![t] = h]] =
        [x \in Rec |-> [u \in Trx |->
                    IF x = r /\ u = t THEN h ELSE HeldMode(queue[x], u)]]
  BY <1>4 DEF heldBar
<1> QED BY <1>2, <1>5

\* An upgrade in place is a grant of the exclusive lock.
LEMMA UpgradeImplements ==
  ASSUME LockTableInv, LockTableInv', WaitInv, NEW t \in Trx, NEW r \in Rec, NEW m \in Mode,
         AcquireUpgrade(t, r, m)
  PROVE  Service!Lock(t, r, "X")
<1> DEFINE q == queue[r]
           p == queue'[r]
<1>1. /\ queue \in [Rec -> Seq(Lock)] /\ q \in Seq(Lock) /\ p \in Seq(Lock)
      /\ QueueInv(q) /\ QueueInv(p)
  BY DEF LockTableInv, TypeOK
<1>2. /\ pc[t] = "running" /\ Covering(q, t, m) = {} /\ Own(q, t) # {} /\ Others(q, t) = {}
      /\ queue' = [queue EXCEPT ![r][Len(queue[r])].mode = "X"] /\ pc' = pc
  BY DEF AcquireUpgrade
<1>3. p = [q EXCEPT ![Len(q)].mode = "X"] /\ \A x \in Rec \ {r} : queue'[x] = queue[x]
  BY <1>1, <1>2
<1>4. DOMAIN q = 1 .. Len(q) /\ Len(q) \in Nat /\ \A i \in DOMAIN q : q[i] \in Lock
  BY <1>1, ListIsFunction
<1> HIDE DEF q, p
<1>5. \A i \in DOMAIN q : q[i].trx = t /\ q[i].mode = "S"
  BY <1>2, <1>4 DEF Others, Covering, Own, Lock, Mode
<1>6. Len(q) = 1
  <2>1. Len(q) > 0
    BY <1>2, <1>4 DEF Own
  <2>2. ~(Len(q) > 1)
    BY <1>1, <1>4, <1>5 DEF QueueInv
  <2> QED BY <1>4, <2>1, <2>2
<1>7. Granted(q[1])
  BY <1>1, <1>6 DEF QueueInv
<1>8. /\ DOMAIN p = {1} /\ DOMAIN q = {1}
      /\ p[1].trx = t /\ p[1].mode = "X" /\ p[1].wait = q[1].wait
  <2>1. [q[1] EXCEPT !.mode = "X"].mode = "X"
    BY <1>4, <1>6 DEF Lock
  <2>2. p[1] = [q[1] EXCEPT !.mode = "X"]
    BY <1>3, <1>4, <1>6
  <2> QED BY <1>1, <1>3, <1>4, <1>5, <1>6, <2>1, <2>2, UpgradeKeepsOthers
<1>9. HeldMode(q, t) = "S" /\ HeldMode(p, t) = "X"
  BY <1>1, <1>5, <1>7, <1>8, HeldModeOf DEF Granted
<1>10. \A u \in Trx \ {t} : HeldMode(p, u) = HeldMode(q, u)
  BY <1>1, <1>5, <1>8, SameHeldMode
<1>11. heldBar' = [heldBar EXCEPT ![r][t] = "X"]
  BY <1>3, <1>9, <1>10, HeldBarStep DEF p, q
<1>12. wantBar' = wantBar
  <2>1. \A u \in Trx, n \in Mode : ~Awaits(q, u, n) /\ ~Awaits(p, u, n)
    BY <1>7, <1>8 DEF Awaits, Own, Granted
  <2>2. \A x \in Rec, u \in Trx, n \in Mode : Awaits(queue'[x], u, n) <=> Awaits(queue[x], u, n)
    BY <1>3, <2>1 DEF p, q
  <2> QED BY <2>2 DEF wantBar
<1>13. phaseBar' = phaseBar /\ phaseBar[t] = "growing" /\ wantBar[t] = {}
  BY <1>2, PhaseOf, WantOf DEF phaseBar, LockTableInv
<1>14. heldBar[r][t] # "X"
  BY <1>9 DEF heldBar, q
<1>15. \A a, b \in Trx : a # b /\ heldBar'[r][a] = "X" => heldBar'[r][b] = "none"
  BY <1>1, HeldModesExclude DEF heldBar, p
<1> QED BY <1>11, <1>12, <1>13, <1>14, <1>15 DEF Service!Lock, Service!Compatible

\* A request that is appended to a list is its owner's lock when it is granted
\* on arrival, a request that waits otherwise, and nothing to anybody else.
LEMMA AppendModes ==
  ASSUME NEW q \in Seq(Lock), QueueInv(q), NEW l \in Lock, NEW p, p = Append(q, l),
         p \in Seq(Lock), QueueInv(p)
  PROVE  /\ Granted(l) => HeldMode(p, l.trx) = l.mode
         /\ \A u \in Trx, m \in Mode : Awaits(p, u, m) <=>
              Awaits(q, u, m) \/ (u = l.trx /\ m = l.mode /\ ~Granted(l))
<1> DEFINE n == Len(q) + 1
<1>1. /\ DOMAIN p = DOMAIN q \union {n} /\ n \notin DOMAIN q /\ p[n] = l
      /\ \A j \in DOMAIN q : p[j] = q[j]
  BY AppendKeepsOthers
<1> HIDE DEF n
<1>2. ASSUME Granted(l) PROVE HeldMode(p, l.trx) = l.mode
  <2>1. n \in DOMAIN p /\ p[n] = l
    BY <1>1
  <2>2. \A i \in DOMAIN p : p[i].trx = l.trx /\ Granted(p[i]) => HeldMode(p, l.trx) = p[i].mode
    BY HeldModeOf
  <2> QED BY <1>2, <2>1, <2>2
<1>3. ASSUME NEW u, NEW m
      PROVE  Awaits(p, u, m) <=>
               Awaits(q, u, m) \/ (u = l.trx /\ m = l.mode /\ ~Granted(l))
  BY <1>1 DEF Awaits, Own
<1> QED BY <1>2, <1>3

\* An object added to a list changes nobody's lock but its owner's.
LEMMA AddedKeepsModes ==
  ASSUME NEW q \in Seq(Lock), QueueInv(q), NEW p \in Seq(Lock), QueueInv(p), NEW n,
         DOMAIN p = DOMAIN q \union {n}, \A j \in DOMAIN q : p[j] = q[j],
         NEW u, ~(p[n].trx = u /\ Granted(p[n]))
  PROVE  HeldMode(p, u) = HeldMode(q, u)
<1>1. \A i \in DOMAIN q : q[i].trx = u /\ Granted(q[i]) =>
        \E j \in DOMAIN p : p[j].trx = u /\ Granted(p[j]) /\ p[j].mode = q[i].mode
  OBVIOUS
<1>2. \A j \in DOMAIN p : p[j].trx = u /\ Granted(p[j]) =>
        \E i \in DOMAIN q : q[i].trx = u /\ Granted(q[i]) /\ q[i].mode = p[j].mode
  OBVIOUS
<1> QED BY <1>1, <1>2, SameHeldMode

\* A new lock object is a grant when it is acquired on arrival, a wait otherwise.
LEMMA AcquireImplements ==
  ASSUME LockTableInv, LockTableInv', WaitInv, NEW t \in Trx, NEW r \in Rec, NEW m \in Mode,
         AcquireNew(t, r, m)
  PROVE  Service!Lock(t, r, m) \/ Service!Wait(t, r, m)
<1> DEFINE q == queue[r]
           p == queue'[r]
           granted == GrantedOnArrival(q, t, m)
           new == NewLock(t, m, granted)
<1>1. /\ TypeOK /\ queue \in [Rec -> Seq(Lock)] /\ q \in Seq(Lock) /\ p \in Seq(Lock)
      /\ QueueInv(q) /\ QueueInv(p)
  BY DEF LockTableInv, TypeOK
<1>2. /\ pc[t] = "running" /\ Covering(q, t, m) = {}
      /\ Own(q, t) = {} \/ Others(q, t) # {}
      /\ queue' = [queue EXCEPT ![r] = Append(queue[r], new)]
      /\ pc' = [pc EXCEPT ![t] = IF granted THEN "running" ELSE "waiting"]
  BY DEF AcquireNew
<1>3. /\ new.trx = t /\ new.mode = m
      /\ new.wait = IF granted THEN "no" ELSE "asleep"
  BY DEF NewLock
<1>4. new \in Lock
  <2>1. Len(trxLocks[t]) + 1 \in Nat \ {0} /\ granted \in BOOLEAN
    BY <1>1 DEF GrantedOnArrival, TypeOK
  <2> QED BY <2>1 DEF NewLock, Lock
<1> HIDE DEF new, granted
<1>5. p = Append(q, new) /\ \A x \in Rec \ {r} : queue'[x] = queue[x]
  BY <1>1, <1>2
<1> HIDE DEF q, p
<1>6. phaseBar' = phaseBar /\ phaseBar[t] = "growing" /\ wantBar[t] = {}
  <2>1. Phase(IF granted THEN "running" ELSE "waiting") = "growing"
    BY PhaseValues
  <2>2. phaseBar' = [phaseBar EXCEPT ![t] = "growing"]
    BY <1>1, <1>2, <2>1, PhaseStep
  <2>3. phaseBar[t] = "growing" /\ wantBar[t] = {}
    <3>1. pc[t] # "waiting"
      BY <1>2
    <3> QED BY <1>1, <1>2, <3>1, PhaseOf, WantOf
  <2>4. [phaseBar EXCEPT ![t] = "growing"] = phaseBar
    BY <2>3 DEF phaseBar
  <2> QED BY <2>2, <2>3, <2>4
<1>7. /\ \A u \in Trx : u # t => HeldMode(p, u) = HeldMode(q, u)
      /\ ~Granted(new) => \A u \in Trx : HeldMode(p, u) = HeldMode(q, u)
      /\ Granted(new) => HeldMode(p, t) = m
      /\ \A u \in Trx, n \in Mode : Awaits(p, u, n) <=> Awaits(q, u, n) \/ (u = t /\ n = m /\ ~Granted(new))
  <2>1. q \in Seq(Lock) /\ QueueInv(q) /\ p \in Seq(Lock) /\ QueueInv(p) /\ p = Append(q, new)
    BY <1>1, <1>5
  <2> DEFINE n == Len(q) + 1
  <2>2. /\ DOMAIN p = DOMAIN q \union {n} /\ p[n] = new
        /\ \A j \in DOMAIN q : p[j] = q[j]
    BY <1>4, <2>1, AppendKeepsOthers
  <2> HIDE DEF n
  <2>3. ASSUME NEW u \in Trx, u # t \/ ~Granted(new) PROVE HeldMode(p, u) = HeldMode(q, u)
    <3>1. q \in Seq(Lock) /\ p \in Seq(Lock) /\ QueueInv(q) /\ QueueInv(p)
      BY <1>1
    <3>2. ~(p[n].trx = u /\ Granted(p[n]))
      BY <1>3, <2>2, <2>3
    <3> QED BY <2>2, <3>1, <3>2, AddedKeepsModes
  <2>4. Granted(new) => HeldMode(p, new.trx) = new.mode
    BY <1>4, <2>1, AppendModes
  <2>5. \A u \in Trx, x \in Mode : Awaits(p, u, x) <=>
              Awaits(q, u, x) \/ (u = new.trx /\ x = new.mode /\ ~Granted(new))
    BY <1>4, <2>1, AppendModes
  <2> QED BY <1>3, <2>3, <2>4, <2>5
<1>8. CASE granted
  <2>1. Granted(new)
    BY <1>3, <1>8 DEF Granted
  <2>2. heldBar' = [heldBar EXCEPT ![r][t] = m]
    <3>1. /\ HeldMode(queue'[r], t) = m
          /\ \A u \in Trx \ {t} : HeldMode(queue'[r], u) = HeldMode(queue[r], u)
      BY <1>7, <2>1 DEF p, q
    <3> QED BY <1>5, <3>1, HeldBarStep
  <2>3. \A x \in Rec, u \in Trx, n \in Mode : Awaits(queue'[x], u, n) <=> Awaits(queue[x], u, n)
    BY <1>5, <1>7, <2>1 DEF p, q
  <2>4. wantBar' = wantBar
    BY <2>3 DEF wantBar
  <2>5. HeldMode(q, t) # "X"
    <3>1. SUFFICES ASSUME HeldMode(q, t) = "X" PROVE FALSE
      OBVIOUS
    <3>2. PICK i \in DOMAIN q : q[i].trx = t /\ q[i].mode = "X"
      BY <1>1, <3>1, HeldModeOf
    <3>3. i \in Covering(q, t, m)
      BY <3>2 DEF Covering, Own
    <3> QED BY <1>2, <3>3 DEF q
  <2>6. heldBar[r][t] # "X"
    BY <2>5 DEF heldBar, q
  <2>7. \A a, b \in Trx : a # b /\ heldBar'[r][a] = "X" => heldBar'[r][b] = "none"
    BY <1>1, HeldModesExclude DEF heldBar, p
  <2> QED BY <1>6, <2>2, <2>4, <2>6, <2>7 DEF Service!Lock, Service!Compatible
<1>9. CASE ~granted
  <2>1. ~Granted(new)
    BY <1>3, <1>9 DEF Granted
  <2>2. \A x \in Rec, u \in Trx : HeldMode(queue'[x], u) = HeldMode(queue[x], u)
    BY <1>5, <1>7, <2>1 DEF p, q
  <2>3. heldBar' = heldBar
    BY <2>2 DEF heldBar
  <2>4. \A x \in Rec, u \in Trx, n \in Mode :
          Awaits(queue'[x], u, n) <=> Awaits(queue[x], u, n) \/ (x = r /\ u = t /\ n = m)
    BY <1>5, <1>7, <2>1 DEF p, q
  <2>5. \A x \in Rec, n \in Mode : ~Awaits(queue[x], t, n)
    <3>1. {w \in Rec \X Mode : Awaits(queue[w[1]], t, w[2])} = {}
      BY <1>6 DEF wantBar
    <3> SUFFICES ASSUME NEW x \in Rec, NEW n \in Mode, Awaits(queue[x], t, n) PROVE FALSE
      OBVIOUS
    <3>2. <<x, n>> \in {w \in Rec \X Mode : Awaits(queue[w[1]], t, w[2])}
      OBVIOUS
    <3> QED BY <3>1, <3>2
  <2>6. wantBar' = [wantBar EXCEPT ![t] = {<<r, m>>}]
    <3>1. {w \in Rec \X Mode : Awaits(queue'[w[1]], t, w[2])} = {<<r, m>>}
      BY <2>4, <2>5
    <3>2. \A u \in Trx \ {t} : {w \in Rec \X Mode : Awaits(queue'[w[1]], u, w[2])} =
                               {w \in Rec \X Mode : Awaits(queue[w[1]], u, w[2])}
      BY <2>4
    <3> QED BY <3>1, <3>2 DEF wantBar
  <2>7. Others(q, t) # {}
    <3>1. SUFFICES ASSUME Others(q, t) = {} PROVE FALSE
      OBVIOUS
    <3>2. DOMAIN q = {}
      BY <1>2, <3>1 DEF Own, Others
    <3>3. q = << >>
      BY <1>1, <3>2
    <3> QED BY <1>9, <3>3 DEF granted, GrantedOnArrival
  <2>8. PICK i \in DOMAIN q : q[i].trx # t
    BY <2>7 DEF Others
  <2> DEFINE u == q[i].trx
  <2>9. u \in Trx \ {t} /\ q[i].mode \in Mode
    BY <1>1, <2>8, ListIsFunction DEF Lock
  <2>10. heldBar[r][u] # "none" \/ \E w \in wantBar[u] : w[1] = r
    <3>1. CASE Granted(q[i])
      <4>1. HeldMode(q, u) \in Mode
        BY <1>1, <2>9, <3>1, HeldModeOf
      <4> QED BY <2>9, <4>1 DEF heldBar, q, Mode
    <3>2. CASE ~Granted(q[i])
      <4>1. wantBar[u] = {<<r, q[i].mode>>}
        BY <1>1, <2>9, <3>2, WantOf DEF q
      <4> QED BY <4>1
    <3> QED BY <3>1, <3>2
  <2> HIDE DEF u
  <2> QED BY <1>6, <2>3, <2>6, <2>9, <2>10 DEF Service!Wait
<1> QED BY <1>8, <1>9

\* A committing transaction's object is its only one in the list: its thread waits
\* on nothing, and of two granted objects one belongs to another transaction.
LEMMA OnlyObject ==
  ASSUME LockTableInv, WaitInv, NEW t \in Trx, NEW r \in Rec, NEW i \in DOMAIN queue[r],
         LockRelease(t, r, i)
  PROVE  /\ \A j \in DOMAIN queue[r] : queue[r][j].trx = t => j = i
         /\ Granted(queue[r][i])
<1>1. pc[t] = "committing" /\ queue[r][i].trx = t
  BY DEF LockRelease
<1>2. \A j \in DOMAIN queue[r] : queue[r][j].trx = t => Granted(queue[r][j])
  BY <1>1 DEF WaitInv, Granted
<1>3. queue[r] \in Seq(Lock) /\ QueueInv(queue[r])
  BY DEF LockTableInv, TypeOK
<1>4. DOMAIN queue[r] = 1 .. Len(queue[r])
  BY <1>3, ListIsFunction
<1>5. ASSUME NEW j \in DOMAIN queue[r], queue[r][j].trx = t, j # i PROVE FALSE
  <2>1. Granted(queue[r][j]) /\ Granted(queue[r][i])
    BY <1>1, <1>2, <1>5
  <2>2. i < j \/ j < i
    BY <1>3, <1>4, <1>5
  <2> QED BY <1>1, <1>3, <1>4, <1>5, <2>1, <2>2 DEF QueueInv
<1> QED BY <1>1, <1>2, <1>5

\* The requests that the release of the i-th lock of r's list lets in.
LetIn(r, i) ==
  {u \in Trx : \E j \in DOMAIN queue[r] \ {i} :
     /\ queue[r][j].trx = u
     /\ ~Granted(queue[r][j]) /\ Granted(queue'[r][NewPlace(i, j)])}

\* A release with its signals is a release of the service that grants those requests.
LEMMA ReleaseImplements ==
  ASSUME LockTableInv, LockTableInv', WaitInv,
         NEW t \in Trx, NEW r \in Rec, NEW i \in DOMAIN queue[r], LockRelease(t, r, i)
  PROVE  Service!Release(t, r, LetIn(r, i))
<1> DEFINE q == queue[r]
           p == queue'[r]
           grants == LetIn(r, i)
<1>1. /\ TypeOK /\ queue \in [Rec -> Seq(Lock)] /\ q \in Seq(Lock) /\ p \in Seq(Lock)
      /\ QueueInv(q) /\ QueueInv(p)
  BY DEF LockTableInv, TypeOK
<1>2. /\ pc[t] = "committing" /\ q[i].trx = t /\ pc' = pc
      /\ queue' = [queue EXCEPT ![r] = AfterRelease(queue[r], i)]
  BY DEF LockRelease
<1>3. p = AfterRelease(q, i) /\ \A x \in Rec \ {r} : queue'[x] = queue[x]
  BY <1>1, <1>2
<1>4. i \in DOMAIN q /\ Granted(q[i]) /\ \A j \in DOMAIN q : q[j].trx = t => j = i
  BY OnlyObject
<1>5. \A u \in Trx : u \in grants <=>
        \E j \in DOMAIN q \ {i} :
          q[j].trx = u /\ ~Granted(q[j]) /\ Granted(p[NewPlace(i, j)])
  BY DEF LetIn
<1> HIDE DEF q, p, grants
<1>6. \A j \in DOMAIN p :
        /\ OldPlace(i, j) \in DOMAIN q \ {i} /\ NewPlace(i, OldPlace(i, j)) = j
        /\ p[j].trx = q[OldPlace(i, j)].trx /\ p[j].mode = q[OldPlace(i, j)].mode
        /\ p[j].wait = "no" <=> q[OldPlace(i, j)].wait = "no"
        /\ Granted(q[OldPlace(i, j)]) => Granted(p[j])
  BY <1>1, <1>3, <1>4, ReleasePlaces DEF Keeps
<1>7. \A j \in DOMAIN q \ {i} :
        /\ NewPlace(i, j) \in DOMAIN p
        /\ p[NewPlace(i, j)].trx = q[j].trx /\ p[NewPlace(i, j)].mode = q[j].mode
        /\ Granted(q[j]) => Granted(p[NewPlace(i, j)])
  BY <1>1, <1>3, <1>4, ReleasePlaces DEF Keeps
<1>8. t \notin grants /\ grants \subseteq Trx
  BY <1>4, <1>5 DEF grants, LetIn
<1>9. HeldMode(q, t) # "none" /\ HeldMode(p, t) = "none"
  <2>1. HeldMode(q, t) \in Mode
    <3>1. q[i].mode \in Mode
      BY <1>1, <1>4, ListIsFunction DEF Lock
    <3> QED BY <1>1, <1>2, <1>4, <3>1, HeldModeOf
  <2>2. HeldMode(p, t) # "none" => \E j \in DOMAIN p : p[j].trx = t
    BY <1>1, HeldModeOf
  <2> QED BY <1>4, <1>6, <2>1, <2>2 DEF Mode
<1>10. ASSUME NEW u \in grants
       PROVE  /\ \E m \in Mode : wantBar[u] = {<<r, m>>} /\ HeldMode(p, u) = m
              /\ wantBar'[u] = {}
  <2>1. u \in Trx
    BY <1>8
  <2>2. PICK j \in DOMAIN q \ {i} :
          q[j].trx = u /\ ~Granted(q[j]) /\ Granted(p[NewPlace(i, j)])
    BY <1>5, <2>1
  <2>3. q[j].mode \in Mode
    BY <1>1, ListIsFunction DEF Lock
  <2>4. wantBar[u] = {<<r, q[j].mode>>}
    BY <1>1, <2>1, <2>2, WantOf DEF q
  <2>5. HeldMode(p, u) = q[j].mode
    <3> DEFINE k == NewPlace(i, j)
    <3>1. k \in DOMAIN p /\ p[k].trx = u /\ Granted(p[k]) /\ p[k].mode = q[j].mode
      BY <1>7, <2>2
    <3> HIDE DEF k
    <3> QED BY <1>1, <3>1, HeldModeOf
  <2>6. ASSUME NEW x \in Rec, NEW k \in DOMAIN queue'[x],
               queue'[x][k].trx = u, ~Granted(queue'[x][k])
        PROVE  FALSE
    <3>1. q[j].wait # "no" /\ queue'[x][k].wait # "no"
      BY <2>2, <2>6 DEF Granted
    <3>2. CASE x = r
      <4>1. p[k].trx = u /\ ~Granted(p[k]) /\ p[k].wait # "no" /\ k \in DOMAIN p
        BY <2>6, <3>1, <3>2 DEF p
      <4>2. OldPlace(i, k) \in DOMAIN q /\ q[OldPlace(i, k)].trx = u /\ q[OldPlace(i, k)].wait # "no"
        BY <1>6, <4>1
      <4>3. OldPlace(i, k) = j
        BY <2>2, <3>1, <4>2 DEF WaitInv, q
      <4>4. NewPlace(i, j) = k
        BY <1>6, <4>1, <4>3
      <4> QED BY <2>2, <4>1, <4>4
    <3>3. CASE x # r
      <4>1. queue'[x] = queue[x]
        BY <1>3, <3>3
      <4>2. k \in DOMAIN queue[x] /\ queue[x][k].trx = u /\ queue[x][k].wait # "no"
        BY <2>6, <3>1, <4>1
      <4> QED BY <2>2, <3>1, <3>3, <4>2 DEF WaitInv, q
    <3> QED BY <3>2, <3>3
  <2>7. \A x \in Rec, m \in Mode : ~Awaits(queue'[x], u, m)
    BY <2>6 DEF Awaits, Own
  <2>8. wantBar'[u] = {}
    BY <2>1, <2>7 DEF wantBar
  <2> QED BY <2>3, <2>4, <2>5, <2>8
<1>11. ASSUME NEW u \in Trx, u \notin grants, u # t PROVE HeldMode(p, u) = HeldMode(q, u)
  <2>1. \A j \in DOMAIN q : q[j].trx = u /\ Granted(q[j]) =>
          \E k \in DOMAIN p : p[k].trx = u /\ Granted(p[k]) /\ p[k].mode = q[j].mode
    BY <1>2, <1>7, <1>11
  <2>2. \A k \in DOMAIN p : p[k].trx = u /\ Granted(p[k]) =>
          \E j \in DOMAIN q : q[j].trx = u /\ Granted(q[j]) /\ q[j].mode = p[k].mode
    BY <1>5, <1>6, <1>11
  <2> QED BY <1>1, <2>1, <2>2, SameHeldMode
<1>12. ASSUME NEW u \in Trx, u \notin grants PROVE wantBar'[u] = wantBar[u]
  <2>1. ASSUME NEW m \in Mode PROVE Awaits(p, u, m) <=> Awaits(q, u, m)
    <3>1. \A k \in DOMAIN p : p[k].trx = u /\ ~Granted(p[k]) =>
            \E j \in DOMAIN q : q[j].trx = u /\ ~Granted(q[j]) /\ q[j].mode = p[k].mode
      BY <1>6
    <3>2. \A j \in DOMAIN q : q[j].trx = u /\ ~Granted(q[j]) =>
            \E k \in DOMAIN p : p[k].trx = u /\ ~Granted(p[k]) /\ p[k].mode = q[j].mode
      BY <1>4, <1>5, <1>7, <1>12
    <3> QED BY <3>1, <3>2 DEF Awaits, Own
  <2>2. \A x \in Rec, m \in Mode : Awaits(queue'[x], u, m) <=> Awaits(queue[x], u, m)
    BY <1>3, <2>1 DEF p, q
  <2> QED BY <2>2 DEF wantBar
<1>13. \A u \in grants : /\ \E w \in wantBar[u] : w[1] = r
                         /\ (CHOOSE w \in wantBar[u] : TRUE)[2] = HeldMode(p, u)
  <2> SUFFICES ASSUME NEW u \in grants
               PROVE  /\ \E w \in wantBar[u] : w[1] = r
                      /\ (CHOOSE w \in wantBar[u] : TRUE)[2] = HeldMode(p, u)
    OBVIOUS
  <2>1. PICK m \in Mode : wantBar[u] = {<<r, m>>} /\ HeldMode(p, u) = m
    BY <1>10
  <2>2. (CHOOSE w \in wantBar[u] : TRUE) = <<r, m>>
    BY <2>1
  <2> QED BY <2>1, <2>2
<1>14. heldBar' = [heldBar EXCEPT ![r] =
                     [u \in Trx |-> IF u = t THEN "none"
                                    ELSE IF u \in grants THEN (CHOOSE w \in wantBar[u] : TRUE)[2]
                                    ELSE heldBar[r][u]]]
  <2> DEFINE h == [u \in Trx |-> HeldMode(p, u)]
  <2>1. h = [u \in Trx |-> IF u = t THEN "none"
                           ELSE IF u \in grants THEN (CHOOSE w \in wantBar[u] : TRUE)[2]
                           ELSE heldBar[r][u]]
    <3>1. \A u \in Trx : heldBar[r][u] = HeldMode(q, u)
      BY DEF heldBar, q
    <3> QED BY <1>9, <1>11, <1>13, <3>1
  <2>2. heldBar' = [heldBar EXCEPT ![r] = h]
    BY <1>3 DEF heldBar, p
  <2> QED BY <2>1, <2>2
<1>15. wantBar' = [u \in Trx |-> IF u \in grants THEN {} ELSE wantBar[u]]
  <2>1. \A u \in Trx : wantBar'[u] = IF u \in grants THEN {} ELSE wantBar[u]
    BY <1>10, <1>12
  <2>2. wantBar' = [u \in Trx |-> wantBar'[u]]
    BY DEF wantBar
  <2> QED BY <2>1, <2>2
<1>16. phaseBar' = phaseBar /\ phaseBar[t] = "shrinking"
  BY <1>2, PhaseOf DEF phaseBar
<1>17. heldBar[r][t] # "none"
  BY <1>9 DEF heldBar, q
<1>18. \A a, b \in Trx : a # b /\ heldBar'[r][a] = "X" => heldBar'[r][b] = "none"
  BY <1>1, HeldModesExclude DEF heldBar, p
<1> QED
  BY <1>13, <1>14, <1>15, <1>16, <1>17, <1>18 DEF Service!Release, Service!Compatible, grants

-----------------------------------------------------------------------------
(* The refinement.                                                         *)

LEMMA InitImplements == Init => Service!Init
<1> SUFFICES ASSUME Init PROVE Service!Init
  OBVIOUS
<1>1. /\ queue = [r \in Rec |-> << >>] /\ pc = [t \in Trx |-> "unborn"]
      /\ \A t : Own(<< >>, t) = {}
  BY DEF Init, Own
<1>2. phaseBar = [t \in Trx |-> "idle"]
  BY <1>1, PhaseValues DEF phaseBar
<1>3. \A t : HeldMode(<< >>, t) = "none"
  BY <1>1 DEF HeldMode
<1>4. heldBar = [r \in Rec |-> [t \in Trx |-> "none"]]
  BY <1>1, <1>3 DEF heldBar
<1>5. \A r \in Rec, t \in Trx, m \in Mode : ~Awaits(queue[r], t, m)
  BY <1>1 DEF Awaits
<1>6. wantBar = [t \in Trx |-> {}]
  BY <1>5 DEF wantBar
<1> QED BY <1>2, <1>4, <1>6 DEF Service!Init

LEMMA NextImplements ==
  ASSUME LockTableInv, LockTableInv', WaitInv, ListsInv, [Next]_vars
  PROVE  [Service!Next]_(Service!vars)
<1>1. TypeOK
  BY DEF LockTableInv
<1>2. ASSUME NEW t \in Trx, TrxBegin(t) PROVE Service!Next
  BY <1>1, <1>2, BeginImplements DEF Service!Next
<1>3. ASSUME NEW t \in Trx, NEW r \in Rec, NEW m \in Mode, LockAcquire(t, r, m)
      PROVE  Service!Next \/ UNCHANGED vars
  <2>1. CASE AcquireHeld(t, r, m)
    BY <2>1 DEF AcquireHeld
  <2>2. CASE AcquireUpgrade(t, r, m)
    <3>1. Service!Lock(t, r, "X")
      BY <2>2, UpgradeImplements
    <3> QED BY <3>1 DEF Service!Next, Service!Mode
  <2>3. CASE AcquireNew(t, r, m)
    <3>1. Service!Lock(t, r, m) \/ Service!Wait(t, r, m)
      BY <2>3, AcquireImplements
    <3> QED BY <3>1 DEF Service!Next, Service!Mode, Mode
  <2> QED BY <1>3, <2>1, <2>2, <2>3 DEF LockAcquire
<1>4. ASSUME NEW t \in Trx, NEW r \in Rec, NEW i \in DOMAIN queue[r], WakeUp(t, r, i)
      PROVE  UNCHANGED Service!vars
  BY <1>1, <1>4, WakeUpStutters
<1>5. ASSUME NEW t \in Trx, CommitBegin(t) PROVE Service!Next
  BY <1>1, <1>5, CommitImplements DEF Service!Next
<1>6. ASSUME NEW t \in Trx, NEW r \in Rec, NEW i \in DOMAIN queue[r], LockRelease(t, r, i)
      PROVE  Service!Next
  <2>1. Service!Release(t, r, LetIn(r, i)) /\ LetIn(r, i) \in SUBSET Trx
    BY <1>6, ReleaseImplements DEF LetIn
  <2> QED BY <2>1 DEF Service!Next
<1>7. ASSUME NEW t \in Trx, CommitEnd(t) PROVE Service!Next
  BY <1>1, <1>7, FinishImplements DEF Service!Next
<1>8. ASSUME UNCHANGED vars PROVE UNCHANGED Service!vars
  <2>1. queue' = queue /\ pc' = pc
    BY <1>8 DEF vars
  <2> QED BY <2>1, SameBars DEF Service!vars, phaseBar
<1> QED BY <1>2, <1>3, <1>4, <1>5, <1>6, <1>7, <1>8 DEF Next

\* The lock table is an implementation of strict two-phase locking: every
\* behaviour of lock_acquire, lock_release and trx_commit is a behaviour of the
\* lock service.
THEOREM LockTableImplementsService == Spec => ImplementsLockService
<1>1. Init => Service!Init
  BY InitImplements
<1>2. LockTableInv /\ LockTableInv' /\ WaitInv /\ ListsInv /\ [Next]_vars
        => [Service!Next]_(Service!vars)
  BY NextImplements
<1> QED
  BY <1>1, <1>2, LockTableInvariant, WaitsOnOneLock, ListsInvariant, PTL
  DEF Spec, ImplementsLockService, Service!Spec
=============================================================================
