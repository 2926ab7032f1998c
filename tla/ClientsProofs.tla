----------------------------- MODULE ClientsProofs -----------------------------
(***************************************************************************)
(* Proofs about the two kinds of clients of the lock table.                *)
(*                                                                         *)
(* First what clients that lock records in key order gain, for any set of  *)
(* transactions and any set of keys.  Then db_find and db_update, for any  *)
(* set of transactions, records and leaf pages: what they read is          *)
(* committed, and where a leaf page holds one record an update is not      *)
(* undone.                                                                 *)
(***************************************************************************)
EXTENDS OrderedClients, RecordAccess, LockTableProofs

\* No transaction has two objects in a record's list.
OneLockEach ==
  \A r \in Rec : \A i, j \in DOMAIN queue[r] : queue[r][i].trx = queue[r][j].trx => i = j

LEMMA OrderedIsNext == OrderedNext => Next
  BY DEF OrderedNext, Next, OrderedAcquire, Releases, WakesUp

\* Steps that leave the owners of all objects as they are.
LEMMA SameOwnersOnce ==
  ASSUME OneLockEach,
         \A r \in Rec : /\ DOMAIN queue'[r] = DOMAIN queue[r]
                        /\ \A i \in DOMAIN queue[r] : queue'[r][i].trx = queue[r][i].trx
  PROVE  OneLockEach'
  BY DEF OneLockEach

\* A transaction that appends an object to a list has no other in it: all the
\* records it has locked have smaller keys.
LEMMA AcquireKeepsOnce ==
  ASSUME TypeOK, ListsInv, OneLockEach, NEW t \in Trx, NEW r \in Rec, NEW m \in Mode,
         Disciplined(t, r, m), AcquireNew(t, r, m)
  PROVE  OneLockEach'
<1> DEFINE new == NewLock(t, m, GrantedOnArrival(queue[r], t, m))
           n == Len(queue[r]) + 1
<1>1. queue \in [Rec -> Seq(Lock)] /\ r \in Nat
  BY RecAssumption DEF TypeOK
<1>2. Covering(queue[r], t, m) = {} /\ queue' = [queue EXCEPT ![r] = Append(queue[r], new)]
  BY DEF AcquireNew
<1>3. new.trx = t
  BY DEF NewLock
<1> HIDE DEF new
<1>4. /\ DOMAIN queue'[r] = DOMAIN queue[r] \union {n} /\ n \notin DOMAIN queue[r]
      /\ queue'[r][n].trx = t /\ \A j \in DOMAIN queue[r] : queue'[r][j] = queue[r][j]
  BY <1>1, <1>2, <1>3
<1> HIDE DEF n
<1>5. \A x \in Rec \ {r} : queue'[x] = queue[x]
  BY <1>1, <1>2
<1>6. ASSUME NEW i \in DOMAIN queue[r], queue[r][i].trx = t PROVE FALSE
  <2>1. /\ queue[r][i].nth \in released[t] + 1 .. Len(trxLocks[t])
        /\ trxLocks[t][queue[r][i].nth] = r
    BY <1>6 DEF ListsInv, ListsAgree
  <2>2. \A k \in 1 .. Len(trxLocks[t]) : trxLocks[t][k] < r
    BY <1>2 DEF Disciplined
  <2>3. released[t] \in Nat /\ Len(trxLocks[t]) \in Nat
    BY DEF TypeOK
  <2>4. queue[r][i].nth \in 1 .. Len(trxLocks[t])
    BY <2>1, <2>3
  <2>5. r < r
    BY <2>1, <2>2, <2>4
  <2> QED BY <1>1, <2>5
<1> QED BY <1>4, <1>5, <1>6 DEF OneLockEach

LEMMA OnceStep ==
  ASSUME TypeOK, ListsInv, OneLockEach, [OrderedNext]_vars
  PROVE  OneLockEach'
<1>1. queue \in [Rec -> Seq(Lock)]
  BY DEF TypeOK
<1>2. CASE queue' = queue
  BY <1>2 DEF OneLockEach
<1>3. ASSUME NEW t \in Trx, NEW r \in Rec, NEW m \in Mode, OrderedAcquire(t, r, m)
      PROVE  OneLockEach'
  <2>1. CASE AcquireHeld(t, r, m)
    BY <1>2, <2>1 DEF AcquireHeld, vars
  <2>2. CASE AcquireUpgrade(t, r, m)
    <3>1. /\ queue'[r] = [queue[r] EXCEPT ![Len(queue[r])].mode = "X"]
          /\ \A x \in Rec \ {r} : queue'[x] = queue[x]
      BY <1>1, <2>2 DEF AcquireUpgrade
    <3>2. /\ DOMAIN queue'[r] = DOMAIN queue[r]
          /\ \A i \in DOMAIN queue[r] : queue'[r][i].trx = queue[r][i].trx
      BY <1>1, <3>1, UpgradeKeepsOthers
    <3> QED BY <3>1, <3>2, SameOwnersOnce
  <2>3. CASE AcquireNew(t, r, m)
    BY <1>3, <2>3, AcquireKeepsOnce DEF OrderedAcquire
  <2> QED BY <1>3, <2>1, <2>2, <2>3 DEF OrderedAcquire, LockAcquire
<1>4. ASSUME NEW t \in Trx, NEW r \in Rec, NEW i \in DOMAIN queue[r], WakeUp(t, r, i)
      PROVE  OneLockEach'
  <2>1. /\ queue'[r] = [queue[r] EXCEPT ![i].wait = "no"]
        /\ \A x \in Rec \ {r} : queue'[x] = queue[x]
    BY <1>1, <1>4 DEF WakeUp
  <2>2. /\ DOMAIN queue'[r] = DOMAIN queue[r]
        /\ \A j \in DOMAIN queue[r] : queue'[r][j].trx = queue[r][j].trx
    BY <1>1, <2>1, WakeKeepsOthers
  <2> QED BY <2>1, <2>2, SameOwnersOnce
<1>5. ASSUME NEW t \in Trx, NEW r \in Rec, NEW i \in DOMAIN queue[r], LockRelease(t, r, i)
      PROVE  OneLockEach'
  <2>1. queue'[r] = AfterRelease(queue[r], i) /\ \A x \in Rec \ {r} : queue'[x] = queue[x]
    BY <1>1, <1>5 DEF LockRelease
  <2>2. \A j \in DOMAIN queue'[r] :
          /\ OldPlace(i, j) \in DOMAIN queue[r]
          /\ queue'[r][j].trx = queue[r][OldPlace(i, j)].trx
          /\ \A k \in DOMAIN queue'[r] : OldPlace(i, j) = OldPlace(i, k) => j = k
    BY <1>1, <2>1, ReleasePlaces DEF Keeps
  <2> QED BY <2>1, <2>2 DEF OneLockEach
<1>6. CASE \E t \in Trx : TrxBegin(t) \/ CommitBegin(t) \/ CommitEnd(t)
  BY <1>2, <1>6 DEF TrxBegin, CommitBegin, CommitEnd
<1>7. CASE UNCHANGED vars
  BY <1>2, <1>7 DEF vars
<1> QED BY <1>3, <1>4, <1>5, <1>6, <1>7 DEF OrderedNext, Releases, WakesUp

\* Clients that keep the order are clients of the lock table.
THEOREM OrderedClientsAreClients == OrderedSpec => Spec
  BY OrderedIsNext, PTL DEF OrderedSpec, Spec

\* Whoever sleeps waits for others' locks only: a client that locks records in
\* key order never sleeps behind a lock of its own.
THEOREM WaitsForOthersHolds == OrderedSpec => []WaitsForOthers
<1>1. Init => OneLockEach
  BY DEF Init, OneLockEach
<1>2. TypeOK /\ ListsInv /\ OneLockEach /\ [OrderedNext]_vars => OneLockEach'
  BY OnceStep
<1>3. TypeOK /\ HeadGranted /\ OneLockEach => WaitsForOthers
  <2> SUFFICES ASSUME TypeOK, HeadGranted, OneLockEach,
                      NEW r \in Rec, NEW j \in DOMAIN queue[r], ~Granted(queue[r][j])
               PROVE  j > 1 /\ \A i \in 1 .. j - 1 : queue[r][i].trx # queue[r][j].trx
    BY DEF WaitsForOthers
  <2>1. DOMAIN queue[r] = 1 .. Len(queue[r]) /\ Len(queue[r]) \in Nat
    BY ListIsFunction DEF TypeOK
  <2>2. j # 1
    BY <2>1 DEF HeadGranted, TypeOK
  <2> QED BY <2>1, <2>2 DEF OneLockEach
<1> QED
  BY <1>1, <1>2, <1>3, OrderedClientsAreClients, TypeCorrect, ListsInvariant, HeadGrantedHolds, PTL
  DEF OrderedSpec

(***************************************************************************)
(* db_find and db_update                                                   *)
(***************************************************************************)

\* The record operations drive the lock table as its clients may: every step of
\* theirs is a step of the lock table or none.
LEMMA AccessIsNext == ASSUME AccessTypeOK, [AccessNext]_allVars PROVE [Next]_vars
<1>1. ASSUME NEW t \in Trx, Acquire(t) PROVE Next
  <2>1. PICK c \in op[t] : LockAcquire(t, c.rec, c.mode)
    BY <1>1 DEF Acquire
  <2>2. c.rec \in Rec /\ c.mode \in Mode
    BY DEF AccessTypeOK, Calls
  <2> QED BY <2>1, <2>2 DEF Next
<1>2. CASE \E t \in Trx : \/ TrxBegin(t) \/ Commit(t) \/ Commits(t)
                          \/ \E r \in Rec : \E i \in DOMAIN queue[r] : WakeUp(t, r, i)
  BY <1>2 DEF Commit, Commits, Next
<1>3. CASE \E t \in Trx : \/ Answer(t) \/ WriteBack(t)
                          \/ \E r \in Rec, m \in Mode : CopyLeaf(t, r, m)
  BY <1>3 DEF Answer, WriteBack, CopyLeaf
<1>4. CASE UNCHANGED allVars
  BY <1>4 DEF allVars
<1> QED BY <1>1, <1>2, <1>3, <1>4 DEF AccessNext

-----------------------------------------------------------------------------
(* Types.                                                                  *)

LEMMA CallFields ==
  ASSUME NEW c \in Calls
  PROVE  /\ c.rec \in Rec /\ c.mode \in Mode /\ c.locked \in BOOLEAN
         /\ c.copy \in [OnPage(c.rec) -> Values]
         /\ \A d : d = [c EXCEPT !.locked = TRUE] =>
              d \in Calls /\ d.rec = c.rec /\ d.mode = c.mode /\ d.copy = c.copy
<1>1. PICK r \in Rec : c \in [rec : {r}, mode : Mode, locked : BOOLEAN,
                              copy : [OnPage(r) -> Values]]
  BY DEF Calls
<1> DEFINE d == [c EXCEPT !.locked = TRUE]
<1>2. d \in [rec : {r}, mode : Mode, locked : BOOLEAN, copy : [OnPage(r) -> Values]]
  BY <1>1
<1>3. d \in Calls
  BY <1>2 DEF Calls
<1>4. d.rec = c.rec /\ d.mode = c.mode /\ d.copy = c.copy
  BY <1>1
<1> QED BY <1>1, <1>3, <1>4

LEMMA NewCall ==
  ASSUME leaf \in [Rec -> Values], NEW r \in Rec, NEW m \in Mode
  PROVE  /\ Call(r, m, FALSE) \in Calls
         /\ Call(r, m, FALSE).rec = r /\ Call(r, m, FALSE).locked = FALSE
         /\ \A s \in OnPage(r) : Call(r, m, FALSE).copy[s] = leaf[s]
<1> DEFINE copy == [s \in OnPage(r) |-> leaf[s]]
           c == [rec |-> r, mode |-> m, locked |-> FALSE, copy |-> copy]
<1>1. copy \in [OnPage(r) -> Values] /\ \A s \in OnPage(r) : copy[s] = leaf[s]
  BY DEF OnPage
<1> HIDE DEF copy
<1>2. c \in [rec : {r}, mode : Mode, locked : BOOLEAN, copy : [OnPage(r) -> Values]]
  BY <1>1
<1>3. c \in Calls
  BY <1>2 DEF Calls
<1>4. c.rec = r /\ c.locked = FALSE /\ c.copy = copy
  OBVIOUS
<1>5. Call(r, m, FALSE) = c
  BY DEF Call, copy
<1> QED BY <1>1, <1>3, <1>4, <1>5

LEMMA AccessTypeStep ==
  ASSUME LockTableInv, AccessTypeOK, [AccessNext]_allVars
  PROVE  AccessTypeOK'
<1>1. TypeOK'
  BY AccessIsNext, NextInv DEF LockTableInv
<1>2. /\ leaf \in [Rec -> Values] /\ known \in [Trx -> [Rec -> SUBSET Values]]
      /\ op \in [Trx -> SUBSET Calls] /\ \A t \in Trx : \A c, d \in op[t] : c = d
  BY DEF AccessTypeOK
<1>3. ASSUME NEW t \in Trx, NEW r \in Rec, NEW m \in Mode, CopyLeaf(t, r, m) PROVE AccessTypeOK'
  <2>1. /\ op' = [op EXCEPT ![t] = {Call(r, m, FALSE)}]
        /\ leaf' = leaf /\ known' = known
    BY <1>3 DEF CopyLeaf
  <2>2. Call(r, m, FALSE) \in Calls
    BY <1>2, NewCall
  <2> QED BY <1>1, <1>2, <2>1, <2>2, Zenon DEF AccessTypeOK
<1>4. ASSUME NEW t \in Trx, Acquire(t) PROVE AccessTypeOK'
  <2>1. PICK c \in op[t] : op' = [op EXCEPT ![t] = {[c EXCEPT !.locked = TRUE]}]
    BY <1>4 DEF Acquire
  <2>2. leaf' = leaf /\ known' = known
    BY <1>4 DEF Acquire
  <2> DEFINE d == [c EXCEPT !.locked = TRUE]
  <2>3. d \in Calls
    <3>1. c \in Calls
      BY <1>2
    <3> HIDE DEF d
    <3>2. d = [c EXCEPT !.locked = TRUE]
      BY DEF d
    <3> QED BY <3>1, <3>2, CallFields
  <2> HIDE DEF d
  <2>4. op' = [op EXCEPT ![t] = {d}]
    BY <2>1 DEF d
  <2> QED BY <1>1, <1>2, <2>2, <2>3, <2>4 DEF AccessTypeOK
<1>5. ASSUME NEW t \in Trx, Answer(t) PROVE AccessTypeOK'
  <2>1. PICK c \in op[t] : known' = [known EXCEPT ![t][c.rec] = {c.copy[c.rec]}]
    BY <1>5 DEF Answer
  <2>2. op' = [op EXCEPT ![t] = {}] /\ leaf' = leaf
    BY <1>5 DEF Answer
  <2>3. c.rec \in Rec /\ c.copy[c.rec] \in Values
    <3>1. c \in Calls
      BY <1>2
    <3>2. c.rec \in Rec /\ c.copy \in [OnPage(c.rec) -> Values]
      BY <3>1, CallFields
    <3> QED BY <3>2 DEF OnPage
  <2> QED BY <1>1, <1>2, <2>1, <2>2, <2>3 DEF AccessTypeOK
<1>6. ASSUME NEW t \in Trx, WriteBack(t) PROVE AccessTypeOK'
  <2>1. PICK c \in op[t] :
          /\ leaf' = [r \in Rec |-> IF r = c.rec THEN t
                                    ELSE IF r \in OnPage(c.rec) THEN c.copy[r] ELSE leaf[r]]
          /\ known' = [known EXCEPT ![t][c.rec] = {t}]
    BY <1>6 DEF WriteBack
  <2>2. op' = [op EXCEPT ![t] = {}]
    BY <1>6 DEF WriteBack
  <2>3. c.rec \in Rec /\ \A s \in OnPage(c.rec) : c.copy[s] \in Values
    <3>1. c \in Calls
      BY <1>2
    <3>2. c.rec \in Rec /\ c.copy \in [OnPage(c.rec) -> Values]
      BY <3>1, CallFields
    <3> QED BY <3>2
  <2>4. t \in Values
    BY DEF Values
  <2> QED BY <1>1, <1>2, <2>1, <2>2, <2>3, <2>4 DEF AccessTypeOK
<1>7. CASE UNCHANGED recordVars
  BY <1>1, <1>2, <1>7 DEF recordVars, AccessTypeOK
<1> QED
  BY <1>3, <1>4, <1>5, <1>6, <1>7 DEF AccessNext, Commit, Commits, allVars

-----------------------------------------------------------------------------
(* Values stay settled.                                                    *)

\* What a transaction has committed stays committed, and a lock that covers a
\* request covers it until then.
LEMMA CommittedStays ==
  ASSUME TypeOK, [Next]_vars, NEW t \in Trx, Committed(t)
  PROVE  Committed(t)'
<1>1. pc \in [Trx -> Phases]
  BY DEF TypeOK
<1>2. ASSUME NEW u \in Trx, NEW r \in Rec, NEW m \in Mode, LockAcquire(u, r, m)
      PROVE  Committed(t)'
  BY <1>1, <1>2 DEF LockAcquire, AcquireHeld, AcquireUpgrade, AcquireNew, vars, Committed
<1>3. ASSUME NEW u \in Trx, NEW r \in Rec, NEW i \in DOMAIN queue[r], WakeUp(u, r, i)
      PROVE  Committed(t)'
  BY <1>1, <1>3 DEF WakeUp, Committed
<1>4. ASSUME NEW u \in Trx, NEW r \in Rec, NEW i \in DOMAIN queue[r], LockRelease(u, r, i)
      PROVE  Committed(t)'
  BY <1>4 DEF LockRelease, Committed
<1>5. ASSUME NEW u \in Trx, TrxBegin(u) \/ CommitBegin(u) \/ CommitEnd(u)
      PROVE  Committed(t)'
  BY <1>1, <1>5 DEF TrxBegin, CommitBegin, CommitEnd, Committed
<1>6. CASE UNCHANGED vars
  BY <1>6 DEF vars, Committed
<1> QED BY <1>2, <1>3, <1>4, <1>5, <1>6 DEF Next

LEMMA CoveringStays ==
  ASSUME TypeOK, [Next]_vars, NEW t \in Trx, ~Committed(t), NEW r \in Rec, NEW m,
         Covering(queue[r], t, m) # {}
  PROVE  Covering(queue[r], t, m)' # {}
<1>1. PICK i \in DOMAIN queue[r] :
        queue[r][i].trx = t /\ (m = "S" \/ queue[r][i].mode = "X")
  BY DEF Covering, Own
<1>2. Placed(r, t)
  BY ObjectsStay DEF Committed
<1>3. PICK j \in DOMAIN queue'[r] :
        queue'[r][j].trx = t /\ (queue[r][i].mode = "X" => queue'[r][j].mode = "X")
  BY <1>1, <1>2 DEF Placed
<1> QED BY <1>1, <1>3 DEF Covering, Own

LEMMA HoldsXStays ==
  ASSUME TypeOK, [Next]_vars, NEW t \in Trx, ~Committed(t), NEW r \in Rec, HoldsX(t, r)
  PROVE  HoldsX(t, r)'
<1>1. PICK i \in DOMAIN queue[r] :
        queue[r][i].trx = t /\ Granted(queue[r][i]) /\ queue[r][i].mode = "X"
  BY DEF HoldsX, Own
<1>2. Placed(r, t)
  BY ObjectsStay DEF Committed
<1>3. PICK j \in DOMAIN queue'[r] :
        queue'[r][j].trx = t /\ Granted(queue'[r][j]) /\ queue'[r][j].mode = "X"
  BY <1>1, <1>2 DEF Placed
<1> QED BY <1>3 DEF HoldsX, Own, Granted

LEMMA SettledStays ==
  ASSUME TypeOK, [Next]_vars, NEW v, NEW r \in Rec, Settled(v, r)
  PROVE  Settled(v, r)'
<1> SUFFICES ASSUME v \in Trx PROVE Committed(v)' \/ HoldsX(v, r)'
  BY DEF Settled
<1>1. CASE Committed(v)
  BY <1>1, CommittedStays
<1>2. CASE ~Committed(v)
  BY <1>2, HoldsXStays DEF Settled
<1> QED BY <1>1, <1>2

HoldsFor(t, r, m) ==
  \E i \in DOMAIN queue[r] :
    queue[r][i].trx = t /\ Granted(queue[r][i]) /\ (m = "S" \/ queue[r][i].mode = "X")

\* A call that has left lock_acquire and whose thread runs has its lock granted.
LEMMA LockedGranted ==
  ASSUME WaitInv, NEW t \in Trx, pc[t] # "waiting", NEW r \in Rec, NEW m,
         Covering(queue[r], t, m) # {}
  PROVE  HoldsFor(t, r, m)
<1>1. PICK i \in DOMAIN queue[r] :
        queue[r][i].trx = t /\ (m = "S" \/ queue[r][i].mode = "X")
  BY DEF Covering, Own
<1>2. queue[r][i].wait = "no"
  BY <1>1 DEF WaitInv
<1> QED BY <1>1, <1>2 DEF Granted, HoldsFor

\* While one transaction holds the exclusive lock nobody else's is granted.
LEMMA HoldsXAlone ==
  ASSUME LockTableInv, NEW r \in Rec, NEW t \in Trx, HoldsX(t, r),
         NEW i \in DOMAIN queue[r], Granted(queue[r][i])
  PROVE  queue[r][i].trx = t
<1>1. queue[r] \in Seq(Lock) /\ QueueInv(queue[r])
  BY DEF LockTableInv, TypeOK
<1>2. PICK j \in DOMAIN queue[r] :
        queue[r][j].trx = t /\ Granted(queue[r][j]) /\ queue[r][j].mode = "X"
  BY DEF HoldsX, Own
<1>3. DOMAIN queue[r] = 1 .. Len(queue[r]) /\ Len(queue[r]) \in Nat
  BY <1>1, ListIsFunction
<1>4. i = j \/ i < j \/ j < i
  BY <1>3
<1> QED BY <1>1, <1>2, <1>3, <1>4 DEF QueueInv

\* lock_acquire returns, or sleeps, with an object that serves the request.
LEMMA AcquireCovers ==
  ASSUME LockTableInv, LockTableInv', NEW t \in Trx, NEW r \in Rec, NEW m \in Mode,
         LockAcquire(t, r, m)
  PROVE  Covering(queue[r], t, m)' # {}
<1>1. queue \in [Rec -> Seq(Lock)] /\ queue[r] \in Seq(Lock) /\ queue'[r] \in Seq(Lock)
  BY DEF LockTableInv, TypeOK
<1>2. CASE AcquireHeld(t, r, m)
  BY <1>2 DEF AcquireHeld, vars
<1>3. CASE AcquireUpgrade(t, r, m)
  <2> DEFINE n == Len(queue[r])
  <2>1. /\ queue'[r] = [queue[r] EXCEPT ![n].mode = "X"]
        /\ Own(queue[r], t) # {} /\ Others(queue[r], t) = {}
    BY <1>1, <1>3 DEF AcquireUpgrade
  <2>2. n \in DOMAIN queue[r] /\ queue[r][n].trx = t
    <3>1. DOMAIN queue[r] = 1 .. Len(queue[r]) /\ Len(queue[r]) \in Nat
      BY <1>1, ListIsFunction
    <3>2. DOMAIN queue[r] # {} /\ \A i \in DOMAIN queue[r] : queue[r][i].trx = t
      BY <2>1 DEF Own, Others
    <3> QED BY <3>1, <3>2
  <2>3. queue[r][n] \in Lock
    BY <1>1, <2>2, ListIsFunction
  <2>4. [queue[r][n] EXCEPT !.mode = "X"].mode = "X"
    BY <2>3 DEF Lock
  <2> HIDE DEF n
  <2>5. n \in DOMAIN queue'[r] /\ queue'[r][n].trx = t /\ queue'[r][n].mode = "X"
    <3>1. DOMAIN queue'[r] = DOMAIN queue[r] /\ queue'[r][n].trx = queue[r][n].trx
      BY <1>1, <2>1, <2>2, UpgradeKeepsOthers
    <3>2. queue'[r][n] = [queue[r][n] EXCEPT !.mode = "X"]
      BY <2>1, <2>2
    <3> QED BY <2>2, <2>4, <3>1, <3>2
  <2> QED BY <2>5 DEF Covering, Own
<1>4. CASE AcquireNew(t, r, m)
  <2> DEFINE new == NewLock(t, m, GrantedOnArrival(queue[r], t, m))
             n == Len(queue[r]) + 1
  <2>1. queue'[r] = Append(queue[r], new)
    BY <1>1, <1>4 DEF AcquireNew
  <2>2. new.trx = t /\ new.mode = m
    BY DEF NewLock
  <2> HIDE DEF new
  <2>3. n \in DOMAIN queue'[r] /\ queue'[r][n] = new
    BY <1>1, <2>1
  <2> HIDE DEF n
  <2> QED BY <2>2, <2>3 DEF Covering, Own, Mode
<1> QED BY <1>2, <1>3, <1>4 DEF LockAcquire

-----------------------------------------------------------------------------
(* The inductive invariant.                                                *)

IInv == LockTableInv /\ WaitInv /\ AccessTypeOK /\ AccessInv

\* A call that is not touched by a step of the lock table keeps its invariant.
LEMMA CallStays ==
  ASSUME TypeOK, [Next]_vars, leaf' = leaf, NEW t \in Trx, NEW c \in Calls, CallInv(t, c),
         ~Committed(t)'
  PROVE  CallInv(t, c)'
<1>1. c.rec \in Rec /\ \A s \in OnPage(c.rec) : s \in Rec
  BY CallFields DEF OnPage
<1>2. c.locked => Covering(queue[c.rec], t, c.mode)' # {}
  BY <1>1, CoveringStays DEF CallInv
<1>3. \A s \in OnPage(c.rec) : Settled(c.copy[s], s)'
  BY <1>1, SettledStays DEF CallInv
<1> QED BY <1>2, <1>3 DEF CallInv

LEMMA KnownStays ==
  ASSUME TypeOK, [Next]_vars, leaf' = leaf, NEW t \in Trx, NEW r \in Rec, KnownInv(t, r),
         known'[t][r] = known[t][r]
  PROVE  KnownInv(t, r)'
<1>1. Committed(t) => Committed(t)'
  BY CommittedStays
<1> QED BY <1>1 DEF KnownInv

LEMMA LeafStays ==
  ASSUME TypeOK, [Next]_vars, leaf' = leaf, \A r \in Rec : Settled(leaf[r], r)
  PROVE  \A r \in Rec : Settled(leaf[r], r)'
  BY SettledStays

\* The steps of the lock table that no call takes.
LEMMA LockStepKeepsAccess ==
  ASSUME IInv, [Next]_vars, UNCHANGED recordVars,
         \A t \in Trx : op[t] # {} /\ ~Committed(t) => ~Committed(t)'
  PROVE  AccessInv'
<1>1. /\ TypeOK /\ leaf' = leaf /\ op' = op /\ known' = known /\ op \in [Trx -> SUBSET Calls]
  BY DEF IInv, LockTableInv, AccessTypeOK, recordVars
<1>2. \A r \in Rec : Settled(leaf[r], r)'
  BY <1>1, LeafStays DEF IInv, AccessInv
<1>3. \A t \in Trx : \A c \in op[t] : CallInv(t, c)'
  <2> SUFFICES ASSUME NEW t \in Trx, NEW c \in op[t] PROVE CallInv(t, c)'
    OBVIOUS
  <2>1. CallInv(t, c) /\ c \in Calls
    BY <1>1 DEF IInv, AccessInv
  <2>2. ~Committed(t)'
    BY <2>1 DEF CallInv
  <2> QED BY <1>1, <2>1, <2>2, CallStays
<1>4. \A t \in Trx, r \in Rec : KnownInv(t, r)'
  BY <1>1, KnownStays DEF IInv, AccessInv
<1> QED BY <1>1, <1>2, <1>3, <1>4 DEF AccessInv

\* A call that begins copies what is settled.
LEMMA CopyKeepsAccess ==
  ASSUME IInv, NEW t \in Trx, NEW r \in Rec, NEW m \in Mode, CopyLeaf(t, r, m)
  PROVE  AccessInv'
<1>1. /\ TypeOK /\ leaf \in [Rec -> Values] /\ op \in [Trx -> SUBSET Calls]
  BY DEF IInv, LockTableInv, AccessTypeOK
<1>2. /\ pc[t] = "running" /\ UNCHANGED vars /\ leaf' = leaf /\ known' = known
      /\ op' = [op EXCEPT ![t] = {Call(r, m, FALSE)}]
  BY DEF CopyLeaf
<1>3. PICK new \in Calls : /\ new = Call(r, m, FALSE) /\ new.rec = r /\ new.locked = FALSE
                           /\ \A s \in OnPage(r) : new.copy[s] = leaf[s]
  BY <1>1, NewCall
<1>4. \A s \in Rec : Settled(leaf[s], s)'
  BY <1>1, <1>2, LeafStays DEF IInv, AccessInv
<1>5. CallInv(t, new)'
  <2>1. r \in OnPage(r) /\ OnPage(r) \subseteq Rec
    BY DEF OnPage
  <2>2. ~Committed(t)'
    BY <1>2 DEF vars, Committed
  <2>3. \A s \in OnPage(r) : Settled(new.copy[s], s)'
    <3>1. \A s \in OnPage(r) : Settled(leaf[s], s)
      BY <2>1 DEF IInv, AccessInv
    <3> QED BY <1>1, <1>2, <1>3, <2>1, <3>1, SettledStays
  <2> QED BY <1>2, <1>3, <2>1, <2>2, <2>3 DEF CallInv
<1>6. ASSUME NEW u \in Trx, NEW c \in op'[u] PROVE CallInv(u, c)'
  <2>1. (u = t /\ c = new) \/ c \in op[u]
    BY <1>1, <1>2, <1>3
  <2>2. CASE c \in op[u]
    <3>1. CallInv(u, c) /\ c \in Calls
      BY <1>1, <2>2 DEF IInv, AccessInv
    <3>2. ~Committed(u)'
      BY <1>2, <3>1 DEF vars, CallInv, Committed
    <3> QED BY <1>1, <1>2, <3>1, <3>2, CallStays
  <2> QED BY <1>5, <2>1, <2>2
<1>7. \A u \in Trx, s \in Rec : KnownInv(u, s)'
  BY <1>1, <1>2, KnownStays DEF IInv, AccessInv
<1> QED BY <1>4, <1>6, <1>7 DEF AccessInv

\* lock_acquire: the call has its object from now on.
LEMMA AcquireKeepsAccess ==
  ASSUME IInv, LockTableInv', [Next]_vars, NEW t \in Trx, Acquire(t)
  PROVE  AccessInv'
<1>1. /\ TypeOK /\ op \in [Trx -> SUBSET Calls] /\ pc \in [Trx -> Phases]
      /\ \A u \in Trx : \A c, d \in op[u] : c = d
  BY DEF IInv, LockTableInv, AccessTypeOK, TypeOK
<1>2. PICK c \in op[t] : /\ LockAcquire(t, c.rec, c.mode)
                         /\ op' = [op EXCEPT ![t] = {[c EXCEPT !.locked = TRUE]}]
  BY DEF Acquire
<1>3. leaf' = leaf /\ known' = known
  BY DEF Acquire
<1> DEFINE d == [c EXCEPT !.locked = TRUE]
<1>4. c \in Calls /\ c.rec \in Rec /\ c.mode \in Mode /\ CallInv(t, c)
  <2>1. c \in Calls
    BY <1>1
  <2> QED BY <2>1, CallFields DEF IInv, AccessInv
<1>5. op' = [op EXCEPT ![t] = {d}]
  BY <1>2
<1> HIDE DEF d
<1>6. d \in Calls /\ d.rec = c.rec /\ d.mode = c.mode /\ d.copy = c.copy
  BY <1>4, CallFields DEF d
<1>7. \A u \in Trx : ~Committed(u) => ~Committed(u)'
  BY <1>1, <1>2 DEF LockAcquire, AcquireHeld, AcquireUpgrade, AcquireNew, vars, Committed
<1>8. CallInv(t, d)'
  <2>1. Covering(queue[c.rec], t, c.mode)' # {}
    BY <1>2, <1>4, AcquireCovers DEF IInv
  <2>2. CallInv(t, c)'
    BY <1>1, <1>3, <1>4, <1>7, CallStays DEF CallInv
  <2> QED BY <1>6, <2>1, <2>2 DEF CallInv
<1>9. ASSUME NEW u \in Trx, NEW e \in op'[u] PROVE CallInv(u, e)'
  <2>1. (u = t /\ e = d) \/ e \in op[u]
    BY <1>1, <1>5
  <2>2. CASE e \in op[u]
    <3>1. CallInv(u, e) /\ e \in Calls
      BY <1>1, <2>2 DEF IInv, AccessInv
    <3> QED BY <1>1, <1>3, <1>7, <3>1, CallStays DEF CallInv
  <2> QED BY <1>8, <2>1, <2>2
<1>10. \A s \in Rec : Settled(leaf[s], s)'
  BY <1>1, <1>3, LeafStays DEF IInv, AccessInv
<1>11. \A u \in Trx, s \in Rec : KnownInv(u, s)'
  BY <1>1, <1>3, KnownStays DEF IInv, AccessInv
<1> QED BY <1>9, <1>10, <1>11 DEF AccessInv

\* db_find answers what its copy holds.
LEMMA AnswerKeepsAccess ==
  ASSUME IInv, NEW t \in Trx, Answer(t)
  PROVE  AccessInv'
<1>1. /\ TypeOK /\ op \in [Trx -> SUBSET Calls] /\ known \in [Trx -> [Rec -> SUBSET Values]]
  BY DEF IInv, LockTableInv, AccessTypeOK
<1>2. PICK c \in op[t] : known' = [known EXCEPT ![t][c.rec] = {c.copy[c.rec]}]
  BY DEF Answer
<1>3. UNCHANGED vars /\ leaf' = leaf /\ op' = [op EXCEPT ![t] = {}]
  BY DEF Answer
<1>4. c \in Calls /\ c.rec \in Rec /\ CallInv(t, c)
  <2>1. c \in Calls
    BY <1>1
  <2> QED BY <2>1, CallFields DEF IInv, AccessInv
<1>5. \A s \in Rec : Settled(leaf[s], s)'
  BY <1>1, <1>3, LeafStays DEF IInv, AccessInv
<1>6. ASSUME NEW u \in Trx, NEW e \in op'[u] PROVE CallInv(u, e)'
  <2>1. e \in op[u]
    BY <1>1, <1>3
  <2>2. CallInv(u, e) /\ e \in Calls
    BY <1>1, <2>1 DEF IInv, AccessInv
  <2>3. ~Committed(u)'
    BY <1>3, <2>2 DEF vars, CallInv, Committed
  <2> QED BY <1>1, <1>3, <2>2, <2>3, CallStays
<1>7. ASSUME NEW u \in Trx, NEW s \in Rec PROVE KnownInv(u, s)'
  <2>1. CASE u = t /\ s = c.rec
    <3>1. known'[u][s] = {c.copy[c.rec]}
      BY <1>1, <1>2, <2>1
    <3>2. ~Committed(u) /\ (Alone(s) /\ c.copy[c.rec] = u => leaf[s] = u)
      BY <1>4, <2>1 DEF CallInv
    <3> QED BY <1>3, <3>1, <3>2 DEF KnownInv
  <2>2. CASE ~(u = t /\ s = c.rec)
    <3>1. known'[u][s] = known[u][s]
      BY <1>1, <1>2, <2>2
    <3> QED BY <1>1, <1>3, <3>1, KnownStays DEF IInv, AccessInv
  <2> QED BY <2>1, <2>2
<1> QED BY <1>5, <1>6, <1>7 DEF AccessInv

\* db_update writes back while it holds the exclusive lock: nobody else's own
\* value of that record is lost.
LEMMA WriteBackKeepsAccess ==
  ASSUME IInv, NEW t \in Trx, WriteBack(t)
  PROVE  AccessInv'
<1>1. /\ TypeOK /\ op \in [Trx -> SUBSET Calls] /\ known \in [Trx -> [Rec -> SUBSET Values]]
  BY DEF IInv, LockTableInv, AccessTypeOK
<1>2. PICK c \in op[t] :
        /\ pc[t] = "running" /\ c.locked /\ c.mode = "X"
        /\ leaf' = [r \in Rec |-> IF r = c.rec THEN t
                                  ELSE IF r \in OnPage(c.rec) THEN c.copy[r] ELSE leaf[r]]
        /\ known' = [known EXCEPT ![t][c.rec] = {t}]
  BY DEF WriteBack
<1>3. UNCHANGED vars /\ op' = [op EXCEPT ![t] = {}]
  BY DEF WriteBack
<1>4. c \in Calls /\ c.rec \in Rec /\ CallInv(t, c)
  <2>1. c \in Calls
    BY <1>1
  <2> QED BY <2>1, CallFields DEF IInv, AccessInv
<1>5. HoldsX(t, c.rec)
  <2>1. Covering(queue[c.rec], t, c.mode) # {}
    BY <1>2, <1>4 DEF CallInv
  <2>2. PICK i \in DOMAIN queue[c.rec] :
          /\ queue[c.rec][i].trx = t /\ Granted(queue[c.rec][i])
          /\ c.mode = "S" \/ queue[c.rec][i].mode = "X"
    <3> DEFINE r == c.rec
               m == c.mode
    <3>1. WaitInv /\ r \in Rec /\ pc[t] # "waiting" /\ Covering(queue[r], t, m) # {}
      BY <1>2, <1>4, <2>1 DEF IInv
    <3> HIDE DEF r, m
    <3>2. HoldsFor(t, r, m)
      BY <3>1, LockedGranted
    <3> QED BY <3>2 DEF r, m, HoldsFor
  <2> QED BY <1>2, <2>2 DEF HoldsX, Own
<1>6. \A v, s : (Settled(v, s) <=> Settled(v, s)') /\ (Committed(v) <=> Committed(v)')
  BY <1>3 DEF vars, Settled, Committed, HoldsX, Own, Granted
<1>7. ASSUME NEW s \in Rec PROVE Settled(leaf[s], s)'
  <2>1. CASE s = c.rec
    BY <1>2, <1>5, <1>6, <2>1 DEF Settled
  <2>2. CASE s # c.rec /\ s \in OnPage(c.rec)
    BY <1>2, <1>4, <1>6, <2>2 DEF CallInv
  <2>3. CASE s # c.rec /\ s \notin OnPage(c.rec)
    BY <1>2, <1>6, <2>3 DEF IInv, AccessInv
  <2> QED BY <2>1, <2>2, <2>3
\* The value of a record that is alone on its page and that u has written stays.
<1>8. ASSUME NEW u \in Trx, NEW s \in Rec, Alone(s), ~Committed(u), leaf[s] = u
      PROVE  leaf'[s] = u
  <2>1. CASE s = c.rec
    <3>1. HoldsX(u, s)
      BY <1>8 DEF IInv, AccessInv, Settled
    <3>2. PICK i \in DOMAIN queue[s] : queue[s][i].trx = t /\ Granted(queue[s][i])
      BY <1>5, <2>1 DEF HoldsX, Own
    <3>3. t = u
      BY <3>1, <3>2, HoldsXAlone DEF IInv
    <3> QED BY <1>2, <2>1, <3>3
  <2>2. CASE s # c.rec
    <3>1. s \notin OnPage(c.rec)
      BY <1>4, <1>8, <2>2 DEF Alone, OnPage
    <3> QED BY <1>2, <1>8, <2>2, <3>1
  <2> QED BY <2>1, <2>2
<1>9. ASSUME NEW u \in Trx, NEW e \in op'[u] PROVE CallInv(u, e)'
  <2>1. e \in op[u]
    BY <1>1, <1>3
  <2>2. CallInv(u, e) /\ e \in Calls /\ e.rec \in Rec
    <3>1. e \in Calls
      BY <1>1, <2>1
    <3> QED BY <2>1, <3>1, CallFields DEF IInv, AccessInv
  <2>3. Alone(e.rec) /\ e.copy[e.rec] = u => leaf'[e.rec] = u
    BY <1>8, <2>2 DEF CallInv
  <2>4. e.locked => Covering(queue[e.rec], u, e.mode)' # {}
    BY <1>3, <2>2 DEF CallInv, vars, Covering, Own
  <2> QED BY <1>6, <2>2, <2>3, <2>4 DEF CallInv
<1>10. ASSUME NEW u \in Trx, NEW s \in Rec PROVE KnownInv(u, s)'
  <2>1. CASE u = t /\ s = c.rec
    BY <1>2, <2>1 DEF KnownInv
  <2>2. CASE ~(u = t /\ s = c.rec)
    <3>1. known'[u][s] = known[u][s]
      BY <1>1, <1>2, <2>2
    <3>2. KnownInv(u, s)
      BY DEF IInv, AccessInv
    <3> QED BY <1>6, <1>8, <3>1, <3>2 DEF KnownInv
  <2> QED BY <2>1, <2>2
<1> QED BY <1>7, <1>9, <1>10 DEF AccessInv

LEMMA AccessStep ==
  ASSUME IInv, [AccessNext]_allVars
  PROVE  IInv'
<1>1. [Next]_vars
  BY AccessIsNext DEF IInv
<1>2. LockTableInv' /\ WaitInv' /\ AccessTypeOK'
  BY <1>1, NextInv, WaitStep, AccessTypeStep DEF IInv, LockTableInv
<1>3. pc \in [Trx -> Phases]
  BY DEF IInv, LockTableInv, TypeOK
<1>4. ASSUME NEW t \in Trx, Commit(t) PROVE AccessInv'
  <2>1. /\ op[t] = {} /\ UNCHANGED recordVars
        /\ \A u \in Trx \ {t} : pc'[u] = pc[u]
    BY <1>3, <1>4 DEF Commit, CommitBegin
  <2>2. \A u \in Trx : op[u] # {} /\ ~Committed(u) => ~Committed(u)'
    BY <2>1 DEF Committed
  <2> QED BY <1>1, <2>1, <2>2, LockStepKeepsAccess
<1>5. ASSUME UNCHANGED recordVars,
             \/ \E t \in Trx : \/ TrxBegin(t) \/ Commits(t)
                               \/ \E r \in Rec : \E i \in DOMAIN queue[r] : WakeUp(t, r, i)
             \/ UNCHANGED vars
      PROVE  AccessInv'
  <2>1. \A u \in Trx : ~Committed(u) => ~Committed(u)'
    BY <1>3, <1>5
    DEF TrxBegin, Commits, LockRelease, CommitEnd, WakeUp, vars, Committed
  <2> QED BY <1>1, <1>5, <2>1, LockStepKeepsAccess
<1>6. AccessInv'
  <2>1. ASSUME NEW t \in Trx, Acquire(t) PROVE AccessInv'
    BY <1>1, <1>2, <2>1, AcquireKeepsAccess
  <2>2. ASSUME NEW t \in Trx, NEW r \in Rec, NEW m \in Mode, CopyLeaf(t, r, m) PROVE AccessInv'
    BY <2>2, CopyKeepsAccess
  <2>3. ASSUME NEW t \in Trx, Answer(t) \/ WriteBack(t) PROVE AccessInv'
    BY <2>3, AnswerKeepsAccess, WriteBackKeepsAccess
  <2>4. CASE UNCHANGED allVars
    BY <1>5, <2>4 DEF allVars
  <2>5. ASSUME NEW t \in Trx, TrxBegin(t) /\ UNCHANGED recordVars PROVE AccessInv'
    BY <1>5, <2>5
  <2>6. ASSUME NEW t \in Trx, Commits(t) PROVE AccessInv'
    BY <1>5, <2>6 DEF Commits
  <2>7. ASSUME NEW t \in Trx, NEW r \in Rec, NEW i \in DOMAIN queue[r],
               WakeUp(t, r, i) /\ UNCHANGED recordVars
        PROVE  AccessInv'
    BY <1>5, <2>7
  <2> QED BY <1>4, <2>1, <2>2, <2>3, <2>4, <2>5, <2>6, <2>7 DEF AccessNext
<1> QED BY <1>2, <1>6 DEF IInv

LEMMA AccessInitInv == AccessInit => IInv
<1> SUFFICES ASSUME AccessInit PROVE IInv
  OBVIOUS
<1>1. LockTableInv
  BY InitInv DEF AccessInit
<1>2. WaitInv
  <2>1. DOMAIN << >> = {}
    OBVIOUS
  <2> QED BY <2>1 DEF AccessInit, Init, WaitInv
<1>3. AccessTypeOK
  BY <1>1 DEF AccessInit, AccessTypeOK, LockTableInv, Values
<1>4. AccessInv
  BY RecordAccessAssumption DEF AccessInit, AccessInv, Settled, KnownInv
<1> QED BY <1>1, <1>2, <1>3, <1>4 DEF IInv

LEMMA AccessIInv == AccessSpec => []IInv
<1>1. IInv /\ [AccessNext]_allVars => IInv'
  BY AccessStep
<1> QED BY <1>1, AccessInitInv, PTL DEF AccessSpec

-----------------------------------------------------------------------------
(* What follows.                                                           *)

\* Type correctness of the record operations.
THEOREM AccessTypeCorrect == AccessSpec => []AccessTypeOK
<1>1. IInv => AccessTypeOK
  BY DEF IInv
<1> QED BY <1>1, AccessIInv, PTL

\* Every value in a page or in a copy is committed or locked by its writer, and
\* a call past lock_acquire has its lock object: for any number of transactions,
\* records and pages.
THEOREM AccessInvariant == AccessSpec => []AccessInv
<1>1. IInv => AccessInv
  BY DEF IInv
<1> QED BY <1>1, AccessIInv, PTL

\* The record operations use the lock table as the lock table's own
\* specification lets its clients do, so what is proved of Spec holds for them.
THEOREM AccessDrivesLockTable == AccessSpec => Spec
<1>1. IInv /\ [AccessNext]_allVars => [Next]_vars
  BY AccessIsNext DEF IInv
<1>2. AccessInit => Init
  BY DEF AccessInit
<1> QED BY <1>1, <1>2, AccessIInv, PTL DEF AccessSpec, Spec

\* What db_find answers was written by nobody who may still change it.
LEMMA AnswerIsCommitted ==
  ASSUME IInv, NEW t \in Trx, Answer(t), NEW u \in Trx, t # u, NEW r \in Rec,
         u \in known'[t][r], u \notin known[t][r]
  PROVE  Committed(u)
<1>1. /\ op \in [Trx -> SUBSET Calls] /\ known \in [Trx -> [Rec -> SUBSET Values]]
  BY DEF IInv, AccessTypeOK
<1>2. PICK c \in op[t] : /\ pc[t] = "running" /\ c.locked /\ c.mode = "S"
                         /\ known' = [known EXCEPT ![t][c.rec] = {c.copy[c.rec]}]
  BY DEF Answer
<1>3. c \in Calls /\ c.rec \in Rec /\ CallInv(t, c)
  <2>1. c \in Calls
    BY <1>1
  <2> QED BY <2>1, CallFields DEF IInv, AccessInv
<1>4. r = c.rec /\ u = c.copy[r]
  BY <1>1, <1>2, <1>3
<1>5. Settled(u, r)
  BY <1>3, <1>4 DEF CallInv, OnPage
<1>6. ~HoldsX(u, r)
  <2> SUFFICES ASSUME HoldsX(u, r) PROVE FALSE
    OBVIOUS
  <2>1. Covering(queue[r], t, c.mode) # {}
    BY <1>2, <1>3, <1>4 DEF CallInv
  <2>2. PICK i \in DOMAIN queue[r] : queue[r][i].trx = t /\ Granted(queue[r][i])
    <3>1. HoldsFor(t, r, c.mode)
      BY <1>2, <2>1, LockedGranted DEF IInv
    <3> QED BY <3>1 DEF HoldsFor
  <2> QED BY <2>2, HoldsXAlone DEF IInv
<1> QED BY <1>5, <1>6 DEF Settled

\* No dirty reads: what a transaction learns of another's writing was written by
\* one that has begun to commit, whichever records share a leaf page.
THEOREM NoDirtyReadHolds == AccessSpec => NoDirtyRead
<1>1. IInv /\ [AccessNext]_allVars =>
        [\A t, u \in Trx, r \in Rec :
           t # u /\ u \in known'[t][r] /\ u \notin known[t][r] =>
             pc[u] \in {"committing", "ended"}]_allVars
  <2> SUFFICES ASSUME IInv, AccessNext, NEW t \in Trx, NEW u \in Trx, NEW r \in Rec,
                      t # u, u \in known'[t][r], u \notin known[t][r]
               PROVE  Committed(u)
    BY DEF Committed
  <2>1. known \in [Trx -> [Rec -> SUBSET Values]] /\ op \in [Trx -> SUBSET Calls]
    BY DEF IInv, AccessTypeOK
  <2>2. known' # known
    OBVIOUS
  <2>3. ASSUME NEW v \in Trx, Answer(v) PROVE Committed(u)
    <3>1. v = t
      BY <2>1, <2>3 DEF Answer
    <3> QED BY <2>3, <3>1, AnswerIsCommitted
  <2>4. ASSUME NEW v \in Trx, WriteBack(v) PROVE FALSE
    <3>1. PICK c \in op[v] : known' = [known EXCEPT ![v][c.rec] = {v}]
      BY <2>4 DEF WriteBack
    <3> QED BY <2>1, <3>1
  <2> QED
    BY <2>2, <2>3, <2>4
    DEF AccessNext, CopyLeaf, Acquire, Commit, Commits, recordVars
<1> QED BY <1>1, AccessIInv, PTL DEF AccessSpec, NoDirtyRead

\* Where every leaf page holds one record, an update keeps until its transaction
\* commits.  (With two records on a page it does not: run lost_update.)
THEOREM UpdatesStayAlone ==
  ASSUME \A r \in Rec : Alone(r)
  PROVE  AccessSpec => []UpdatesStay
<1>1. IInv => UpdatesStay
  BY DEF IInv, AccessInv, KnownInv, Committed, UpdatesStay
<1> QED BY <1>1, AccessIInv, PTL

================================================================================
