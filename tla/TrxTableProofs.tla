---------------------------- MODULE TrxTableProofs ----------------------------
(***************************************************************************)
(* Proofs about the transaction table, for any set of sessions and any     *)
(* bound on the number of transactions.                                    *)
(***************************************************************************)
EXTENDS TrxTable, TLAPS

\* What a typed state says of the ids in it.
LEMMA IdTypes ==
  ASSUME TypeOK
  PROVE  /\ trx_id \in Nat
         /\ \A s \in Session : mine[s] \in Nat /\ (mine[s] # 0 => mine[s] \in Ids)
         /\ \A i \in entries : i \in Nat /\ i > 0
         /\ trx_id > 0 => trx_id \in Ids
  BY TrxTableAssumption DEF TypeOK, Ids

\* The result of a lookup: an entry that is found is there, and one that is
\* there is missed only while the map is being changed.
LEMMA LookupResult ==
  ASSUME NEW i, NEW entry \in Lookup(i)
  PROVE  /\ entry \in {"found", "missing", "lost"}
         /\ entry = "found" => i \in entries
         /\ entry # "found" => i \notin entries \/ ~LatchFree
  BY DEF Lookup

LEMMA TableInitInv == Init => TrxTableInv
<1> SUFFICES ASSUME Init PROVE TrxTableInv
  OBVIOUS
<1>1. TypeOK
  <2>1. overlapped \in BOOLEAN /\ raced \in BOOLEAN
    BY Zenon DEF Init
  <2>2. pc \in [Session -> {"idle", "inserting", "returning", "running", "committing", "erasing"}]
    BY DEF Init
  <2>3. mine \in [Session -> 0 .. MaxTrx] /\ trx_id \in 0 .. MaxTrx
    BY TrxTableAssumption DEF Init
  <2>4. /\ entries \subseteq Ids /\ locked \subseteq Ids
        /\ process \in {"up", "exit", "crash"}
    BY DEF Init
  <2> QED BY <2>1, <2>2, <2>3, <2>4 DEF TypeOK
<1>2. TableInv /\ SerialInv /\ StaysUp
  BY DEF Init, TableInv, SerialInv, StaysUp, UniqueIds, InTrx, Begins, Changes
<1>3. EntriesAreLive
  BY DEF Init, EntriesAreLive, InTrx
<1> QED BY <1>1, <1>2, <1>3 DEF TrxTableInv

-----------------------------------------------------------------------------
(* Each action keeps the invariant.                                        *)

LEMMA BeginLockKeeps ==
  ASSUME TrxTableInv, process = "up", NEW s \in Session, BeginLock(s)
  PROVE  TrxTableInv'
<1>1. TypeOK /\ TableInv /\ SerialInv /\ EntriesAreLive
  BY DEF TrxTableInv
<1>2. /\ pc[s] = "idle" /\ \A u \in Session : ~Changes(u)
      /\ trx_id' = trx_id + 1 /\ trx_id < MaxTrx
      /\ pc' = [pc EXCEPT ![s] = "inserting"]
      /\ overlapped' = (overlapped \/ \E u \in Session : pc[u] = "returning")
      /\ UNCHANGED <<entries, locked, mine, process, raced>>
  BY DEF BeginLock, LatchFree
<1>3. /\ overlapped' \in BOOLEAN
      /\ ~overlapped' => ~overlapped /\ \A u \in Session : ~Begins(u)
  BY <1>2, Zenon DEF Begins, Changes
<1>4. TypeOK'
  BY <1>3, <1>1, <1>2, TrxTableAssumption DEF TypeOK, Ids
<1>5. TableInv'
  BY <1>1, <1>2, IdTypes DEF TableInv, TypeOK, InTrx, Begins, Changes
<1>6. SerialInv'
  <2>1. SUFFICES ASSUME ~overlapped' PROVE SerialInv'
    BY DEF SerialInv
  <2>2. \A u \in Session : Begins(u)' => u = s
    BY <1>3, <1>1, <1>2, <2>1 DEF TypeOK, Begins
  <2>3. \A u \in Session : mine'[u] < trx_id'
    BY <1>1, <1>2, IdTypes DEF TableInv
  <2>4. UniqueIds'
    BY <1>3, <1>1, <1>2, <2>1 DEF SerialInv, UniqueIds, TypeOK, InTrx
  <2> QED BY <2>2, <2>3, <2>4 DEF SerialInv
<1>7. EntriesAreLive'
  <2>1. SUFFICES ASSUME ~overlapped' PROVE EntriesAreLive'
    BY DEF EntriesAreLive
  <2>2. ~overlapped /\ \A u \in Session : pc[u] # "returning" /\ pc'[u] # "returning"
    BY <1>3, <1>1, <1>2, <2>1 DEF TypeOK, Begins
  <2>3. \A u \in Session : InTrx(u)' <=> InTrx(u)
    BY <1>1, <1>2 DEF TypeOK, InTrx
  <2> QED BY <1>1, <1>2, <2>2, <2>3 DEF EntriesAreLive
<1>8. StaysUp'
  BY <1>2 DEF StaysUp
<1> QED BY <1>4, <1>5, <1>6, <1>7, <1>8 DEF TrxTableInv

LEMMA BeginInsertKeeps ==
  ASSUME TrxTableInv, process = "up", NEW s \in Session, BeginInsert(s)
  PROVE  TrxTableInv'
<1>1. TypeOK /\ TableInv /\ SerialInv /\ EntriesAreLive
  BY DEF TrxTableInv
<1>2. /\ pc[s] = "inserting"
      /\ entries' = entries \union {trx_id}
      /\ pc' = [pc EXCEPT ![s] = "returning"]
      /\ UNCHANGED <<trx_id, locked, mine, process, overlapped, raced>>
  BY DEF BeginInsert
<1>3. trx_id \in Ids
  BY <1>1, <1>2, IdTypes DEF TableInv, Begins
<1>4. TypeOK'
  BY <1>1, <1>2, <1>3 DEF TypeOK
<1>5. TableInv'
  BY <1>1, <1>2, IdTypes DEF TableInv, TypeOK, InTrx, Begins, Changes
<1>6. SerialInv'
  BY <1>1, <1>2 DEF SerialInv, UniqueIds, TypeOK, InTrx, Begins
<1>7. EntriesAreLive'
  <2>1. SUFFICES ASSUME ~overlapped PROVE EntriesAreLive'
    BY <1>2 DEF EntriesAreLive
  <2>2. \A u \in Session : /\ pc[u] # "returning"
                           /\ pc'[u] = "returning" <=> u = s
                           /\ InTrx(u)' <=> InTrx(u)
    BY <1>1, <1>2, <2>1 DEF TypeOK, InTrx, SerialInv, Begins
  <2> QED BY <1>1, <1>2, <2>1, <2>2 DEF EntriesAreLive
<1>8. StaysUp'
  BY <1>2 DEF StaysUp
<1> QED BY <1>4, <1>5, <1>6, <1>7, <1>8 DEF TrxTableInv

LEMMA BeginReturnKeeps ==
  ASSUME TrxTableInv, process = "up", NEW s \in Session, BeginReturn(s)
  PROVE  TrxTableInv'
<1>1. TypeOK /\ TableInv /\ SerialInv /\ EntriesAreLive
  BY DEF TrxTableInv
<1>2. /\ pc[s] = "returning" /\ UNCHANGED <<trx_id, entries, locked, overlapped>>
      /\ raced' = (raced \/ ~LatchFree)
  BY DEF BeginReturn, Unlatched
<1>3. raced' \in BOOLEAN /\ (~raced' => ~raced /\ LatchFree)
  BY <1>2, Zenon
<1>4. PICK entry \in Lookup(trx_id) :
        IF entry = "found" THEN /\ mine' = [mine EXCEPT ![s] = trx_id]
                                /\ pc' = [pc EXCEPT ![s] = "running"]
                                /\ UNCHANGED process
                           ELSE /\ process' = "crash"
                                /\ UNCHANGED <<mine, pc>>
  BY DEF BeginReturn
<1>5. CASE entry = "found"
  <2>1. /\ mine' = [mine EXCEPT ![s] = trx_id] /\ pc' = [pc EXCEPT ![s] = "running"]
        /\ process' = process
    BY <1>4, <1>5
  <2>2. trx_id \in Ids /\ trx_id \in Nat /\ trx_id > 0
    BY <1>1, <1>2, IdTypes DEF TableInv, Begins
  <2>3. TypeOK'
    BY <1>1, <1>2, <1>3, <2>1, <2>2 DEF TypeOK, Ids
  <2>4. TableInv'
    BY <1>1, <1>2, <2>1, <2>2, IdTypes DEF TableInv, TypeOK, InTrx, Begins, Changes
  <2>5. SerialInv' /\ EntriesAreLive'
    <3>1. SUFFICES ASSUME ~overlapped PROVE SerialInv' /\ EntriesAreLive'
      BY <1>2 DEF SerialInv, EntriesAreLive
    <3>2. \A u \in Session : /\ mine[u] < trx_id
                             /\ ~Begins(u)'
                             /\ pc[u] = "returning" <=> u = s
                             /\ InTrx(u)' <=> InTrx(u) \/ u = s
                             /\ mine'[u] = IF u = s THEN trx_id ELSE mine[u]
      BY <1>1, <1>2, <2>1, <3>1 DEF TypeOK, InTrx, SerialInv, Begins
    <3>3. UniqueIds'
      BY <1>1, <1>2, <2>2, <3>1, <3>2, IdTypes DEF SerialInv, UniqueIds
    <3>4. entries = {mine[u] : u \in {v \in Session : InTrx(v)}} \union {trx_id}
      BY <1>1, <3>1, <3>2 DEF EntriesAreLive
    <3>5. ~InTrx(s)
      BY <1>2 DEF InTrx
    <3>6. {mine'[u] : u \in {v \in Session : InTrx(v)'}} =
            {mine[u] : u \in {v \in Session : InTrx(v)}} \union {trx_id}
      BY <3>2, <3>5
    <3>7. {trx_id' : u \in {v \in Session : pc'[v] = "returning"}} = {}
      BY <3>2 DEF Begins
    <3>8. EntriesAreLive'
      BY <1>2, <3>4, <3>6, <3>7 DEF EntriesAreLive
    <3> QED BY <3>2, <3>3, <3>8 DEF SerialInv
  <2>6. StaysUp'
    BY <2>1 DEF StaysUp
  <2> QED BY <2>3, <2>4, <2>5, <2>6 DEF TrxTableInv
<1>6. CASE entry # "found"
  <2>1. process' = "crash" /\ UNCHANGED <<mine, pc>>
    BY <1>4, <1>6
  <2>2. TypeOK' /\ TableInv' /\ SerialInv' /\ EntriesAreLive'
    BY <1>1, <1>2, <1>3, <2>1
       DEF TypeOK, TableInv, SerialInv, EntriesAreLive, UniqueIds, InTrx, Begins, Changes
  <2>3. overlapped \/ raced'
    <3>1. SUFFICES ASSUME ~overlapped PROVE ~LatchFree
      BY <1>2, Zenon
    <3>2. trx_id \in entries
      BY <1>1, <1>2, <3>1 DEF EntriesAreLive
    <3> QED BY <1>6, <3>2, LookupResult
  <2> QED BY <1>2, <2>2, <2>3 DEF TrxTableInv, StaysUp
<1> QED BY <1>5, <1>6, LookupResult

LEMMA TrxAddKeeps ==
  ASSUME TrxTableInv, process = "up", NEW s \in Session, TrxAdd(s)
  PROVE  TrxTableInv'
<1>1. TypeOK /\ TableInv /\ SerialInv /\ EntriesAreLive
  BY DEF TrxTableInv
<1>2. /\ pc[s] = "running" /\ UNCHANGED <<trx_id, entries, pc, mine, overlapped>>
      /\ raced' = (raced \/ ~LatchFree)
  BY DEF TrxAdd, Unlatched
<1>3. raced' \in BOOLEAN /\ (~raced' => ~raced /\ LatchFree)
  BY <1>2, Zenon
<1>4. PICK entry \in Lookup(mine[s]) :
        \/ entry = "found" /\ locked' = locked \union {mine[s]} /\ UNCHANGED process
        \/ entry = "missing" /\ process' = "exit" /\ UNCHANGED locked
        \/ entry = "lost" /\ process' = "crash" /\ UNCHANGED locked
  BY DEF TrxAdd
<1>5. locked' \subseteq entries /\ process' \in {"up", "exit", "crash"}
  BY <1>1, <1>4, LookupResult DEF TableInv
<1>6. TypeOK'
  BY <1>1, <1>2, <1>3, <1>5 DEF TypeOK
<1>7. TableInv' /\ SerialInv' /\ EntriesAreLive'
  BY <1>1, <1>2, <1>5 DEF TableInv, SerialInv, EntriesAreLive, UniqueIds, InTrx, Begins, Changes
<1>8. overlapped \/ raced' \/ process' = "up"
  <2>1. SUFFICES ASSUME ~overlapped, entry # "found" PROVE ~LatchFree
    <3>1. entry = "found" => process' = "up"
      BY <1>4
    <3> QED BY <1>2, <3>1, Zenon
  <2>2. mine[s] \in entries
    BY <1>1, <1>2, <2>1 DEF EntriesAreLive, InTrx
  <2> QED BY <2>1, <2>2, LookupResult
<1> QED BY <1>2, <1>6, <1>7, <1>8 DEF TrxTableInv, StaysUp

\* A commit takes its own entry out of the table and nobody else's.
LEMMA EraseKeeps ==
  ASSUME TrxTableInv, NEW s \in Session, InTrx(s), Erase(s),
         UNCHANGED <<trx_id, overlapped, raced>>,
         process' \in {"up", "exit", "crash"}
  PROVE  TypeOK' /\ TableInv' /\ SerialInv' /\ EntriesAreLive'
<1>1. TypeOK /\ TableInv /\ SerialInv /\ EntriesAreLive
  BY DEF TrxTableInv
<1>2. /\ entries' = entries \ {mine[s]} /\ locked' = locked \ {mine[s]}
      /\ pc' = [pc EXCEPT ![s] = "idle"] /\ mine' = [mine EXCEPT ![s] = 0]
  BY DEF Erase
<1>3. TypeOK'
  BY <1>1, <1>2, TrxTableAssumption DEF TypeOK
<1>4. TableInv'
  BY <1>1, <1>2, IdTypes DEF TableInv, TypeOK, InTrx, Begins, Changes
<1>5. \A u \in Session : /\ InTrx(u)' <=> InTrx(u) /\ u # s
                         /\ Begins(u)' <=> Begins(u)
                         /\ pc'[u] = "returning" <=> pc[u] = "returning"
                         /\ mine'[u] = IF u = s THEN 0 ELSE mine[u]
  BY <1>1, <1>2 DEF TypeOK, InTrx, Begins
<1>6. SerialInv'
  BY <1>1, <1>5, IdTypes DEF SerialInv, UniqueIds
<1>7. EntriesAreLive'
  <2>1. SUFFICES ASSUME ~overlapped PROVE EntriesAreLive'
    BY DEF EntriesAreLive
  <2> DEFINE R == {trx_id : u \in {v \in Session : pc[v] = "returning"}}
             L == {mine[u] : u \in {v \in Session : InTrx(v)}}
  <2>2. entries = L \union R
    BY <1>1, <2>1 DEF EntriesAreLive
  <2>3. mine[s] \notin R
    BY <1>1, <2>1, IdTypes DEF SerialInv, Begins
  <2>4. {mine'[u] : u \in {v \in Session : InTrx(v)'}} = L \ {mine[s]}
    BY <1>1, <1>5, <2>1 DEF SerialInv, UniqueIds
  <2>5. {trx_id' : u \in {v \in Session : pc'[v] = "returning"}} = R
    BY <1>5
  <2>6. entries' = (L \ {mine[s]}) \union R
    BY <1>2, <2>2, <2>3
  <2> HIDE DEF L, R
  <2> QED BY <2>4, <2>5, <2>6 DEF EntriesAreLive
<1> QED BY <1>3, <1>4, <1>6, <1>7

\* Between its lookup and its erasure a commit only moves on.
LEMMA CommitMoves ==
  ASSUME TrxTableInv, NEW s \in Session, LatchFree,
         pc[s] \in {"running", "committing"}, NEW at \in {"committing", "erasing"},
         pc' = [pc EXCEPT ![s] = at],
         UNCHANGED <<trx_id, entries, locked, mine, process, overlapped, raced>>
  PROVE  TrxTableInv'
<1>1. TypeOK /\ TableInv /\ SerialInv /\ EntriesAreLive
  BY DEF TrxTableInv
<1>2. TypeOK'
  BY <1>1 DEF TypeOK
<1>3. \A u \in Session : /\ InTrx(u)' <=> InTrx(u)
                         /\ Begins(u)' <=> Begins(u)
                         /\ Changes(u)' => u = s
                         /\ pc'[u] = "returning" <=> pc[u] = "returning"
  BY <1>1 DEF TypeOK, InTrx, Begins, Changes, LatchFree
<1>4. TableInv' /\ SerialInv' /\ EntriesAreLive'
  BY <1>1, <1>3 DEF TableInv, SerialInv, EntriesAreLive, UniqueIds
<1> QED BY <1>2, <1>4 DEF TrxTableInv, StaysUp

LEMMA CommitBeginKeeps ==
  ASSUME TrxTableInv, process = "up", NEW s \in Session, CommitBegin(s)
  PROVE  TrxTableInv'
<1>1. TypeOK /\ TableInv /\ SerialInv /\ EntriesAreLive
  BY DEF TrxTableInv
<1>2. /\ pc[s] = "running" /\ LatchFree
      /\ UNCHANGED <<trx_id, entries, locked, mine, overlapped, raced>>
  BY DEF CommitBegin
<1>3. CASE mine[s] \in entries
  BY <1>2, <1>3, CommitMoves DEF CommitBegin
<1>4. CASE mine[s] \notin entries
  <2>1. process' = "exit" /\ UNCHANGED pc
    BY <1>4 DEF CommitBegin
  <2>2. TypeOK' /\ TableInv' /\ SerialInv' /\ EntriesAreLive'
    BY <1>1, <1>2, <2>1
       DEF TypeOK, TableInv, SerialInv, EntriesAreLive, UniqueIds, InTrx, Begins, Changes
  <2>3. overlapped
    BY <1>1, <1>2, <1>4 DEF EntriesAreLive, InTrx
  <2> QED BY <1>2, <2>2, <2>3 DEF TrxTableInv, StaysUp
<1> QED BY <1>3, <1>4

LEMMA CommitReleasedKeeps ==
  ASSUME TrxTableInv, process = "up", NEW s \in Session, CommitReleased(s)
  PROVE  TrxTableInv'
  BY CommitMoves DEF CommitReleased

LEMMA CommitEndKeeps ==
  ASSUME TrxTableInv, process = "up", NEW s \in Session, CommitEnd(s)
  PROVE  TrxTableInv'
<1>1. /\ pc[s] = "erasing" /\ Erase(s) /\ UNCHANGED <<trx_id, overlapped, raced>>
      /\ process' = IF mine[s] \in entries THEN process ELSE "crash"
  BY DEF CommitEnd
<1>2. InTrx(s)
  BY <1>1 DEF InTrx
<1>3. TypeOK' /\ TableInv' /\ SerialInv' /\ EntriesAreLive'
  BY <1>1, <1>2, EraseKeeps
<1>4. overlapped \/ mine[s] \in entries
  BY <1>2 DEF TrxTableInv, EntriesAreLive
<1> QED BY <1>1, <1>3, <1>4 DEF TrxTableInv, StaysUp

-----------------------------------------------------------------------------
(* Theorems.                                                               *)

\* The step lemma: one step of the proof per action of the specification.
LEMMA TableNextInv == TrxTableInv /\ [Next]_vars => TrxTableInv'
<1> SUFFICES ASSUME TrxTableInv, [Next]_vars PROVE TrxTableInv'
  OBVIOUS
<1>1. CASE UNCHANGED vars
  BY <1>1 DEF vars, TrxTableInv, TypeOK, TableInv, SerialInv, EntriesAreLive, StaysUp,
              UniqueIds, InTrx, Begins, Changes
<1>2. CASE Next
  <2>1. process = "up"
    BY <1>2 DEF Next
  <2>2. PICK s \in Session : \/ BeginLock(s) \/ BeginInsert(s) \/ BeginReturn(s)
                            \/ TrxAdd(s) \/ CommitBegin(s) \/ CommitReleased(s) \/ CommitEnd(s)
    BY <1>2 DEF Next
  <2> QED BY <2>1, <2>2, BeginLockKeeps, BeginInsertKeeps, BeginReturnKeeps, TrxAddKeeps,
             CommitBeginKeeps, CommitReleasedKeeps, CommitEndKeeps
<1> QED BY <1>1, <1>2

\* The inductive invariant holds in every reachable state of trx_begin, trx_add
\* and trx_commit, for any number of sessions and transactions.
THEOREM TrxTableInvariant == Spec => []TrxTableInv
<1>1. Init => TrxTableInv
  BY TableInitInv
<1>2. TrxTableInv /\ [Next]_vars => TrxTableInv'
  BY TableNextInv
<1> QED BY <1>1, <1>2, PTL DEF Spec

\* The state variables keep their types.
THEOREM TableTypeCorrect == Spec => []TypeOK
<1>1. TrxTableInv => TypeOK
  BY DEF TrxTableInv
<1> QED BY <1>1, TrxTableInvariant, PTL

\* No two sessions are given the id of one transaction, as long as calls of
\* trx_begin do not overlap.
THEOREM UniqueIdsHold == Spec => []UniqueIdsWhenSerial
<1>1. TrxTableInv => UniqueIdsWhenSerial
  BY DEF TrxTableInv, SerialInv, UniqueIdsWhenSerial
<1> QED BY <1>1, TrxTableInvariant, PTL

\* Without overlap the table holds exactly the transactions in progress.
THEOREM EntriesAreLiveHolds == Spec => []EntriesAreLive
<1>1. TrxTableInv => EntriesAreLive
  BY DEF TrxTableInv
<1> QED BY <1>1, TrxTableInvariant, PTL

\* Nothing ends the process but overlapping calls of trx_begin and unlatched
\* lookups that race with an insertion or an erasure.
THEOREM StaysUpHolds == Spec => []StaysUp
<1>1. TrxTableInv => StaysUp
  BY DEF TrxTableInv
<1> QED BY <1>1, TrxTableInvariant, PTL

\* An id is given out by BeginReturn only, and it is the counter.
LEMMA IdsFromCounter ==
  ASSUME TrxTableInv, [Next]_vars, NEW s \in Session, mine'[s] # mine[s], mine'[s] # 0
  PROVE  mine'[s] = trx_id /\ pc[s] = "returning" /\ overlapped' = overlapped
<1>1. mine \in [Session -> 0 .. MaxTrx]
  BY DEF TrxTableInv, TypeOK
<1>2. Next
  BY DEF vars
<1>3. PICK u \in Session : \/ BeginLock(u) \/ BeginInsert(u) \/ BeginReturn(u)
                          \/ TrxAdd(u) \/ CommitBegin(u) \/ CommitReleased(u) \/ CommitEnd(u)
  BY <1>2 DEF Next
<1>4. CASE BeginReturn(u)
  <2>1. mine' = [mine EXCEPT ![u] = trx_id] \/ mine' = mine
    BY <1>4 DEF BeginReturn
  <2> QED BY <1>1, <1>4, <2>1 DEF BeginReturn, Unlatched
<1>5. CASE ~BeginReturn(u)
  <2>1. mine' = mine \/ mine' = [mine EXCEPT ![u] = 0]
    BY <1>3, <1>5 DEF BeginLock, BeginInsert, TrxAdd, CommitBegin, CommitReleased, CommitEnd, Erase
  <2> QED BY <1>1, <2>1
<1> QED BY <1>4, <1>5

\* However calls of trx_begin overlap, ids never go back.
THEOREM IdsNeverGoBackHolds == Spec => IdsNeverGoBack
<1>1. TrxTableInv /\ [Next]_vars =>
        [\A s \in Session : mine'[s] # mine[s] /\ mine'[s] # 0 =>
           \A u \in Session : mine[u] <= mine'[s]]_vars
  BY IdsFromCounter DEF TrxTableInv, TableInv
<1> QED BY <1>1, TrxTableInvariant, PTL DEF Spec, IdsNeverGoBack

\* Without overlap a new id is younger than every id in use.
THEOREM FreshIdsHold == Spec => FreshIdsWhenSerial
<1>1. TrxTableInv /\ [Next]_vars =>
        [\A s \in Session : ~overlapped' /\ mine'[s] # mine[s] /\ mine'[s] # 0 =>
           \A u \in Session : mine[u] < mine'[s]]_vars
  BY IdsFromCounter DEF TrxTableInv, SerialInv, Begins
<1> QED BY <1>1, TrxTableInvariant, PTL DEF Spec, FreshIdsWhenSerial
=============================================================================
