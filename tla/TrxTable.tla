------------------------------- MODULE TrxTable -------------------------------
(***************************************************************************)
(* The transaction table of trx.cc: trx_begin, the lookup of trx_add, and  *)
(* trx_commit, run by client threads ("sessions").                         *)
(*                                                                         *)
(* trx_begin increments the global trx_id and inserts the entry under      *)
(* trx_table_latch, but computes its return value after the unlock, from   *)
(* the global again.  trx_add looks its transaction up without the latch.  *)
(* Both lookups go through operator[], which yields a null pointer for an  *)
(* id that is not there.  trx_begin and trx_commit change the map under    *)
(* the latch, in steps of their own: lookups without it see the middle of  *)
(* such a change.  The lock lists themselves are in LockTable.             *)
(***************************************************************************)
EXTENDS Naturals, FiniteSets

CONSTANTS Session,      \* client threads
          MaxTrx        \* bound: transactions begun in a behaviour

ASSUME TrxTableAssumption == MaxTrx \in Nat

VARIABLES trx_id,    \* the global counter
          entries,   \* ids whose entry is in trx_table
          locked,    \* ids whose entry has a lock list that is not empty
          pc,        \* pc[s]: where session s is
          mine,      \* mine[s]: the id trx_begin returned to s, 0 for none
          process,   \* "up", "exit" after exit(1), "crash" after a bad pointer
          overlapped,  \* history: a trx_begin has started inside another one,
                       \* after that one gave the latch up
          raced        \* history: the table was read without the latch while
                       \* an entry was being inserted or erased

vars == <<trx_id, entries, locked, pc, mine, process, overlapped, raced>>

Ids == 1 .. MaxTrx

TypeOK == /\ trx_id \in 0 .. MaxTrx
          /\ entries \subseteq Ids
          /\ locked \subseteq Ids
          /\ pc \in [Session -> {"idle", "inserting", "returning", "running",
                                "committing", "erasing"}]
          /\ mine \in [Session -> 0 .. MaxTrx]
          /\ process \in {"up", "exit", "crash"}
          /\ overlapped \in BOOLEAN /\ raced \in BOOLEAN

Init == /\ trx_id = 0
        /\ entries = {}
        /\ locked = {}
        /\ pc = [s \in Session |-> "idle"]
        /\ mine = [s \in Session |-> 0]
        /\ process = "up"
        /\ overlapped = FALSE
        /\ raced = FALSE

-----------------------------------------------------------------------------
\* Faulty: nobody waits for the latch.
NoLatch == TRUE

\* Who holds trx_table_latch between two steps: a trx_begin that inserts its
\* entry, a trx_commit that erases its own.
Changes(s) == pc[s] \in {"inserting", "erasing"}
LatchFree == \A s \in Session : ~Changes(s)

\* What trx_table[id] may yield without the latch: while another thread changes
\* the map (a data race), an entry that is there may be missed, and the walk
\* through the map may follow a bad pointer.
Lookup(id) == {IF id \in entries THEN "found" ELSE "missing"}
                \union (IF LatchFree THEN {} ELSE {"missing", "lost"})
Unlatched == raced' = (raced \/ ~LatchFree) /\ UNCHANGED overlapped

\* Faulty: the new id is the number of entries plus one.
BeginFromSize(s) ==
  /\ pc[s] = "idle" /\ LatchFree
  /\ trx_id < MaxTrx
  /\ trx_id' = Cardinality(entries) + 1
  /\ pc' = [pc EXCEPT ![s] = "inserting"]
  /\ overlapped' = (overlapped \/ \E u \in Session : pc[u] = "returning")
  /\ UNCHANGED <<entries, locked, mine, process, raced>>

\* trx_begin takes the latch and increments the counter.
BeginLock(s) ==
  /\ pc[s] = "idle" /\ LatchFree
  /\ trx_id < MaxTrx
  /\ trx_id' = trx_id + 1
  /\ pc' = [pc EXCEPT ![s] = "inserting"]
  /\ overlapped' = (overlapped \/ \E u \in Session : pc[u] = "returning")
  /\ UNCHANGED <<entries, locked, mine, process, raced>>

\* It inserts the entry and gives the latch back.
BeginInsert(s) ==
  /\ pc[s] = "inserting"
  /\ entries' = entries \union {trx_id}
  /\ pc' = [pc EXCEPT ![s] = "returning"]
  /\ UNCHANGED <<trx_id, locked, mine, process, overlapped, raced>>

\* Faulty: the counter is incremented again after the unlock.
BeginReturnNext(s) ==
  /\ pc[s] = "returning"
  /\ trx_id' = trx_id + 1
  /\ mine' = [mine EXCEPT ![s] = trx_id]
  /\ pc' = [pc EXCEPT ![s] = "running"]
  /\ UNCHANGED <<entries, locked, process, overlapped, raced>>

\* It returns trx_table[trx_id]->trx_id: whatever the counter is by now.
BeginReturn(s) ==
  /\ pc[s] = "returning"
  /\ \E entry \in Lookup(trx_id) :
       IF entry = "found"
         THEN /\ mine' = [mine EXCEPT ![s] = trx_id]
              /\ pc' = [pc EXCEPT ![s] = "running"]
              /\ UNCHANGED process
         ELSE /\ process' = "crash"
              /\ UNCHANGED <<mine, pc>>
  /\ Unlatched
  /\ UNCHANGED <<trx_id, entries, locked>>

\* trx_add, called by lock_acquire: the process exits when the entry is not found.
TrxAdd(s) ==
  /\ pc[s] = "running"
  /\ \E entry \in Lookup(mine[s]) :
       \/ entry = "found" /\ locked' = locked \union {mine[s]} /\ UNCHANGED process
       \/ entry = "missing" /\ process' = "exit" /\ UNCHANGED locked
       \/ entry = "lost" /\ process' = "crash" /\ UNCHANGED locked
  /\ Unlatched
  /\ UNCHANGED <<trx_id, entries, pc, mine>>

\* Faulty: the entry stays in the table.
EraseNothing(s) == /\ UNCHANGED <<entries, locked>>
                   /\ pc' = [pc EXCEPT ![s] = "idle"]
                   /\ mine' = [mine EXCEPT ![s] = 0]

\* Faulty: the lock list outlives its entry.
EraseKeepsList(s) == /\ entries' = entries \ {mine[s]}
                     /\ pc' = [pc EXCEPT ![s] = "idle"]
                     /\ mine' = [mine EXCEPT ![s] = 0]
                     /\ UNCHANGED locked

\* The end of trx_commit: the id is erased and put back with a null pointer.
Erase(s) == /\ entries' = entries \ {mine[s]}
            /\ locked' = locked \ {mine[s]}
            /\ pc' = [pc EXCEPT ![s] = "idle"]
            /\ mine' = [mine EXCEPT ![s] = 0]

\* trx_commit finds the entry, or exits.  With no lock to release it keeps the
\* latch and goes on to erase the entry.
CommitBegin(s) ==
  /\ pc[s] = "running" /\ LatchFree
  /\ IF mine[s] \in entries
       THEN /\ pc' = [pc EXCEPT ![s] = IF mine[s] \in locked THEN "committing" ELSE "erasing"]
            /\ UNCHANGED process
       ELSE process' = "exit" /\ UNCHANGED pc
  /\ UNCHANGED <<trx_id, entries, locked, mine, overlapped, raced>>

\* With locks, the latch is given up around the release of each; it is held
\* again after the last one.
CommitReleased(s) ==
  /\ pc[s] = "committing" /\ LatchFree
  /\ pc' = [pc EXCEPT ![s] = "erasing"]
  /\ UNCHANGED <<trx_id, entries, locked, mine, process, overlapped, raced>>

\* The change of the map is over and the entry found before is deleted, a second
\* time if somebody else has deleted it since.
CommitEnd(s) ==
  /\ pc[s] = "erasing"
  /\ Erase(s)
  /\ process' = IF mine[s] \in entries THEN process ELSE "crash"
  /\ UNCHANGED <<trx_id, overlapped, raced>>

Next ==
  /\ process = "up"
  /\ \E s \in Session :
       \/ BeginLock(s) \/ BeginInsert(s) \/ BeginReturn(s)
       \/ TrxAdd(s)
       \/ CommitBegin(s) \/ CommitReleased(s) \/ CommitEnd(s)

Spec == Init /\ [][Next]_vars

-----------------------------------------------------------------------------
InTrx(s) == pc[s] \in {"running", "committing", "erasing"}

\* "One trx_table_entry handles one transaction" (Project 5.md): two sessions
\* that are in a transaction at the same time were given different ids.
UniqueIds ==
  \A s, u \in Session : s # u /\ InTrx(s) /\ InTrx(u) => mine[s] # mine[u]

\* That is so as long as calls of trx_begin do not overlap, however commits and
\* trx_add interleave with them.
UniqueIdsWhenSerial == overlapped \/ UniqueIds

\* Only overlapping calls of trx_begin, and lookups without the latch that race
\* with the insertion of trx_begin or the erasure of trx_commit, can end the
\* process: otherwise no valid id is taken for an invalid one, no null entry is
\* followed, no entry is deleted twice.
StaysUp == overlapped \/ raced \/ process = "up"

\* The table holds exactly the transactions in progress: a commit erases its
\* own entry, a session in a transaction finds its entry, and none is leaked.
EntriesAreLive ==
  overlapped \/ entries = {mine[s] : s \in {u \in Session : InTrx(u)}}
                            \union {trx_id : s \in {u \in Session : pc[u] = "returning"}}

\* However calls of trx_begin overlap, a session never gets an id older than
\* one in use.
IdsNeverGoBack ==
  [][\A s \in Session : mine'[s] # mine[s] /\ mine'[s] # 0 =>
       \A u \in Session : mine[u] <= mine'[s]]_vars

\* Without overlap it is younger than every id in use.
FreshIdsWhenSerial ==
  [][\A s \in Session : ~overlapped' /\ mine'[s] # mine[s] /\ mine'[s] # 0 =>
       \A u \in Session : mine[u] < mine'[s]]_vars

-----------------------------------------------------------------------------
(* The inductive invariant.                                                *)

Begins(s) == pc[s] \in {"inserting", "returning"}

\* Whatever calls overlap: one thread at a time changes the map, the counter is behind
\* no id in use and has been incremented for every call of trx_begin, only
\* sessions in a transaction have an id, and lock lists belong to entries.
TableInv ==
  /\ \A s, u \in Session : Changes(s) /\ Changes(u) => s = u
  /\ \A s \in Session : /\ mine[s] <= trx_id
                        /\ mine[s] # 0 <=> InTrx(s)
                        /\ Begins(s) => trx_id > 0
  /\ \A i \in entries : i <= trx_id
  /\ locked \subseteq entries

\* Without overlap, the one call of trx_begin that is under way has the counter
\* to itself, and its id is new.
SerialInv ==
  overlapped \/
    /\ \A s, u \in Session : Begins(s) /\ Begins(u) => s = u
    /\ \A s, u \in Session : Begins(s) => mine[u] < trx_id
    /\ UniqueIds

\* What makes UniqueIdsWhenSerial, EntriesAreLive and StaysUp inductive.
TrxTableInv == TypeOK /\ TableInv /\ SerialInv /\ EntriesAreLive /\ StaysUp
=============================================================================
