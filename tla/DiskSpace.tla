------------------------------ MODULE DiskSpace ------------------------------
(***************************************************************************)
(* The disk space manager (file.cc): one table file, its header page and   *)
(* the list of free pages threaded through the pages themselves.           *)
(*                                                                         *)
(* Each operation is a sequence of pwrite calls with one fsync at its end, *)
(* and runs alone.  Killing the process in the middle leaves the calls     *)
(* made so far in the file.  Of a page only the first two 8-byte words     *)
(* count: the header's are its free page number and its number of pages;   *)
(* the first word of a free page is the next free page number, and that of *)
(* a tree page, in the same place, its parent page number (page.cc).       *)
(***************************************************************************)
EXTENDS Naturals, Sequences

CONSTANTS P_NUMBER,   \* pages of a new file
          MaxPages,   \* bound: pages a file may grow to
          Parent      \* bound: parent page numbers that users write

ASSUME DiskSpaceAssumption ==
  /\ P_NUMBER \in Nat \ {0}
  /\ MaxPages \in Nat /\ P_NUMBER <= MaxPages
  /\ Parent \subseteq 0 .. MaxPages - 1

VARIABLES file,     \* file[n]: the first two words of page n
          exists,   \* the file has been created
          inUse,    \* pages handed out and not given back, so part of the tree
          lost,     \* pages that are neither in use nor free, after a kill
          process   \* "up" once file_open_table_file has returned, else "down";
                    \* "broken" when the file is not a table file any more, or
                    \* file_write_page does not return

vars == <<file, exists, inUse, lost, process>>

Pages == 0 .. MaxPages - 1
Content == [first : Pages, second : 0 .. MaxPages]

TypeOK == /\ file \in [Pages -> Content]
          /\ exists \in BOOLEAN
          /\ inUse \subseteq Pages \ {0}
          /\ lost \subseteq Pages \ {0}
          /\ process \in {"up", "down", "broken"}

\* A page that was never written reads as zeros.
Init == /\ file = [n \in Pages |-> [first |-> 0, second |-> 0]]
        /\ exists = FALSE
        /\ inUse = {}
        /\ lost = {}
        /\ process = "down"

-----------------------------------------------------------------------------
(* The writes of each operation, in the order of the pwrite calls.         *)

header == file[0]

To(n, c) == [page |-> n, content |-> c]
Link(n) == [first |-> n, second |-> 0]
Header(free, num) == To(0, [first |-> free, second |-> num])

\* Faulty: the first of the pages ends the list.
ChainFromZero(from, to, next) ==
  [k \in 1 .. to - from + 1 |-> To(from + k - 1, Link(IF k = 1 THEN 0 ELSE from + k - 2))]

\* Pages from .. to, each linked to the one before it, the first one to `next`.
Chain(from, to, next) ==
  [k \in 1 .. to - from + 1 |->
     To(from + k - 1, Link(IF k = 1 THEN next ELSE from + k - 2))]

\* A new file: all but the header are free, and the header comes last.
CreateWrites == Append(Chain(1, P_NUMBER - 1, 0), Header(P_NUMBER - 1, P_NUMBER))

\* A page taken off the free list is one write of the header.
PopWrites == <<Header(file[header.first].first, header.second)>>

\* Faulty: the page taken is left on the list; or the new pages are miscounted.
ExtendKeepsLast ==
  LET n == header.second
  IN Append(Chain(n, 2 * n - 1, header.first), Header(2 * n - 1, 2 * n))
ExtendCountsOneMore ==
  LET n == header.second
  IN Append(Chain(n, 2 * n - 1, header.first), Header(2 * n - 2, 2 * n + 1))

\* With no free page left the file is doubled, and its last page taken.
ExtendWrites ==
  LET n == header.second
  IN Append(Chain(n, 2 * n - 1, header.first), Header(2 * n - 2, 2 * n))

AllocWrites == IF header.first # 0 THEN PopWrites ELSE ExtendWrites
AllocPage == IF header.first # 0 THEN header.first ELSE 2 * header.second - 1

\* The header goes first, and the page it points to afterwards.
FreeWrites(n) == <<Header(n, header.second), To(n, Link(header.first))>>

\* One round of the loop that doubles the file in file_read_page and
\* file_write_page, from header h: all new pages are free.
Doubled(h) == [first |-> 2 * h.second - 1, second |-> 2 * h.second]
DoubleWrites(h) == Append(Chain(h.second, 2 * h.second - 1, h.first), To(0, Doubled(h)))

Headers == [first : Pages, second : 1 .. MaxPages]

\* file_read_page doubles the file until the page is in it.
ReadWrites(n) ==
  LET writes[h \in Headers] ==
        IF n < h.second THEN << >> ELSE DoubleWrites(h) \o writes[Doubled(h)]
  IN writes[header]

\* File f after some writes: of each page, what was written to it last.
After(f, writes) ==
  [n \in Pages |->
     LET to == {k \in DOMAIN writes : writes[k].page = n}
         latest == CHOOSE k \in to : \A j \in to : j <= k
     IN IF to = {} THEN f[n] ELSE writes[latest].content]

-----------------------------------------------------------------------------
(* Operations.                                                             *)

\* file_open_table_file
Create == /\ process = "down" /\ ~exists
          /\ file' = After(file, CreateWrites)
          /\ exists' = TRUE
          /\ process' = "up"
          /\ UNCHANGED <<inUse, lost>>

Open == /\ process = "down" /\ exists
        /\ process' = "up"
        /\ UNCHANGED <<file, exists, inUse, lost>>

\* file_alloc_page
MayAlloc == /\ process = "up"
            /\ header.first = 0 => 2 * header.second <= MaxPages

Alloc == /\ MayAlloc
         /\ file' = After(file, AllocWrites)
         /\ inUse' = inUse \union {AllocPage}
         /\ UNCHANGED <<exists, lost, process>>

\* file_free_page, of a page the user has taken out of the tree
Free(n) == /\ process = "up" /\ n \in inUse
           /\ file' = After(file, FreeWrites(n))
           /\ inUse' = inUse \ {n}
           /\ UNCHANGED <<exists, lost, process>>

\* Bound: the file may grow as far as page n takes it.
MayReach(n) == n >= header.second /\ 2 * n <= MaxPages

\* file_read_page of a page the file does not reach yet; any other read
\* changes nothing.
Read(n) == /\ process = "up" /\ MayReach(n)
           /\ file' = After(file, ReadWrites(n))
           /\ UNCHANGED <<exists, inUse, lost, process>>

\* file_write_page of a page in the file: a tree page with its parent.
Write(n, p) == /\ process = "up" /\ n \in inUse /\ n < header.second
               /\ p \in inUse \union {0}
               /\ file' = After(file, <<To(n, Link(p))>>)
               /\ UNCHANGED <<exists, inUse, lost, process>>

\* file_write_page of a page the file does not reach.  The loop tests a number
\* of pages it does not update (the assignment is commented out): the file is
\* doubled once, the new pages are written over and over, and the page never.
WriteBeyond(n) == /\ process = "up" /\ n >= header.second
                  /\ 2 * header.second <= MaxPages
                  /\ file' = After(file, DoubleWrites(header))
                  /\ process' = "broken"
                  /\ UNCHANGED <<exists, inUse, lost>>

\* file_close_table_files, or a process that ends between two operations.
Close == /\ process = "up"
         /\ process' = "down"
         /\ UNCHANGED <<file, exists, inUse, lost>>

\* The process is killed in an operation, after k of its writes.
Killed(writes, k) == file' = After(file, SubSeq(writes, 1, k))

\* Without its header a new file is no table file, and nobody completes it,
\* because it exists.
KilledCreate == /\ process = "down" /\ ~exists
                /\ exists' = TRUE
                /\ \E k \in 0 .. Len(CreateWrites) :
                     /\ Killed(CreateWrites, k)
                     /\ process' = IF k = Len(CreateWrites) THEN "down" ELSE "broken"
                /\ UNCHANGED <<inUse, lost>>

\* Once the header is written the page is taken, but nobody learns its number.
KilledAlloc == /\ MayAlloc
               /\ \E k \in 0 .. Len(AllocWrites) :
                    /\ Killed(AllocWrites, k)
                    /\ lost' = IF k = Len(AllocWrites) THEN lost \union {AllocPage} ELSE lost
               /\ process' = "down"
               /\ UNCHANGED <<exists, inUse>>

\* Before the first write the page is lost.  Between the two the header points
\* to a page whose first word is still its parent page number.
KilledFree(n) == /\ process = "up" /\ n \in inUse
                 /\ inUse' = inUse \ {n}
                 /\ \E k \in 0 .. 2 :
                      /\ Killed(FreeWrites(n), k)
                      /\ lost' = IF k = 0 THEN lost \union {n} ELSE lost
                      /\ process' = IF k = 1 THEN "broken" ELSE "down"
                 /\ UNCHANGED exists

KilledRead(n) == /\ process = "up" /\ MayReach(n)
                 /\ \E k \in 0 .. Len(ReadWrites(n)) : Killed(ReadWrites(n), k)
                 /\ process' = "down"
                 /\ UNCHANGED <<exists, inUse, lost>>

Next == \/ Create \/ Open \/ Alloc \/ Close
        \/ KilledCreate \/ KilledAlloc
        \/ \E n \in Pages : \/ Free(n) \/ Read(n) \/ WriteBeyond(n)
                            \/ KilledFree(n) \/ KilledRead(n)
        \/ \E n \in Pages, p \in Parent : Write(n, p)

Spec == Init /\ [][Next]_vars

-----------------------------------------------------------------------------
(* Safety.                                                                 *)

\* The k-th page of the free list, 0 when the list ends before.
FreeAt[k \in 0 .. MaxPages] ==
  IF k = 0 THEN header.first
  ELSE LET n == FreeAt[k - 1] IN IF n = 0 THEN 0 ELSE file[n].first

FreePages == {FreeAt[k] : k \in 0 .. MaxPages} \ {0}

\* Every page of the file is in one place: in use, on the free list, once, or
\* lost in a kill.  So file_alloc_page hands out no page that is in use, also
\* after the process was killed in the middle of an extension.
FreeListExact ==
  exists /\ process # "broken" =>
    /\ FreeAt[MaxPages] = 0
    /\ FreePages = 1 .. header.second - 1 \ (inUse \union lost)
    /\ inUse \union lost \subseteq 1 .. header.second - 1
    /\ inUse \intersect lost = {}
=============================================================================
