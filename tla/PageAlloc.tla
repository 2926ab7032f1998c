------------------------------ MODULE PageAlloc ------------------------------
(***************************************************************************)
(* Allocating and freeing pages through the pool: buffer_alloc_page and    *)
(* buffer_free_page (buffer.cc) over the table file of DiskSpace.  The     *)
(* header page, which begins the free list, has a copy in the file, which  *)
(* file_alloc_page reads, and one in the pool, which buffer_free_page      *)
(* changes; either may be the older one.                                   *)
(*                                                                         *)
(* The pool is the cache that PageCache describes: pages in order of use,  *)
(* written back when they are replaced.  One client at a time, as in       *)
(* db_insert and db_delete; the pages it has pinned while it calls these   *)
(* functions are left out, and only the two they pin themselves stay.      *)
(***************************************************************************)
EXTENDS Naturals, Sequences, SequencesExt

CONSTANTS P_NUMBER,    \* pages of a new file
          MaxPages,    \* bound: pages a file may grow to
          NumFrames,   \* NUM_OF_BUFFER
          Parent       \* bound: parent page numbers that users write

ASSUME PageAllocAssumption ==
  /\ P_NUMBER \in Nat \ {0, 1}
  /\ MaxPages \in Nat /\ P_NUMBER <= MaxPages
  /\ NumFrames \in Nat \ {0, 1}
  /\ Parent \subseteq 0 .. MaxPages - 1

VARIABLES disk,      \* disk[n]: the first two words of page n in the file
          order,     \* the pages in the pool, most recently used first
          copy,      \* copy[n]: the words of page n in the pool
          dirty,     \* the pages of the pool that were written there
          inUse,     \* pages handed out and not given back, so part of the tree
          freed,     \* history: a page was freed since the table was opened
          replaced,  \* history: the header page left the pool since then
          torn       \* history: a flush was killed between the header page and
                     \* a page that was freed

vars == <<disk, order, copy, dirty, inUse, freed, replaced, torn>>

Disk == INSTANCE DiskSpace WITH file <- disk, exists <- TRUE, lost <- {},
                                process <- "up"

Pages == 0 .. MaxPages - 1
Nothing == [first |-> 0, second |-> 0]

TypeOK == /\ disk \in [Pages -> Disk!Content]
          /\ order \in Seq(Pages) /\ Len(order) <= NumFrames /\ IsInjective(order)
          /\ copy \in [Pages -> Disk!Content]
          /\ dirty \subseteq Range(order)
          /\ inUse \subseteq Pages \ {0}
          /\ freed \in BOOLEAN /\ replaced \in BOOLEAN /\ torn \in BOOLEAN

\* A new table file, and an empty pool.
NewFile == Disk!After([n \in Pages |-> Nothing], Disk!CreateWrites)

Init == /\ disk = NewFile
        /\ order = << >>
        /\ copy = [n \in Pages |-> Nothing]
        /\ dirty = {}
        /\ inUse = {}
        /\ freed = FALSE
        /\ replaced = FALSE
        /\ torn = FALSE

-----------------------------------------------------------------------------
(* The pool, as the state the calls of one operation work on.              *)

Now == [disk |-> disk, order |-> order, copy |-> copy, dirty |-> dirty, replaced |-> replaced]

\* Faulty: the next page in the frame counts as written.
ReplaceKeepsDirty(s) ==
  LET victim == Last(s.order)
  IN [s EXCEPT !.order = Front(@),
               !.disk = IF victim \in s.dirty THEN [@ EXCEPT ![victim] = s.copy[victim]] ELSE @,
               !.copy[victim] = Nothing,
               !.replaced = @ \/ victim = 0]

\* The page used least recently leaves, and what was written to it reaches the file.
Replace(s) ==
  LET victim == Last(s.order)
  IN [s EXCEPT !.order = Front(@),
               !.disk = IF victim \in s.dirty THEN [@ EXCEPT ![victim] = s.copy[victim]] ELSE @,
               !.copy[victim] = Nothing,
               !.dirty = @ \ {victim},
               !.replaced = @ \/ victim = 0]

\* Where page n is in the order of use.
Place(q, n) == CHOOSE k \in DOMAIN q : q[k] = n

\* buffer_read_page, and unpin_page when the operation ends
Fetch(s, n) ==
  IF n \in Range(s.order) THEN [s EXCEPT !.order = <<n>> \o RemoveAt(@, Place(@, n))]
  ELSE LET t == IF Len(s.order) < NumFrames THEN s ELSE Replace(s)
       IN [t EXCEPT !.order = <<n>> \o @, !.copy[n] = t.disk[n]]

\* buffer_write_page
Put(s, n, content) == [s EXCEPT !.copy[n] = content, !.dirty = @ \union {n}]

Becomes(s) == /\ disk' = s.disk /\ order' = s.order /\ copy' = s.copy
              /\ dirty' = s.dirty /\ replaced' = s.replaced

-----------------------------------------------------------------------------
(* Operations.                                                             *)

\* Faulty: the pool's header does not learn that the file was doubled.
GrowsNever(n, header) == FALSE

\* The page handed out is beyond the pages the pool's header knows of.
Grows(n, header) == n >= header.second

\* Faulty: the pool's header keeps its free page.
AllocatedOnDisk(s, n) ==
  LET header == s.copy[0]
  IN Put(s, 0, [first |-> header.first,
                second |-> IF Grows(n, header) THEN 2 * header.second ELSE header.second])

\* The pool's header follows the file: the free list goes on where page n says.
Allocated(s, n) ==
  LET header == s.copy[0]
  IN Put(s, 0, [first |-> s.copy[n].first,
                second |-> IF Grows(n, header) THEN 2 * header.second ELSE header.second])

\* buffer_alloc_page: file_alloc_page takes the page off the list in the file.
Alloc ==
  /\ Disk!MayAlloc
  /\ LET n == Disk!AllocPage
         s == Fetch(Fetch([Now EXCEPT !.disk = Disk!After(disk, Disk!AllocWrites)], 0), n)
     IN Becomes(Allocated(s, n)) /\ inUse' = inUse \union {n}
  /\ UNCHANGED <<freed, torn>>

\* buffer_free_page.  When the pool has no header page file_free_page comes first, and
\* what follows goes on even so: the header it reads then begins with n already, and
\* n becomes the page after itself.  The users read the header page before (db_delete),
\* so the pool has it unless it was replaced.
Free(n) ==
  /\ n \in inUse
  /\ 0 \in Range(order) \/ replaced
  /\ LET freeing == IF 0 \notin Range(order) THEN Disk!After(disk, Disk!FreeWrites(n)) ELSE disk
         s == Fetch(Fetch([Now EXCEPT !.disk = freeing], 0), n)
         header == s.copy[0]
         t == Put(s, 0, [header EXCEPT !.first = n])
     IN Becomes(Put(t, n, [s.copy[n] EXCEPT !.first = header.first]))
  /\ inUse' = inUse \ {n}
  /\ freed' = TRUE
  /\ UNCHANGED torn

\* The users read the header page and pages of the tree ...
Read(n) == /\ n \in inUse \union {0}
           /\ Becomes(Fetch(Now, n))
           /\ UNCHANGED <<inUse, freed, torn>>

\* ... and write pages of the tree, whose first word is their parent's number.
Write(n, parent) ==
  /\ n \in inUse /\ parent \in inUse \union {0}
  /\ Becomes(Put(Fetch(Now, n), n, [first |-> parent, second |-> 0]))
  /\ UNCHANGED <<inUse, freed, torn>>

\* The file after flush_buffer has written some of the dirty pages.
Flushed(some) == [n \in Pages |-> IF n \in some THEN copy[n] ELSE disk[n]]

\* Among them is the header page, and a page that was freed is not.
HeaderFirst(some) == 0 \in some /\ dirty \ (some \union inUse) # {}

\* An empty pool.  What was freed and replaced in a session has no consequences
\* in the next one, unless both happened.
Emptied == /\ order' = << >>
           /\ copy' = [n \in Pages |-> Nothing]
           /\ dirty' = {}
           /\ freed' = (freed /\ replaced)
           /\ replaced' = (freed /\ replaced)
           /\ UNCHANGED inUse

\* shutdown_db and init_db
Shutdown == disk' = Flushed(dirty) /\ UNCHANGED torn /\ Emptied

\* The process is killed and started again.  That may be in the flush of shutdown_db,
\* which writes the dirty pages one by one: whichever of them are in frames before the
\* others are in the file then.  Pages handed out stay so, though the tree in the file
\* may not hold them yet.
Crash == /\ \E some \in SUBSET dirty : /\ disk' = Flushed(some)
                                    /\ torn' = (torn \/ HeaderFirst(some))
         /\ Emptied

Next == \/ Alloc \/ Shutdown \/ Crash
        \/ \E n \in Pages : Free(n) \/ Read(n)
        \/ \E n \in Pages, parent \in Parent : Write(n, parent)

Spec == Init /\ [][Next]_vars

-----------------------------------------------------------------------------
(* Safety.                                                                 *)

\* The two copies of the header page know of the same number of pages, whatever was
\* freed and whenever the process is killed; and as long as nothing was freed, and no
\* flush was torn, they begin the same free list, although each allocation changes
\* both on its own.
HeadersAgree ==
  0 \in Range(order) => /\ copy[0].second = disk[0].second
                        /\ ~freed /\ ~torn => copy[0].first = disk[0].first

\* The free list that file_alloc_page walks holds no page that is in use, and ends:
\* no page is handed out twice.  This is so as long as the header page does not reach the
\* file before a page that was freed: neither by leaving the pool in a session that
\* frees pages, nor in a flush that is killed before that page is written.
NeverTwice ==
  \/ freed /\ replaced
  \/ torn
  \/ Disk!FreeAt[MaxPages] = 0 /\ Disk!FreePages \intersect inUse = {}
=============================================================================
