------------------------------ MODULE BufferPool ------------------------------
(***************************************************************************)
(* The buffer manager (buffer.cc): frames with control blocks, linked into *)
(* a ring by the frame indices next and prev.  entry_point is the frame    *)
(* used last; its next is the frame unused for longest.                    *)
(*                                                                         *)
(* A read is one step: its callers hold buffer_mutex, or run alone.        *)
(* db_find and db_update write and unpin without the mutex, and reads of   *)
(* other threads come between the search for the frame and what is done    *)
(* with it, so these are two steps.  When a read has relinked the ring, or *)
(* pinned the same page, meanwhile, any outcome of the data race is        *)
(* possible; raced says that a pin or the frame was lost in one, and the   *)
(* pool is not followed after that.                                        *)
(*                                                                         *)
(* The users of the pool follow Project 3.md: they write and unpin only    *)
(* pages they have pinned by reading them.  A page number stands for a     *)
(* (table, page) pair; read_new_page takes it as a uint16_t.               *)
(***************************************************************************)
EXTENDS Integers, FiniteSets, Functions

CONSTANTS NumFrames,   \* NUM_OF_BUFFER
          Page,        \* page numbers in use
          Cut(_),      \* what a page number is once it is a uint16_t
          Value,       \* contents of a page
          MaxPinned,   \* bound: distinct pages the users keep pinned at a time
          MaxPins      \* bound: pins the users keep on one page

ASSUME BufferPoolAssumption ==
  /\ NumFrames \in Nat \ {0}
  /\ MaxPinned \in Nat /\ MaxPins \in Nat
  /\ Value # {}
  /\ \A p \in Page : Cut(p) \in Page

VARIABLES cb,       \* page_buffer_control_block and page_buffer, by frame
          used,     \* number_of_pages: the frames 0 .. used - 1 hold a page
          entry,    \* entry_point
          disk,     \* the pages in the file
          held,     \* held[p]: pins on p its users have not given back
          found,    \* the call that has looked its page up and not yet used the
                    \* frame, as a set of at most one; bound: one at a time
          strained, \* since the pool was opened, its users have pinned as many
                    \* pages as it has frames, or read a page Cut changes
          raced,    \* a pin or a frame was lost in a data race
          process   \* "up", "exit" after exit(1), "crash" after an access to
                    \* a control block that is not there

vars == <<cb, used, entry, disk, held, found, strained, raced, process>>

Frame == 0 .. NumFrames - 1

\* Stands for the table and page number of a block that was never written.
NoPage == "no page"
ASSUME NoPageAssumption == NoPage \notin Page
AnyValue == CHOOSE v \in Value : TRUE

\* A frame after init_buffer.  Its other fields are written before they are read.
EmptyBlock == [page |-> NoPage, data |-> AnyValue, dirty |-> FALSE, pins |-> 0,
               next |-> 0, prev |-> 0]

Block == [page : Page \union {NoPage}, data : Value, dirty : BOOLEAN, pins : Int,
          next : Frame, prev : Frame]

TypeOK ==
  /\ cb \in [Frame -> Block]
  /\ used \in 0 .. NumFrames
  /\ entry \in -1 .. NumFrames - 1
  /\ disk \in [Page -> Value]
  /\ held \in [Page -> 0 .. MaxPins]
  /\ \A c \in found : found = {c} /\ c \in [page : Page, frame : Frame \union {-1},
                                            entry : Frame \union {-1}, pins : Int]
  /\ strained \in BOOLEAN /\ raced \in BOOLEAN
  /\ process \in {"up", "exit", "crash"}

Init == /\ cb = [f \in Frame |-> EmptyBlock]
        /\ used = 0
        /\ entry = -1
        /\ disk = [p \in Page |-> AnyValue]
        /\ held = [p \in Page |-> 0]
        /\ found = {}
        /\ strained = FALSE
        /\ raced = FALSE
        /\ process = "up"

-----------------------------------------------------------------------------
(* The ring.                                                               *)

\* A walk of n frames: the first, and then where step leads from the one before.
Walk(step, first, n) ==
  LET at[k \in 0 .. n - 1] == IF k = 0 THEN first ELSE step[at[k - 1]] IN at

\* The k-th frame against the order of use from entry_point (the walk of prev),
\* and the k-th along the ring from its next.
Newest(c, e, n) == Walk([f \in Frame |-> c[f].prev], e, n)
Oldest(c, e, n) == Walk([f \in Frame |-> c[f].next], c[e].next, n)

\* find_index_from_page_buffer: the first hit of the two walks, the oldest
\* frame before the newest one; -1 when neither meets the page.
FindIndex(c, e, n, p) ==
  LET old == Oldest(c, e, n)
      new == Newest(c, e, n)
      hits == {k \in 0 .. n - 1 : c[old[k]].page = p \/ c[new[k]].page = p}
      k == CHOOSE h \in hits : \A g \in hits : h <= g
  IN IF hits = {} THEN -1
     ELSE IF c[old[k]].page = p THEN old[k] ELSE new[k]

Index(p) == FindIndex(cb, entry, used, p)

\* Faulty: the frame after f keeps f as its prev.
RelinkForward(c, e, f) ==
  LET out == [c EXCEPT ![c[f].prev].next = c[f].next]
      m == out[e].next
      in == [[out EXCEPT ![e].next = f] EXCEPT ![m].prev = f]
  IN [[in EXCEPT ![f].next = m] EXCEPT ![f].prev = e]

\* Frame f taken out of its place and linked in after frame e, reading next and
\* prev in the order of the code, which matters when f is e.
Relink(c, e, f) ==
  LET p == c[f].prev
      n == c[f].next
      out == [[c EXCEPT ![p].next = n] EXCEPT ![n].prev = p]
      m == out[e].next
      in == [[out EXCEPT ![e].next = f] EXCEPT ![m].prev = f]
  IN [[in EXCEPT ![f].next = m] EXCEPT ![f].prev = e]

\* The unused frame f linked in after frame e.
LinkNew(c, e, f) ==
  LET n == c[e].next
      linked == [[c EXCEPT ![f].next = n] EXCEPT ![f].prev = e]
  IN [[linked EXCEPT ![e].next = f] EXCEPT ![n].prev = f]

\* Faulty: the pins are not looked at.
VictimsPinned == 0 .. used - 1

\* The frames that can be replaced, as positions from the oldest frame on; the
\* oldest of them is the victim.
Victims == LET old == Oldest(cb, entry, used)
           IN {k \in 0 .. used - 1 : cb[old[k]].pins = 0}
Victim == LET unpinned == Victims
          IN Oldest(cb, entry, used)[CHOOSE k \in unpinned : \A h \in unpinned : k <= h]
NoVictim == used = NumFrames /\ Victims = {}

-----------------------------------------------------------------------------
(* read_new_page and flush_buffer, as the state they leave.                *)

\* Faulty: a dirty page is dropped.
WriteNothing(d, b) == d

\* The file after the page in a dirty block is written back.
WriteBack(d, b) == IF b.dirty THEN [d EXCEPT ![b.page] = b.data] ELSE d

\* Frame f with page q as it is in the file.
Fill(c, f, q) == [c EXCEPT ![f] = [page |-> q, data |-> disk[q], dirty |-> FALSE, pins |-> 0,
                                   next |-> @.next, prev |-> @.prev]]

\* Faulty: the page that is replaced is counted on.
UsedAlways == used + 1

\* number_of_pages grows as long as there are frames not in use.
UsedAfter == IF used < NumFrames THEN used + 1 ELSE used

\* The page is read first, then the victim is written back when all frames are
\* in use; the page becomes the one used last.
Loaded(q) ==
  LET f == IF used < NumFrames THEN used ELSE Victim
      c == Fill(cb, f, q)
  IN [cb    |-> CASE used = 0 -> [c EXCEPT ![f].next = 0, ![f].prev = 0]
                  [] used > 0 /\ used < NumFrames -> LinkNew(c, entry, f)
                  [] used = NumFrames -> Relink(c, entry, f),
      used  |-> UsedAfter,
      entry |-> f,
      disk  |-> IF used < NumFrames THEN disk ELSE WriteBack(disk, cb[f])]

\* The file once flush_buffer, which takes the frames in order and writes the dirty
\* ones, is done with the first n of them.
Flushed(n) ==
  [p \in Page |->
     LET dirty == {f \in 0 .. n - 1 : cb[f].dirty /\ cb[f].page = p}
     IN IF dirty = {} THEN disk[p]
        ELSE cb[CHOOSE f \in dirty : \A g \in dirty : g <= f].data]

-----------------------------------------------------------------------------
(* Operations.                                                             *)

Pinned == {q \in Page : held[q] > 0}

\* The pins the users of the pool ask for.
MayPin(p) ==
  /\ held[p] < MaxPins
  /\ Cardinality(Pinned \union {p}) <= MaxPinned
  /\ strained' = \/ strained
                 \/ Cardinality(Pinned \union {p}) >= NumFrames
                 \/ Cut(p) # p

\* Faulty: the pin count is used as a flag.
PinFlag(c, f) == [c EXCEPT ![f].pins = 1]

Pin(c, f) == [c EXCEPT ![f].pins = @ + 1]
TakePin(p) == held' = [held EXCEPT ![p] = @ + 1]

\* buffer_read_page of a buffered page: pinned, and the one used last.
ReadHit(p) ==
  LET f == Index(p)
      c == Pin(cb, f)
  IN /\ MayPin(p)
     /\ f # -1
     /\ cb' = IF f = entry THEN c ELSE Relink(c, entry, f)
     /\ entry' = f
     /\ TakePin(p)
     /\ UNCHANGED <<used, disk, found, raced, process>>

\* buffer_read_page of a page that is not buffered: read_new_page gets the page
\* number cut to 16 bits, and the page is looked up again by the whole number.
ReadMiss(p) ==
  LET new == Loaded(Cut(p))
      f == FindIndex(new.cb, new.entry, new.used, p)
  IN /\ MayPin(p)
     /\ Index(p) = -1
     /\ ~NoVictim
     /\ used' = new.used /\ entry' = new.entry /\ disk' = new.disk
     /\ UNCHANGED <<found, raced>>
     /\ \/ f # -1 /\ cb' = Pin(new.cb, f) /\ TakePin(p) /\ UNCHANGED process
        \/ f = -1 /\ cb' = new.cb /\ process' = "exit" /\ UNCHANGED held

\* Every frame read_new_page looks at is pinned: the process exits.
ReadNoBuffer(p) ==
  /\ MayPin(p)
  /\ Index(p) = -1
  /\ NoVictim
  /\ process' = "exit"
  /\ UNCHANGED <<cb, used, entry, disk, held, found, raced>>

\* In an empty pool, as it is for the first call after every init_buffer, the search
\* for any page begins by reading next of the control block before the first one.
\* What it reads is not used (ReadMiss), if the process survives the reading.
ReadEmpty(p) ==
  /\ MayPin(p)
  /\ used = 0
  /\ process' = "crash"
  /\ UNCHANGED <<cb, used, entry, disk, held, found, raced>>

\* buffer_write_page or unpin_page begins: a user that has the page pinned looks its
\* frame up.
LookUp(p) ==
  LET f == Index(p)
  IN /\ found = {} /\ held[p] > 0
     /\ found' = {[page |-> p, frame |-> f, entry |-> entry,
                   pins |-> IF f = -1 THEN 0 ELSE cb[f].pins]}
     /\ UNCHANGED <<cb, used, entry, disk, held, strained, raced, process>>

\* The frames a call may have found: a walk along a ring that was relinked under it
\* may have missed the page.
FramesOf(c) == {c.frame} \union IF entry = c.entry THEN {} ELSE {-1}

\* The pins a call may leave when it takes one off frame f, which was pinned by a read
\* between its load and its store, or did so itself between those of the read.
PinsLeft(c, f) ==
  {cb[f].pins - 1} \union IF cb[f].pins = c.pins THEN {} ELSE {c.pins - 1, cb[f].pins}

\* Frame f written to.
Put(c, f, v) == [[c EXCEPT ![f].dirty = TRUE] EXCEPT ![f].data = v]

\* The rest of buffer_write_page.  The process exits when the frame is unpinned, and
\* without a frame it reads a control block that is not there.
Write(v) ==
  \E c \in found : \E f \in FramesOf(c) :
    LET writable == f # -1 /\ cb[f].pins # 0
    IN /\ found' = {}
       /\ cb' = IF writable THEN Put(cb, f, v) ELSE cb
       /\ process' = IF f = -1 THEN "crash" ELSE IF writable THEN process ELSE "exit"
       /\ raced' = (f # c.frame)
       /\ UNCHANGED <<used, entry, disk, held, strained>>

\* The rest of unpin_page.
Unpin ==
  \E c \in found : \E f \in FramesOf(c) :
    /\ found' = {}
    /\ held' = [held EXCEPT ![c.page] = @ - 1]
    /\ UNCHANGED <<used, entry, disk, strained>>
    /\ \/ /\ f = -1
          /\ process' = "crash" /\ raced' = (c.frame # -1)
          /\ UNCHANGED cb
       \/ /\ f # -1
          /\ \E n \in PinsLeft(c, f) : /\ cb' = [cb EXCEPT ![f].pins = n]
                                      /\ raced' = (n # cb[f].pins - 1)
          /\ UNCHANGED process

\* What init_buffer makes of the pool when the database is opened again.
Reopened == /\ cb' = [f \in Frame |-> EmptyBlock]
            /\ used' = 0
            /\ entry' = -1
            /\ held' = [p \in Page |-> 0]
            /\ found' = {}
            /\ strained' = FALSE
            /\ raced' = FALSE

\* shutdown_buffer flushes, and init_buffer starts over.
Shutdown == Reopened /\ disk' = Flushed(used) /\ UNCHANGED process

\* The process is killed and started again: the frames are lost, but for those that
\* shutdown_buffer had written if it was killed in its flush.
Crash == /\ Reopened
         /\ \E n \in 0 .. used : disk' = Flushed(n)
         /\ UNCHANGED process

Next == /\ process = "up" /\ ~raced
        /\ \/ \E p \in Page : \/ ReadHit(p) \/ ReadMiss(p) \/ ReadNoBuffer(p)
                              \/ ReadEmpty(p) \/ LookUp(p)
           \/ \E v \in Value : Write(v)
           \/ Unpin
           \/ Shutdown
           \/ Crash

Spec == Init /\ [][Next]_vars

-----------------------------------------------------------------------------
(* Safety.                                                                 *)

\* As long as users leave a frame unpinned, the frames in use form one ring: along
\* next every one of them is met once before the walk is back at entry_point,
\* and prev is the way back.
RingIntact ==
  used > 0 /\ ~strained =>
    LET old == Oldest(cb, entry, used)
    IN /\ {old[k] : k \in 0 .. used - 1} = 0 .. used - 1
       /\ old[used - 1] = entry
       /\ \A f \in 0 .. used - 1 : cb[cb[f].next].prev = f

\* A page is in at most one frame, and the pins on the frame are those its
\* users hold: a pinned page is found, by its user and by nobody else's unpin, and no
\* pin is lost although unpin_page is called without the mutex, but in a data race.
PinsAgree ==
  ~strained /\ ~raced =>
    \A p \in Page :
      LET fs == {f \in 0 .. used - 1 : cb[f].page = p}
      IN /\ Cardinality(fs) <= 1
         /\ held[p] = IF fs = {} THEN 0 ELSE cb[CHOOSE f \in fs : TRUE].pins

\* Users that pin what they use, and leave a frame unpinned, never make the pool
\* give up.  The only control block that is not there which it reads is the one
\* before the first, when the pool is empty, and others in a data race.
StaysUp == process # "up" => strained \/ raced \/ (process = "crash" /\ used = 0)

\* No pin is lost and none invented, whatever frame it went to: the pool can run
\* out of frames only by pins its users have not given back.
PinsConserved ==
  process = "up" /\ ~raced =>
    FoldFunctionOnSet(+, 0, [f \in Frame |-> cb[f].pins], 0 .. used - 1)
      = FoldFunctionOnSet(+, 0, held, Page)

\* s lists the frames 0 .. n - 1, each of them once.
Lists(s, n) == /\ s \in [0 .. n - 1 -> 0 .. n - 1]
               /\ \A f \in 0 .. n - 1 : \E k \in 0 .. n - 1 : s[k] = f
               /\ \A a, b \in 0 .. n - 1 : s[a] = s[b] => a = b

\* The frames 0 .. n - 1 of the ring c are in the order s, from the oldest to e.
InOrder(c, e, n, s) ==
  /\ Lists(s, n)
  /\ s[n - 1] = e /\ c[e].next = s[0] /\ c[s[0]].prev = e
  /\ \A k \in 1 .. n - 1 : c[s[k - 1]].next = s[k] /\ c[s[k]].prev = s[k - 1]

\* The frames in use hold different pages, those their pins and calls go to.
PagesInPlace ==
  /\ \A f \in 0 .. used - 1 : cb[f].page \in Page
  /\ \A f, g \in 0 .. used - 1 : cb[f].page = cb[g].page => f = g
  /\ ~raced => /\ \A f \in 0 .. used - 1 : cb[f].pins = held[cb[f].page]
               /\ \A p \in Pinned : \E f \in 0 .. used - 1 : cb[f].page = p
  /\ \A c \in found : c.frame \in 0 .. used - 1 /\ cb[c.frame].page = c.page

\* What the steps of the pool keep, all of it at once: a victim other than the frame
\* used last is found as long as a frame is left unpinned, so the ring stays a ring,
\* so the search finds every page, so no page is loaded twice and no pin goes to
\* another page, which is what leaves a frame unpinned.
RingInv ==
  /\ used > 0 => entry # -1
  /\ IsFiniteSet(Pinned)
  /\ \A c \in found : held[c.page] > 0
  /\ ~strained => /\ Cardinality(Pinned) < NumFrames
                  /\ used > 0 => \E s \in [0 .. used - 1 -> 0 .. used - 1] :
                                   InOrder(cb, entry, used, s)
                  /\ PagesInPlace
                  /\ process # "up" => raced \/ (process = "crash" /\ used = 0)

\* A frame that is not dirty has what is in the file.
CleanOnDisk == \A f \in 0 .. used - 1 : cb[f].dirty \/ cb[f].data = disk[cb[f].page]

\* The ring is kept, and so a frame that is reused or lost without being written back
\* has nothing the file lacks: a page read again is the page as it was left.
PoolInv == RingInv /\ (~strained => CleanOnDisk)

\* A pinned page stays in its frame until its last pin is given back, also while
\* other pages come and go, and between the search for the frame and its use; only
\* the end of the process takes it away.
PinnedStaysPut ==
  [][\A p \in Page : held[p] > 0 /\ held'[p] > 0 /\ ~strained' =>
       Index(p)' = Index(p)]_vars
=============================================================================
