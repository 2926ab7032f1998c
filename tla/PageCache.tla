------------------------------ MODULE PageCache ------------------------------
(***************************************************************************)
(* What the buffer manager promises: a cache of at most Capacity pages in  *)
(* front of a disk, kept in order of use.  The content a reader sees (vol) *)
(* is the content last written, wherever the page is; the disk content     *)
(* (dur) of a page catches up when the page is replaced or the cache       *)
(* closed; the page replaced is the one not used for longest among those   *)
(* nobody has pinned.                                                      *)
(***************************************************************************)
EXTENDS Naturals, Sequences

CONSTANTS Page, Value, Capacity

VARIABLES order,   \* the pages cached, most recently used first
          pins,    \* pins[p]: how many users have p pinned
          vol,     \* vol[p]: the content of p
          dur      \* dur[p]: the content of p on disk

vars == <<order, pins, vol, dur>>

Init == /\ order = << >>
        /\ pins = [p \in Page |-> 0]
        /\ vol \in [Page -> Value]
        /\ dur = vol

Cached(p) == \E k \in DOMAIN order : order[k] = p

\* s with the element at position k moved out and p put in front.
Promote(s, k, p) == <<p>> \o SubSeq(s, 1, k - 1) \o SubSeq(s, k + 1, Len(s))

Touch(p) ==
  /\ \E k \in DOMAIN order : order[k] = p /\ order' = Promote(order, k, p)
  /\ pins' = [pins EXCEPT ![p] = @ + 1]
  /\ UNCHANGED <<vol, dur>>

Load(p) ==
  /\ ~Cached(p) /\ Len(order) < Capacity
  /\ order' = <<p>> \o order
  /\ pins' = [pins EXCEPT ![p] = @ + 1]
  /\ UNCHANGED <<vol, dur>>

Replace(p) ==
  /\ ~Cached(p) /\ Len(order) = Capacity
  /\ \E k \in DOMAIN order :
       /\ pins[order[k]] = 0
       /\ \A j \in k + 1 .. Len(order) : pins[order[j]] > 0
       /\ order' = Promote(order, k, p)
       /\ dur' = [dur EXCEPT ![order[k]] = vol[order[k]]]
  /\ pins' = [pins EXCEPT ![p] = @ + 1]
  /\ UNCHANGED vol

Write(p, v) ==
  /\ pins[p] > 0
  /\ vol' = [vol EXCEPT ![p] = v]
  /\ UNCHANGED <<order, pins, dur>>

Unpin(p) ==
  /\ pins[p] > 0
  /\ pins' = [pins EXCEPT ![p] = @ - 1]
  /\ UNCHANGED <<order, vol, dur>>

\* Everything is on disk before the cache forgets it.
Close == /\ dur' = vol
         /\ order' = << >>
         /\ pins' = [p \in Page |-> 0]
         /\ UNCHANGED vol

\* A crash leaves what is on disk; some pages may have got there just before, when it
\* comes while the cache is being closed.
Crash == /\ dur' \in [Page -> Value]
         /\ \A p \in Page : dur'[p] \in {dur[p], vol[p]}
         /\ vol' = dur'
         /\ order' = << >>
         /\ pins' = [p \in Page |-> 0]

Next == \/ \E p \in Page : Touch(p) \/ Load(p) \/ Replace(p) \/ Unpin(p)
        \/ \E p \in Page, v \in Value : Write(p, v)
        \/ Close
        \/ Crash

Spec == Init /\ [][Next]_vars
=============================================================================
