--------------------------- MODULE BufferPoolCache ---------------------------
(* The buffer pool implements PageCache: the refinement mapping. *)
EXTENDS BufferPool

\* The ring read backwards from entry_point is the order of use.
orderBar == LET new == Newest(cb, entry, used) IN [k \in 1 .. used |-> cb[new[k - 1]].page]

\* The content of a page is in its frame when it has one, in the file otherwise.
volBar == [p \in Page |->
             LET fs == {f \in 0 .. used - 1 : cb[f].page = p}
             IN IF fs = {} THEN disk[p] ELSE cb[CHOOSE f \in fs : TRUE].data]

Cache == INSTANCE PageCache WITH Capacity <- NumFrames, order <- orderBar,
                                 pins <- held, vol <- volBar, dur <- disk

\* Every run of the pool is a run of the cache, up to a step after which its users
\* have no frame left or no 16-bit page number, or a pin is lost in a data race: a
\* read finds what was written last, in the frame or in the file; a page that is
\* replaced was the one unused for longest of those not pinned, and its content
\* reaches the file first; a shutdown leaves every page in the file.
ImplementsPageCache ==
  /\ Cache!Init
  /\ [][strained \/ strained' \/ raced' \/ [Cache!Next]_Cache!vars]_vars
=============================================================================
