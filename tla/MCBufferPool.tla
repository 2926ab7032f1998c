----------------------------- MODULE MCBufferPool -----------------------------
(* BufferPool and its refinement of PageCache on a small instance. *)
EXTENDS BufferPoolCache, TLC

CONSTANTS p0, p1, p2, p3, p4, p5

MCPage == {p0, p1, p2, p3, p4, p5}
\* p4 and p5 are page numbers of 2^16 or more, which come out as another number.
MCCut(p) == CASE p = p4 -> p5 [] p = p5 -> p4 [] p \notin {p4, p5} -> p
Symmetry == Permutations({p0, p1, p2, p3})

\* What the pool does is followed as long as one page at most is pinned twice, two
\* frames at most are dirty, one with a page pinned twice, and two pages at most are
\* changed in the file; once its users have strained it, as long as no page is pinned
\* twice and nothing has been written.
Followed == /\ LET twice == Cardinality({p \in Page : held[p] > 1})
                   dirty == Cardinality({f \in Frame : cb[f].dirty})
               IN twice <= 1 /\ twice + dirty <= 2
            /\ Cardinality({p \in Page : disk[p] # AnyValue}) <= 2
            /\ strained => /\ \A f \in Frame : cb[f].pins <= 1 /\ ~cb[f].dirty
                           /\ \A p \in Page : disk[p] = AnyValue
=============================================================================
