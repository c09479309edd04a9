----------------------------- MODULE MCSourceLoad -----------------------------
(***************************************************************************)
(* Instances of SourceLoad for TLC.                                        *)
(***************************************************************************)
EXTENDS SourceLoad

\* A site with page numbers and regular loads, some of which break; and a channel of which
\* every kind of load is made, for several dates.
Paged == [paging |-> "page", kinds |-> {"regular"}, dates |-> {}, archive |-> 2, posts |-> 6,
          removals |-> 0, ages |-> 0, breaks |-> 2]
Channel == [paging |-> "before", kinds |-> AllKinds, dates |-> {1, 3}, archive |-> 3, posts |-> 4,
            removals |-> 0, ages |-> 1, breaks |-> 0]
\* A channel with regular loads only, which break or find it shut, whose posts grow old and
\* which takes one down.
Followed == [paging |-> "before", kinds |-> {"regular"}, dates |-> {}, archive |-> 1, posts |-> 4,
             removals |-> 1, ages |-> 2, breaks |-> 2]
ThreeSources == {Paged, Channel, Followed}

Second == {2}
Third == {3}
=============================================================================
