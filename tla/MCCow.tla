-------------------------------- MODULE MCCow --------------------------------
(* Instances of Cow for TLC. *)
EXTENDS CowInv

LowestFirst(S) == CHOOSE x \in S : \A y \in S : x <= y

(* No page-table page is needed below the root. *)
FlatTable == [v \in VPage |-> {}]
(* Each user page has its own last-level table: walk may fail at any page. *)
TablePerPage == [v \in VPage |-> {v}]

(* Pages are interchangeable: a state is told apart by who holds each page *)
(* that is not free, and by how many are free, not by page numbers.        *)
UpToPageNames ==
  <<{<<LeafRefs(pa), TabRefs(pa), MemRefs(pa), {p \in Proc : freeing[p] = pa},
       content[pa], refer_count[pa]>> : pa \in PA \ freelist},
    Cardinality(freelist),
    [s \in Space |-> [v \in VPage |-> [leaf[s][v] EXCEPT !.pa = NULL]]],
    sz, procs, [p \in Proc |-> [th[p] EXCEPT !.mem = NULL]]>>

NoImage == <<>>
SmallImage == <<"text", "guard", "data">>

FirstPage == {<<0, 1>>}
AcrossPages == {<<1, 2>>}

GrowAndShrink == {2, -3}
=============================================================================
