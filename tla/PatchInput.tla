------------------------------- MODULE PatchInput -------------------------------
(***************************************************************************)
(* How a patch is put together before it is merged, and how patches are    *)
(* joined in memory (patch/patch.cc, patch/patch_element_iterator.cc,      *)
(* Controller::ingest, controller/patch_builder.cc).  A patch is the       *)
(* sequence of its elements, each a triple, whether it is an addition, and *)
(* whether it is a local change.                                           *)
(*                                                                         *)
(* What an iterator counts of the elements is in Controller (Passed),      *)
(* where it matters.                                                       *)
(***************************************************************************)
EXTENDS DeltaMaterialized

Element(t, added) == [triple |-> t, addition |-> added, local |-> FALSE]

-----------------------------------------------------------------------------
(* Patch element iterators *)

\* PatchElementIteratorTripleStrings: a file has its triples in SPO order.
FromFile(triples, added) ==
  LET sorted == Traversed("___", triples)
  IN [i \in DOMAIN sorted |-> Element(sorted[i], added)]

(***************************************************************************)
(* PatchElementIteratorCombined: every iterator has one element buffered;  *)
(* the least triple is taken, from the first iterator that has it.         *)
(***************************************************************************)
Combined(iterators) ==
  LET from[at \in [DOMAIN iterators -> Nat]] ==
        LET valid == {i \in DOMAIN iterators : at[i] <= Len(iterators[i])}
            buffer(i) == iterators[i][at[i]]
            chosen == CHOOSE i \in valid : \A j \in valid :
                        \/ buffer(i).triple < buffer(j).triple
                        \/ buffer(i).triple = buffer(j).triple /\ i <= j
        IN IF valid = {} THEN <<>>
           ELSE <<buffer(chosen)>> \o from[[at EXCEPT ![chosen] = @ + 1]]
  IN from[[i \in DOMAIN iterators |-> 1]]

-----------------------------------------------------------------------------
(* PatchSorted and PatchHashed *)

\* An element for a triple that the patch has: it stays or becomes relative to the snapshot.
ReplacingKeepingFlag(old, e) == [e EXCEPT !.local = old.local]    \* mutant
Replacing(old, e) == IF old.addition = e.addition THEN e ELSE [e EXCEPT !.local = ~old.local]

\* PatchSorted::sort, by the triple alone.
Sorted(elements) == SortSeq(elements, LAMBDA e, f : e.triple < f.triple)

\* PatchSorted::add, and addAll for several.
AddToSorted(patch, e) ==
  LET same == SelectSeq(patch, LAMBDA f : f.triple = e.triple)
  IN SelectSeq(patch, LAMBDA f : f.triple < e.triple)
       \o <<IF same = <<>> THEN e ELSE Replacing(same[1], e)>>
       \o SelectSeq(patch, LAMBDA f : f.triple > e.triple)
AddAll(patch, elements) == FoldLeft(AddToSorted, patch, elements)

\* PatchHashed::join_sorted
JoinSorted(hashed, patch) ==
  LET existing(e) == {f \in hashed : f.triple = e.triple}
      joined(e) == IF existing(e) = {} THEN e
                   ELSE Replacing(CHOOSE f \in existing(e) : TRUE, e)
      kept == {f \in hashed : \A i \in DOMAIN patch : patch[i].triple # f.triple}
  IN Sorted([i \in DOMAIN patch |-> joined(patch[i])] \o SetToSeq(kept))

-----------------------------------------------------------------------------
(* The patch that append merges *)

\* ingest of files that are sorted: each has additions or deletions.
IngestedSorted(files) == Combined([i \in DOMAIN files |-> FromFile(files[i][1], files[i][2])])

\* ingest with sorting, and PatchBuilder: elements in any order, sorted at the end.
Collected(elements) == Sorted(elements)

Patch(adds, dels) == {Element(t, TRUE) : t \in adds} \cup {Element(t, FALSE) : t \in dels}

\* Its triples in two files of additions and one of deletions.
Files(adds, dels) ==
  {<< <<dels, FALSE>>, <<part, TRUE>>, <<adds \ part, TRUE>> >> : part \in SUBSET adds}

-----------------------------------------------------------------------------

\* The elements of the version before the one of id, with the local changes.
PatchBefore(id) == IF id = MinPatchId THEN <<>> ELSE Reconstructed(id - 1, FALSE)

(***************************************************************************)
(* The merge into the trees is the join of patches in memory: for every    *)
(* published version, however the elements of its patch are spread over    *)
(* sorted files, or in whatever order they are collected, joining them     *)
(* with the patch reconstructed for the version before (join_sorted, or    *)
(* add one by one) gives the patch that is reconstructed for it, with the  *)
(* flag of every local change; also while a later patch is merged.  The    *)
(* patch of a version is its difference from the one before.               *)
(***************************************************************************)
MergeIsJoin ==
  \A id \in Published :
    LET adds == Version(id) \ Version(id - 1)
        dels == Version(id - 1) \ Version(id)
        before == PatchBefore(id)
        after == Reconstructed(id, FALSE)
        patch == LET sorted == Traversed("___", adds \cup dels)
                 IN [i \in DOMAIN sorted |-> Element(sorted[i], sorted[i] \in adds)]
    IN /\ JoinSorted(Range(before), patch) = after
       /\ \A files \in Files(adds, dels) : IngestedSorted(files) = patch
       /\ \A order \in SetToSeqs(Patch(adds, dels)) :
            /\ Collected(order) = patch
            /\ AddAll(before, order) = after
===============================================================================
