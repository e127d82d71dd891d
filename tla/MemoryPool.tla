------------------------------ MODULE MemoryPool ------------------------------
(***************************************************************************)
(* MemoryPool (include/volt/utilities/memory_pool.h): objects are built in *)
(* the slots of pages and destroyed together.  A slot is taken before the  *)
(* object in it is constructed, and only the number of slots taken on the  *)
(* last page is kept; on every other page all of them are.                 *)
(*                                                                         *)
(* A page is the sequence of what its slots hold.  "leaked" has no         *)
(* counterpart: pages that nobody will deallocate.  Moving and swapping    *)
(* pools is left out: nobody does.                                         *)
(***************************************************************************)
EXTENDS Integers, Sequences

CONSTANTS PageSize,   \* _pageSize
          MaxPages    \* bound on the pages allocated at once

ASSUME PageAssumption == PageSize \in Nat \ {0} /\ MaxPages \in Nat

VARIABLES pages,           \* _pages
          lastPageSize,    \* _lastPageSize
          leaked

poolVars == <<pages, lastPageSize, leaked>>

\* raw memory, an object, or what a constructor that threw has left
Holdings == {"raw", "object", "abandoned"}
RawPage  == [i \in 1..PageSize |-> "raw"]

PoolInit == pages = <<>> /\ lastPageSize = PageSize /\ leaked = 0

-----------------------------------------------------------------------------
(* try_allocate_slot(), and what its caller makes of the slot *)

SlotOnLastPage(made) ==
  /\ lastPageSize # PageSize
  /\ pages' = [pages EXCEPT ![Len(pages)] = [@ EXCEPT ![lastPageSize + 1] = made]]
  /\ lastPageSize' = lastPageSize + 1
  /\ UNCHANGED leaked

SlotOnNewPage(made) ==
  /\ lastPageSize = PageSize /\ leaked + Len(pages) < MaxPages
  /\ pages' = Append(pages, [RawPage EXCEPT ![1] = made])
  /\ lastPageSize' = 1
  /\ UNCHANGED leaked

Construct         == SlotOnLastPage("object") \/ SlotOnNewPage("object")
ConstructorThrows == SlotOnLastPage("abandoned") \/ SlotOnNewPage("abandoned")

\* No memory for a page; or, with the page allocated, none to remember it in
NoPage == lastPageSize = PageSize /\ UNCHANGED poolVars
PageForgotten ==
  /\ lastPageSize = PageSize /\ leaked + Len(pages) < MaxPages
  /\ leaked' = leaked + 1
  /\ UNCHANGED <<pages, lastPageSize>>

\* construct() has thrown one of its three exceptions.
ConstructFails == ConstructorThrows \/ NoPage \/ PageForgotten

\* mutant: the page that is kept is still counted as it was
ClearPoolKeepingCount(keepFirstPage) ==
  /\ IF keepFirstPage /\ pages # <<>> THEN pages' = <<RawPage>> /\ UNCHANGED lastPageSize
     ELSE pages' = <<>> /\ lastPageSize' = PageSize
  /\ UNCHANGED leaked

\* mutant: without a kept page the count stays as it was
ClearPoolHalfway(keepFirstPage) ==
  /\ IF keepFirstPage /\ pages # <<>> THEN pages' = <<RawPage>> /\ lastPageSize' = 0
     ELSE pages' = <<>> /\ UNCHANGED lastPageSize
  /\ UNCHANGED leaked

(* clear(), and without a kept page the destructor: every slot taken is destroyed *)
ClearPool(keepFirstPage) ==
  /\ IF keepFirstPage /\ pages # <<>> THEN pages' = <<RawPage>> /\ lastPageSize' = 0
     ELSE pages' = <<>> /\ lastPageSize' = PageSize
  /\ UNCHANGED leaked

PoolNext == Construct \/ ConstructFails \/ \E keep \in BOOLEAN : ClearPool(keep)

PoolSpec == PoolInit /\ [][PoolNext]_poolVars

-----------------------------------------------------------------------------
(* Properties *)

(* Types, and a page to take the next slot from unless a new one is due *)
PoolTypeOK ==
  /\ pages \in Seq([1..PageSize -> Holdings])
  /\ lastPageSize \in 0..PageSize
  /\ pages = <<>> => lastPageSize = PageSize
  /\ leaked \in Nat

\* The slots clear() would run destructors on
IsTaken(k, i) == i <= IF k = Len(pages) THEN lastPageSize ELSE PageSize

(* Whenever clear() or the destructor comes, it destroys each object, once, and besides   *)
(* them only what constructors that threw have left: never memory nothing was built in.   *)
PoolDestroysOnce ==
  \A k \in DOMAIN pages, i \in 1..PageSize : IsTaken(k, i) <=> pages[k][i] # "raw"
===============================================================================
