-------------------------------- MODULE Arena --------------------------------
(***************************************************************************)
(* The block allocator, util/arena.h.  Memory is a row of pages; a pointer *)
(* is a page and an offset in it.  A page starts at a multiple of its      *)
(* declared alignment, so an offset is aligned when the address is.        *)
(* allocate_block is cut where it calls itself again.                      *)
(***************************************************************************)
EXTENDS Integers, Sequences

CONSTANTS
  PAGE_SIZE,
  PAGE_ALIGNMENT,
  MAX_SMALL_BLOCK_SIZE,
  Requests,      \* what allocate_block is asked for
  MaxBlocks      \* bound: blocks allocated in a behaviour

ASSUME SizeAssumption ==
  /\ PAGE_SIZE \in Nat /\ MAX_SMALL_BLOCK_SIZE \in 1..PAGE_SIZE
  /\ PAGE_ALIGNMENT \in Nat \ {0}
  /\ MaxBlocks \in Nat
ASSUME RequestAssumption ==
  \A r \in Requests : /\ r \in [size : Nat \ {0}, alignment : Nat \ {0}]
                      /\ PAGE_ALIGNMENT % r.alignment = 0

VARIABLES
  pages,         \* pages.size()
  active,        \* active_page_first_free_byte is not null ...
  first_free,    \* ... and this is its offset in the last page
  bytes_left,    \* active_page_bytes_left
  blocks,        \* what was returned, in order
  doing,         \* idle, allocate or terminated
  request,       \* the arguments of the call under way
  opened         \* history: that call has opened a page

pageVars == <<pages, active, first_free, bytes_left>>
arenaVars == <<pageVars, blocks, doing, request, opened>>

Blocks == [page : Nat, at : Nat, size : Nat \ {0}, alignment : Nat \ {0}]

ArenaInit ==
  /\ pages = 0
  /\ active = FALSE
  /\ first_free = 0
  /\ bytes_left = 0
  /\ blocks = <<>>
  /\ doing = "idle"
  /\ request \in Requests
  /\ opened = FALSE

New(r) ==
  /\ doing = "idle"
  /\ Len(blocks) < MaxBlocks
  /\ doing' = "allocate"
  /\ request' = r
  /\ opened' = FALSE
  /\ UNCHANGED <<pageVars, blocks>>

IsSmall == request.size <= MAX_SMALL_BLOCK_SIZE

\* Larger blocks are not implemented: the program terminates.
Terminate ==
  /\ doing = "allocate"
  /\ ~IsSmall
  /\ doing' = "terminated"
  /\ UNCHANGED <<pageVars, blocks, request, opened>>

\* Mutant: the size of the new page is not stored.
NewPageWithoutSize ==
  /\ doing = "allocate"
  /\ IsSmall
  /\ ~active
  /\ pages' = pages + 1
  /\ active' = TRUE
  /\ first_free' = 0
  /\ opened' = TRUE
  /\ UNCHANGED <<bytes_left, blocks, doing, request>>

NewPage ==
  /\ doing = "allocate"
  /\ IsSmall
  /\ ~active
  /\ pages' = pages + 1
  /\ active' = TRUE
  /\ first_free' = 0
  /\ bytes_left' = PAGE_SIZE
  /\ opened' = TRUE
  /\ UNCHANGED <<blocks, doing, request>>

Aligned(at) == at % request.alignment = 0

\* Mutant: the place is not aligned.
UnalignedRoom(at) ==
  /\ at \in first_free..(first_free + bytes_left)
  /\ at + request.size <= first_free + bytes_left

\* std::align finds the first aligned place, if the block fits there.
Room(at) ==
  /\ at \in first_free..(first_free + bytes_left)
  /\ at + request.size <= first_free + bytes_left
  /\ Aligned(at)

\* Mutant: the padding is not taken off.
AllocateWithoutPadding ==
  /\ doing = "allocate"
  /\ IsSmall
  /\ active
  /\ \E at \in first_free..(first_free + bytes_left) :
       /\ Room(at)
       /\ \A o \in first_free..(at - 1) : ~Aligned(o)
       /\ blocks' = Append(blocks, [page |-> pages, at |-> at, size |-> request.size,
                                    alignment |-> request.alignment])
       /\ first_free' = first_free + request.size
       /\ bytes_left' = bytes_left - request.size
  /\ doing' = "idle"
  /\ UNCHANGED <<pages, active, request, opened>>

Allocate ==
  /\ doing = "allocate"
  /\ IsSmall
  /\ active
  /\ \E at \in first_free..(first_free + bytes_left) :
       /\ Room(at)
       /\ \A o \in first_free..(at - 1) : ~Aligned(o)
       /\ blocks' = Append(blocks, [page |-> pages, at |-> at, size |-> request.size,
                                    alignment |-> request.alignment])
       /\ first_free' = at + request.size
       /\ bytes_left' = bytes_left - (at - first_free) - request.size
  /\ doing' = "idle"
  /\ UNCHANGED <<pages, active, request, opened>>

\* Mutant: the page is given up although the pointer stays.
RetryKeepsPointer ==
  /\ doing = "allocate"
  /\ IsSmall
  /\ active
  /\ \A at \in first_free..(first_free + bytes_left) : ~Room(at)
  /\ bytes_left' = 0
  /\ UNCHANGED <<pages, active, first_free, blocks, doing, request, opened>>

\* No room in the active page: give it up and call allocate_block again.
Retry ==
  /\ doing = "allocate"
  /\ IsSmall
  /\ active
  /\ \A at \in first_free..(first_free + bytes_left) : ~Room(at)
  /\ active' = FALSE
  /\ bytes_left' = 0
  /\ UNCHANGED <<pages, first_free, blocks, doing, request, opened>>

ArenaNext ==
  \/ \E r \in Requests : New(r)
  \/ Terminate
  \/ NewPage
  \/ Allocate
  \/ Retry

ArenaSpec == ArenaInit /\ [][ArenaNext]_arenaVars

\* A call that was made keeps running; nobody has to make one.
ArenaFairSpec == ArenaSpec /\ WF_arenaVars(Terminate \/ NewPage \/ Allocate \/ Retry)

-----------------------------------------------------------------------------
(* Correctness.                                                            *)

ArenaTypeOK ==
  /\ pages \in Nat
  /\ active \in BOOLEAN
  /\ first_free \in 0..PAGE_SIZE
  /\ bytes_left \in 0..PAGE_SIZE
  /\ blocks \in Seq(Blocks)
  /\ doing \in {"idle", "allocate", "terminated"}
  /\ request \in Requests
  /\ opened \in BOOLEAN

\* No byte is handed out twice: padding, page changes and retries never make
\* two of allocate_block's results overlap (arena.h:19-43).
BlocksDisjoint ==
  \A i, j \in DOMAIN blocks : i < j =>
    \/ blocks[i].page # blocks[j].page
    \/ blocks[i].at + blocks[i].size <= blocks[j].at

\* Every result lies in a page the arena owns and is aligned as asked.
BlocksPlaced ==
  \A i \in DOMAIN blocks :
    /\ blocks[i].page \in 1..pages
    /\ blocks[i].at + blocks[i].size <= PAGE_SIZE
    /\ blocks[i].at % blocks[i].alignment = 0

\* A call that has opened a page finds room in it: allocate_block calls itself
\* at most once, and a page is given up only by a call that found it in use.
OnePagePerCall == doing = "allocate" /\ opened => active

\* The inductive invariant: the two page variables agree, a page opened by the
\* call under way is empty, and the active page is free from first_free on.
PageInv ==
  /\ active => first_free + bytes_left = PAGE_SIZE /\ pages >= 1
  /\ doing = "allocate" /\ opened => active /\ first_free = 0
  /\ \A i \in DOMAIN blocks :
       active /\ blocks[i].page = pages => blocks[i].at + blocks[i].size <= first_free

ArenaIInv == ArenaTypeOK /\ PageInv /\ BlocksPlaced /\ BlocksDisjoint

\* A call returns its block, or the program terminates.
AllocationReturns == doing = "allocate" ~> doing \in {"idle", "terminated"}
=============================================================================
