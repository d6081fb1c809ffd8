-------------------------------- MODULE NodePool --------------------------------
(***************************************************************************)
(* libs/libufdt/ufdt_node_pool.c: the memory of the nodes of unflattened   *)
(* device trees.  Nodes are entries of blocks of one size; the blocks are  *)
(* in a linked list that ends at last_block_ptr, and each has a list of    *)
(* its free entries.                                                       *)
(*                                                                         *)
(* Both lists are sequences here.  The links of a free list are kept in    *)
(* the free entries themselves: that they stay intact is that no free      *)
(* entry is a node a client writes to, HandedOutOnce.  What is stored      *)
(* through last_block_ptr goes where that points, the end of the list or   *)
(* not.  dto_malloc succeeds: the code writes to a block without looking   *)
(* whether it got one.                                                     *)
(***************************************************************************)
EXTENDS Integers, Sequences, FiniteSets, SequencesExt

CONSTANTS
    Blocks,           \* addresses of blocks that dto_malloc may return
    ENTRIES_PER_BLOCK,  \* UFDT_NODE_POOL_ENTRIES_PER_BLOCK
    NULL

ASSUME ConstantsAreTyped == ENTRIES_PER_BLOCK \in Nat \ {0} /\ NULL \notin Blocks

Entries == Blocks \X (1..ENTRIES_PER_BLOCK)

(* What last_block_ptr points to: the member next_block of a block, or     *)
(* first_block of the pool.                                                *)
Pool == NULL

VARIABLES
    heap,             \* the blocks allocated from the system
    blocks,           \* the list that starts at first_block
    last_block_ptr,   \* Pool, or the block whose next_block it points to
    free_entries,     \* the list that starts at first_free_entry, for each block
    alloc_entry_cnt,
    nodes,            \* history: the nodes clients have and did not give back
    leak_reported     \* what the last ufdt_node_pool_destruct found: is_leak

vars == <<heap, blocks, last_block_ptr, free_entries, alloc_entry_cnt, nodes,
          leak_reported>>

----------------------------------------------------------------------------
(* The list of blocks, and the pointer to its end: a pair in each operator *)

(* The value of the pointer that p points to. *)
Deref(list, p) ==
    LET next == IF p = Pool THEN 1 ELSE 1 + CHOOSE i \in DOMAIN list : list[i] = p
    IN  IF next \in DOMAIN list THEN list[next] ELSE NULL

(* The pointer that holds the address of the i-th block. *)
PointerTo(list, i) == IF i = 1 THEN Pool ELSE list[i - 1]

PreppendBlock(list, last, block) ==
    <<<<block>> \o list, IF list = << >> THEN block ELSE last>>

(* The block becomes what last points to; nothing comes behind it. *)
AppendBlock(list, last, block) ==
    <<IF last = Pool THEN <<block>>
      ELSE IF last \notin Range(list) THEN list
      ELSE Append(SubSeq(list, 1, CHOOSE i \in DOMAIN list : list[i] = last), block),
      block>>

(* Mutated form of RemoveBlock: the pointer to the end is left alone. *)
RemoveBlock_EndKept(list, last, i) == <<RemoveAt(list, i), last>>

RemoveBlock(list, last, i) ==
    <<RemoveAt(list, i), IF i = Len(list) THEN PointerTo(list, i) ELSE last>>

SetList(list) == blocks' = list[1] /\ last_block_ptr' = list[2]

----------------------------------------------------------------------------
(* The calls *)

Init ==
    /\ heap = {} /\ blocks = << >> /\ last_block_ptr = Pool
    /\ free_entries = [b \in Blocks |-> << >>]
    /\ alloc_entry_cnt = [b \in Blocks |-> 0]
    /\ nodes = {} /\ leak_reported = FALSE

(* A full first block is moved behind all others. *)
MovedIfFull(list, last, is_full) ==
    IF is_full /\ Deref(list, last) # Head(list)
    THEN LET rest == RemoveBlock(list, last, 1)
         IN  AppendBlock(rest[1], rest[2], Head(list))
    ELSE <<list, last>>

(* Mutated form of Alloc: the entry stays on the free list. *)
Alloc_StaysFree(list, last, entries) ==
    LET block == Head(list)
    IN  /\ free_entries' = [free_entries EXCEPT ![block] = entries]
        /\ SetList(<<list, last>>)
        /\ nodes' = nodes \cup {Head(entries)}

(* An entry is taken from the first block of list, which has the free      *)
(* entries given.                                                          *)
Alloc(list, last, entries) ==
    LET block == Head(list)
    IN  /\ free_entries' = [free_entries EXCEPT ![block] = Tail(entries)]
        /\ SetList(MovedIfFull(list, last, Tail(entries) = << >>))
        /\ nodes' = nodes \cup {Head(entries)}

FirstHasRoom == blocks # << >> /\ free_entries[Head(blocks)] # << >>

(* ufdt_node_pool_alloc when the first block has a free entry *)
AllocFromFirst ==
    /\ FirstHasRoom
    /\ Alloc(blocks, last_block_ptr, free_entries[Head(blocks)])
    /\ alloc_entry_cnt' = [alloc_entry_cnt EXCEPT ![Head(blocks)] = @ + 1]
    /\ UNCHANGED <<heap, leak_reported>>

(* A new block becomes the first. *)
NewBlock(block) == PreppendBlock(blocks, last_block_ptr, block)

(* Mutated form of CreateBlock: one entry more than the block has room for.*)
CreateBlock_OneTooMany(block) == [i \in 1..(ENTRIES_PER_BLOCK + 1) |-> <<block, i>>]

(* The free list of a new block has its entries from the first to the last.*)
CreateBlock(block) == [i \in 1..ENTRIES_PER_BLOCK |-> <<block, i>>]

(* ufdt_node_pool_alloc when it has none, or there is no block *)
AllocFromNew(block) ==
    /\ ~FirstHasRoom
    /\ block \notin heap
    /\ heap' = heap \cup {block}
    /\ Alloc(NewBlock(block)[1], NewBlock(block)[2], CreateBlock(block))
    /\ alloc_entry_cnt' = [alloc_entry_cnt EXCEPT ![block] = 1]
    /\ UNCHANGED leak_reported

(* A block is given back when none of its entries is in use and the first  *)
(* of the others has room.                                                 *)
MayDestroy(count, rest) ==
    count = 0 /\ rest # << >> /\ free_entries[Head(rest)] # << >>

(* Blocks go back to the system, with all that is in them. *)
GiveBack(bs) ==
    /\ heap' = heap \ bs
    /\ free_entries' = [b \in Blocks |-> IF b \in bs THEN << >> ELSE free_entries[b]]
    /\ alloc_entry_cnt' = [b \in Blocks |-> IF b \in bs THEN 0 ELSE alloc_entry_cnt[b]]

(* ufdt_node_pool_free: the block the node is in leaves the list, and      *)
(* comes back as the first unless it is destroyed.  A node in no block of  *)
(* the list is reported, and nothing is done.                              *)
Free(node) ==
    LET block == node[1]
        rest  == RemoveBlock(blocks, last_block_ptr,
                             CHOOSE i \in DOMAIN blocks : blocks[i] = block)
        count == alloc_entry_cnt[block] - 1
    IN  /\ node \in nodes
        /\ nodes' = nodes \ {node}
        /\ IF block \notin Range(blocks)
           THEN UNCHANGED <<heap, blocks, last_block_ptr, free_entries, alloc_entry_cnt>>
           ELSE IF MayDestroy(count, rest[1])
           THEN /\ SetList(rest)
                /\ GiveBack({block})
           ELSE /\ SetList(PreppendBlock(rest[1], rest[2], block))
                /\ free_entries' = [free_entries EXCEPT ![block] = <<node>> \o @]
                /\ alloc_entry_cnt' = [alloc_entry_cnt EXCEPT ![block] = count]
                /\ UNCHANGED heap
        /\ UNCHANGED leak_reported

(* Mutated form of Destruct: the first block alone is asked for leaks. *)
Destruct_FirstOnly ==
    /\ GiveBack(Range(blocks))
    /\ leak_reported' = (blocks # << >> /\ alloc_entry_cnt[Head(blocks)] # 0)
    /\ blocks' = << >> /\ last_block_ptr' = Pool
    /\ nodes' = {}

(* ufdt_node_pool_destruct, and ufdt_node_pool_construct of the next pool *)
Destruct ==
    /\ GiveBack(Range(blocks))
    /\ leak_reported' = \E b \in Range(blocks) : alloc_entry_cnt[b] # 0
    /\ blocks' = << >> /\ last_block_ptr' = Pool
    /\ nodes' = {}

Next ==
    \/ AllocFromFirst
    \/ \E block \in Blocks : AllocFromNew(block)
    \/ \E node \in nodes : Free(node)
    \/ Destruct

Spec == Init /\ [][Next]_vars

----------------------------------------------------------------------------
(* Properties *)

TypeOK ==
    /\ heap \subseteq Blocks /\ blocks \in Seq(Blocks)
    /\ last_block_ptr \in Blocks \cup {Pool}
    /\ free_entries \in [Blocks -> Seq(Entries)]
    /\ alloc_entry_cnt \in [Blocks -> Int]
    /\ nodes \subseteq Entries /\ leak_reported \in BOOLEAN

(* The list has each block of the pool once, and its end is where blocks   *)
(* are appended, so that appending loses none (ufdt_node_pool.c:154-174).  *)
ListIsWhole ==
    /\ IsInjective(blocks) /\ Range(blocks) = heap
    /\ last_block_ptr = IF blocks = << >> THEN Pool ELSE Last(blocks)

(* "Blocks with one or more unused entries are in front; blocks without    *)
(* unused entry are in rear" (include/ufdt_node_pool.h:22-24): only then   *)
(* may an allocation look at the first block alone.                        *)
FreeInFront ==
    \A i, j \in DOMAIN blocks :
        i < j /\ free_entries[blocks[j]] # << >> => free_entries[blocks[i]] # << >>

(* Every entry of a block of the pool is either on its free list, once, or *)
(* a node that some client has: none is handed out while it is in use, and *)
(* none is lost.  The counter agrees (ufdt_node_pool.c:122-141).           *)
HandedOutOnce ==
    \A b \in heap :
        LET handed_out == {n \in nodes : n[1] = b}
        IN  /\ IsInjective(free_entries[b])
            /\ Range(free_entries[b]) = ({b} \X (1..ENTRIES_PER_BLOCK)) \ handed_out
            /\ alloc_entry_cnt[b] = Cardinality(handed_out)

(* A block that is given back has no node in it (ufdt_node_pool.c:234-240).*)
NodesAreInBlocks == \A n \in nodes : n[1] \in heap

(* No more than one block without a node is kept (ufdt_node_pool.c:234-242).*)
OneSpareBlock ==
    \A b, c \in heap : alloc_entry_cnt[b] = 0 /\ alloc_entry_cnt[c] = 0 => b = c

(* The list of blocks through all the moves to front and rear: whole, in   *)
(* order, with every node in one of its blocks, none handed out twice, and *)
(* one block to spare (ufdt_node_pool.c:91-243).                           *)
ListIsSound ==
    ListIsWhole /\ FreeInFront /\ HandedOutOnce /\ NodesAreInBlocks /\ OneSpareBlock

(* "Some nodes aren't freed before ufdt_node_pool_destruct()" is reported  *)
(* when and only when a client still had one (ufdt_node_pool.c:71-88).     *)
LeaksAreReported == [][Destruct => (leak_reported' <=> nodes # {})]_vars

(* The pool is a set of nodes, whatever blocks they are in. *)
Promise == INSTANCE NodeSet WITH
    Nodes <- Entries,
    live  <- {e \in Range(blocks) \X (1..ENTRIES_PER_BLOCK) :
                 e \notin Range(free_entries[e[1]])},
    held  <- nodes

(* Each allocation takes one entry that is not in use out of the pool's    *)
(* free ones and each release returns that node alone, however the blocks  *)
(* move (ufdt_node_pool.c:176-243).                                        *)
ImplementsNodeSet == Promise!Spec
=============================================================================
