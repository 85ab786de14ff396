------------------------------ MODULE IdxList -------------------------------
(***************************************************************************)
(* The indexed list of src/src/idxlist.c: an array of nodes that grows by  *)
(* a page at a time, in which node 0 is the head of the circular list of   *)
(* the nodes in use and the unused nodes form a list of their own through  *)
(* Fidx.  The operators are pure: a table in, a table out.                 *)
(***************************************************************************)
EXTENDS Integers, FiniteSets

CONSTANTS NodesPerPage,     \* PAGE_SIZE / sizeof( IDXLIST_NODE )
          Null              \* the Data of a node that is not in use

ASSUME NodesAssumption == NodesPerPage \in Nat /\ NodesPerPage >= 2

Node(f, b, d) == [Fidx |-> f, Bidx |-> b, Data |-> d]
SetFidx(N, i, f) == [N EXCEPT ![i] = Node(f, N[i].Bidx, N[i].Data)]
SetBidx(N, i, b) == [N EXCEPT ![i] = Node(N[i].Fidx, b, N[i].Data)]

(* InitializeIdxList, and what DestroyIdxList leaves: NodeList is the one  *)
(* static node EmptyList.                                                  *)
EmptyIdxList == [Size |-> 0, NodeList |-> [i \in {0} |-> Node(0, 0, Null)],
                 NodeFreeList |-> 0, NodeCount |-> 0]

(* ExtendIdxList.  The new nodes are chained in order, the last one to the *)
(* old free list; in the first page node 0 becomes the head.  Bidx of a    *)
(* new node is not initialized, and is set before it is read.              *)
ExtendIdxList(T) ==
    LET size == T.Size + NodesPerPage
        fresh(i) == IF i = 0 THEN Node(0, 0, Null)
                    ELSE Node(IF i = size - 1 THEN T.NodeFreeList ELSE i + 1, 0, Null)
    IN  [Size |-> size,
         NodeList |-> [i \in 0 .. size - 1 |-> IF i < T.Size THEN T.NodeList[i] ELSE fresh(i)],
         NodeFreeList |-> IF T.Size = 0 THEN 1 ELSE T.Size,
         NodeCount |-> T.NodeCount]

(* InsertHeadIdxList has to extend the table first.                        *)
MustExtend(T) == T.NodeFreeList = 0

(* InsertHeadIdxList once there is a free node: the index it returns and   *)
(* the table it leaves.                                                    *)
InsertIdx(T) == IF MustExtend(T) THEN ExtendIdxList(T).NodeFreeList ELSE T.NodeFreeList

LinkHead(T, idx, data) ==
    LET first == T.NodeList[0].Fidx
        stored == [T.NodeList EXCEPT ![idx] = Node(first, 0, data)]
    IN  [Size |-> T.Size,
         NodeList |-> SetBidx(SetFidx(stored, 0, idx), first, idx),
         NodeFreeList |-> T.NodeList[idx].Fidx,
         NodeCount |-> T.NodeCount + 1]

InsertHeadIdxList(T, data) ==
    LET U == IF MustExtend(T) THEN ExtendIdxList(T) ELSE T
    IN  LinkHead(U, InsertIdx(T), data)

(* RemoveNodeIdxList: a node that is not in use, and the head, stay.       *)
RemoveNodeIdxList(T, idx) ==
    IF idx >= T.Size \/ idx = 0 \/ T.NodeList[idx].Data = Null
    THEN T
    ELSE LET n == T.NodeList[idx]
             unlinked == SetFidx(SetBidx(T.NodeList, n.Fidx, n.Bidx), n.Bidx, n.Fidx)
         IN  [Size |-> T.Size,
              NodeList |-> [unlinked EXCEPT ![idx] =
                              Node(T.NodeFreeList, unlinked[idx].Bidx, Null)],
              NodeFreeList |-> idx,
              NodeCount |-> T.NodeCount - 1]

RemoveHeadIdxList(T) == RemoveNodeIdxList(T, T.NodeList[0].Fidx)

(* GetHeadNodeIdxList, GetNextNodeIdxList: the Data found, or Null.        *)
GetHeadNodeIdxList(T) == IF T.Size > 0 THEN T.NodeList[T.NodeList[0].Fidx].Data ELSE Null
GetNextNodeIdxList(T, idx) ==
    IF idx < T.Size THEN T.NodeList[T.NodeList[idx].Fidx].Data ELSE Null
-----------------------------------------------------------------------------
(* The nodes met from node idx on, up to the head or the end: the least    *)
(* set with idx and, with a node, the next one.                            *)
Chain(T, idx) ==
    LET nodes == DOMAIN T.NodeList
        walks == {C \in SUBSET nodes :
                    idx \in C /\ \A i \in C \ {0} : T.NodeList[i].Fidx \in C}
    IN  {i \in nodes \ {0} : \A C \in walks : i \in C}

Used(T) == Chain(T, T.NodeList[0].Fidx)
Free(T) == Chain(T, T.NodeFreeList)

(* A table in good order: every node but the head is either in the list of *)
(* the nodes in use, which is linked both ways and counted right, or in    *)
(* the free list; only the former have Data.                               *)
WellLinked(T) ==
    LET used == Used(T)
        free == Free(T)
    IN  /\ used \cup free = 1 .. (IF T.Size = 0 THEN 0 ELSE T.Size - 1)
        /\ used \cap free = {}
        /\ T.NodeCount = Cardinality(used)
        /\ T.NodeList[0].Data = Null
        /\ \A i \in used :
             /\ T.NodeList[i].Data # Null
             /\ T.NodeList[T.NodeList[i].Fidx].Bidx = i
        /\ \A i \in free : T.NodeList[i].Data = Null
=============================================================================
