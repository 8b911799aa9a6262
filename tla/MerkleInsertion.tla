--------------------------- MODULE MerkleInsertion ---------------------------
(***************************************************************************)
(* The incremental Merkle insertion of programs/octora-mixer's deposit     *)
(* handler, one step per round of its loop, against the full tree that the *)
(* API and the browser rebuild from the deposit history and against the    *)
(* path check of withdraw.circom.                                          *)
(***************************************************************************)
EXTENDS Integers, Sequences

CONSTANTS
    Commitments,     \* distinct leaf values
    Zero,            \* ZERO_VALUE
    Levels,          \* TREE_LEVELS
    Hash(_, _)       \* Poseidon of two field elements

ASSUME LevelsAssumption == Levels \in Nat \ {0}

VARIABLES
    leafs,           \* commitments inserted so far, in order
    filled,          \* filled_subtrees
    level,           \* i of the loop; Levels when no insertion is running
    currentHash,
    currentIndex,
    running,         \* an insertion is under way
    root             \* what push_root last stored

insertionVars == <<leafs, filled, level, currentHash, currentIndex, running, root>>

\* The leaves below a node of height h, 1 << h: MAX_LEAVES is Leaves[Levels].
Leaves[h \in 0 .. Levels] == IF h = 0 THEN 1 ELSE 2 * Leaves[h - 1]

(* ZERO_HASHES[i] = Poseidon^(i+1)(0, 0). *)
ZeroHashes[i \in 0 .. Levels - 1] ==
    IF i = 0 THEN Hash(Zero, Zero) ELSE Hash(ZeroHashes[i - 1], ZeroHashes[i - 1])

\* The loop's zero_sibling: the empty subtree of height i.
ZeroSibling(i) == IF i = 0 THEN Zero ELSE ZeroHashes[i - 1]

NewTree ==
    /\ leafs = <<>>
    /\ filled = [i \in 0 .. Levels - 1 |-> ZeroHashes[i]]
    /\ level = Levels
    /\ currentHash = ZeroHashes[Levels - 1]
    /\ currentIndex = 0
    /\ running = FALSE
    /\ root = ZeroHashes[Levels - 1]

\* The head of the handler: the tree is not full, the commitment is new.
HasRoom == Len(leafs) < Leaves[Levels]

Begin(commitment) ==
    /\ ~running
    /\ HasRoom
    /\ \A i \in 1 .. Len(leafs) : leafs[i] # commitment
    /\ leafs' = Append(leafs, commitment)
    /\ currentHash' = commitment
    /\ currentIndex' = Len(leafs)
    /\ level' = 0
    /\ running' = TRUE
    /\ UNCHANGED <<filled, root>>

\* filled_subtrees is refreshed on the way up through left children only.
Remember_never(i) == UNCHANGED filled           \* mutant: cache not kept
Remember(i) ==
    IF currentIndex % 2 = 0 THEN filled' = [filled EXCEPT ![i] = currentHash]
                            ELSE UNCHANGED filled

\* One round of the loop.
HashLevel ==
    /\ running /\ level < Levels
    /\ Remember(level)
    /\ currentHash' = IF currentIndex % 2 = 0
                      THEN Hash(currentHash, ZeroSibling(level))
                      ELSE Hash(filled[level], currentHash)
    /\ currentIndex' = currentIndex \div 2
    /\ level' = level + 1
    /\ UNCHANGED <<leafs, running, root>>

\* push_root and next_leaf_index.
Finish ==
    /\ running /\ level = Levels
    /\ root' = currentHash
    /\ running' = FALSE
    /\ UNCHANGED <<leafs, filled, level, currentHash, currentIndex>>

Insert == (\E c \in Commitments : Begin(c)) \/ HashLevel \/ Finish

Insertion == NewTree /\ [][Insert]_insertionVars

(***************************************************************************)
(* The tree rebuilt off chain: fixed-merkle-tree over all 2^Levels leaves, *)
(* empty leaves being zeroElement.                                         *)
(***************************************************************************)
Leaf(leaves, k) == IF k < Len(leaves) THEN leaves[k + 1] ELSE Zero

LeafLayer(leaves) == [k \in 0 .. Leaves[Levels] - 1 |-> Leaf(leaves, k)]

\* The layer of height l, from the one below it.
LayerOver(below, l) ==
    [k \in 0 .. Leaves[Levels - l] - 1 |-> Hash(below[2 * k], below[2 * k + 1])]

TreeOf(leaves) ==
    LET layer[l \in 0 .. Levels] ==
            IF l = 0 THEN LeafLayer(leaves) ELSE LayerOver(layer[l - 1], l)
    IN  layer
Tree == TreeOf(leafs)

\* tree.path(k): at each level the sibling and the side it is on.
PathElement(k, l) ==
    LET at == k \div Leaves[l]
    IN  Tree[l][IF at % 2 = 0 THEN at + 1 ELSE at - 1]
PathIndex_reversed(k, l) == (k \div Leaves[Levels - 1 - l]) % 2   \* mutant
PathIndex(k, l) == (k \div Leaves[l]) % 2

\* MerkleTreeChecker: hash the leaf up along the path, its side at each level
\* taken from the path.
Combine(k, l, levelHash) ==
    IF PathIndex(k, l) = 0 THEN Hash(levelHash, PathElement(k, l))
                           ELSE Hash(PathElement(k, l), levelHash)

Checked(k) ==
    LET levelHashes[l \in 0 .. Levels] ==
            IF l = 0 THEN Leaf(leafs, k) ELSE Combine(k, l - 1, levelHashes[l - 1])
    IN  levelHashes[Levels]

(***************************************************************************)
(* Properties.                                                             *)
(***************************************************************************)

\* The loop stays inside the tree: the u32 index names a leaf (MAX_LEAVES).
IndexInTree ==
    /\ level \in 0 .. Levels
    /\ currentIndex \in 0 .. Leaves[Levels] - 1
    /\ DOMAIN filled = 0 .. Levels - 1
    /\ leafs \in Seq(Commitments)
    /\ running \in BOOLEAN

\* Whenever the next leaf will be in a right subtree, the cached left sibling
\* is the finished subtree beside it (state.rs on filled_subtrees).
CacheMatchesTree ==
    ~running => \A l \in 0 .. Levels - 1 :
        LET next == Len(leafs) \div Leaves[l]
        IN  next % 2 = 1 => filled[l] = Tree[l][next - 1]

\* Every leaf's path leads to the stored root under the circuit's own check:
\* no depositor is left unable to prove.
EveryLeafProvable ==
    ~running => \A k \in 0 .. Len(leafs) - 1 : Checked(k) = root

==============================================================================
