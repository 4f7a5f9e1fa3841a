------------------------------- MODULE Merkle -------------------------------
(***************************************************************************)
(* The binary Merkle tree of byz-crypto, the credentials and the receipt   *)
(* batches that commit to their items with it, and the paths by which a    *)
(* Bitcoin transaction is in a block (byz-proof/src/inclusion.rs).         *)
(*                                                                         *)
(* SHA-256 is injective here: the hash of an item, or of two nodes, is the *)
(* item or the pair itself.  The code hashes both without telling them     *)
(* apart, so an item must not be the 64 bytes of two hashes; receipts and  *)
(* attributes are not.  An attribute is hashed first, and what is hashed   *)
(* are its name, a colon, its value and its salt, without anything between *)
(* the last two.                                                           *)
(***************************************************************************)
EXTENDS Integers, Sequences, FiniteSetsExt, Functions

LeafHash(item) == <<"leaf", item>>
Combine(left, right) == <<"node", left, right>>

\* The level above: the last node of an odd level is paired with itself.
Paired(level) ==
    [i \in 1 .. (Len(level) + 1) \div 2 |->
        Combine(level[2 * i - 1], level[IF 2 * i <= Len(level) THEN 2 * i ELSE 2 * i - 1])]

\* MerkleTree::new: Level(items)[0] holds the leaves.
Level(items) ==
    LET level[k \in 0 .. Len(items)] ==
            IF k = 0 THEN [i \in 1 .. Len(items) |-> LeafHash(items[i])]
                     ELSE Paired(level[k - 1])
    IN  level

Height(items) == CHOOSE k \in 0 .. Len(items) :
                    /\ Len(Level(items)[k]) = 1
                    /\ \A j \in 0 .. k - 1 : Len(Level(items)[j]) > 1

MerkleRoot(items) == Level(items)[Height(items)][1]

\* A wrong proof: the last node of an odd level is given its left neighbour.
SiblingClamped(i, n) == IF i % 2 = 1 \/ (i + 1 = n /\ n > 1) THEN i - 1
                        ELSE IF i + 1 < n THEN i + 1 ELSE n - 1

\* The sibling, in a level of n nodes, of its node i, counting from 0.
SiblingIndex(i, n) == IF i % 2 = 1 THEN i - 1
                      ELSE IF i + 1 < n THEN i + 1 ELSE n - 1

\* Where the way up from the item at index passes, at each height: current_index.
WayUp(index, height) ==
    LET at[k \in 0 .. height] == IF k = 0 THEN index ELSE at[k - 1] \div 2
    IN  at

\* MerkleTree::proof of the item at index, counting from 0.
MerkleProof(items, index) ==
    [leaf_hash |-> Level(items)[0][index + 1],
     siblings |->
        [k \in 1 .. Height(items) |->
            LET i == WayUp(index, Height(items))[k - 1]
                level == Level(items)[k - 1]
            IN  [hash |-> level[SiblingIndex(i, Len(level)) + 1],
                 position |-> IF i % 2 = 0 THEN "right" ELSE "left"]]]

\* What a hash becomes with each of the hashes on its way up, from the left or the
\* right: `current`, in the three loops that fold a path.
Joined(current, step) ==
    IF step.right THEN Combine(current, step.hash) ELSE Combine(step.hash, current)

Climb(start, path) ==
    LET current[k \in 0 .. Len(path)] ==
            IF k = 0 THEN start ELSE Joined(current[k - 1], path[k])
    IN  current

Folded(start, path) == Climb(start, path)[Len(path)]

\* MerkleProof::verify.
PathOf(proof) ==
    [k \in DOMAIN proof.siblings |->
        [hash |-> proof.siblings[k].hash, right |-> proof.siblings[k].position = "right"]]

Verifies(proof, root) == Folded(proof.leaf_hash, PathOf(proof)) = root

-----------------------------------------------------------------------------
(* Credentials, of sequences of [name, value, salt], each of these a        *)
(* sequence.                                                                *)

\* leaf_bytes, before they are hashed.
LeafBytes(attribute) == attribute.name \o <<":">> \o attribute.value \o attribute.salt

Leaves(attributes) == [i \in DOMAIN attributes |-> LeafBytes(attributes[i])]

\* CredentialIssuer::issue: what is signed is the root.
Credential(attributes) ==
    LET root == MerkleRoot(Leaves(attributes))
    IN  [attributes |-> attributes, merkle_root |-> root, issuer_signature |-> root]

Names(credential) == {a.name : a \in Range(credential.attributes)}

\* disclose: the first attribute of that name.
Position(credential, name) ==
    Min({i \in DOMAIN credential.attributes : credential.attributes[i].name = name})

Attribute(credential, name) == credential.attributes[Position(credential, name)]

\* verify_attribute_predicate, before it asks the predicate about the value.
VerifiesAttribute(credential, name) ==
    /\ credential.issuer_signature = credential.merkle_root
    /\ name \in Names(credential)
    /\ Verifies(MerkleProof(Leaves(credential.attributes), Position(credential, name) - 1),
                credential.merkle_root)

-----------------------------------------------------------------------------
(* Bitcoin.                                                                 *)

\* fold_tx_merkle_path: an entry's side is its sibling's.
FoldTxPath(txid, path) ==
    Folded(txid, [k \in DOMAIN path |-> [hash |-> path[k].sibling, right |-> path[k].side # "L"]])

\* bitcoin_merkle_fold: a pair says whether the transaction is on the left.
FoldBitcoin(txid, path) ==
    Folded(txid, [k \in DOMAIN path |-> [hash |-> path[k][1], right |-> path[k][2]]])

\* verify_bitcoin_spv: without a path, nothing is said of the block.
VerifiesSpv(receipt_proof, batch_root, txid, path, block_root) ==
    /\ Verifies(receipt_proof, batch_root)
    /\ path # <<>> => FoldTxPath(txid, path) = block_root

-----------------------------------------------------------------------------
\* The proof of the item at index leads to the root, and with no other item in its
\* place: what ReceiptBatcher::inclusion_proof and a credential hand out can be
\* checked against a published root.
ProvesItsItem(items, index) ==
    LET proof == MerkleProof(items, index)
    IN  \A i \in DOMAIN items :
            Verifies([proof EXCEPT !.leaf_hash = LeafHash(items[i])], MerkleRoot(items))
                <=> items[i] = items[index + 1]

\* A transaction of a block of several is in it by both folds along its path, and no
\* other transaction is, along that path: what anchors a batch can be checked too.
ProvesItsBlock(items, index) ==
    LET proof == MerkleProof(items, index)
        sides == [k \in DOMAIN proof.siblings |->
                     [sibling |-> proof.siblings[k].hash,
                      side |-> IF proof.siblings[k].position = "left" THEN "L" ELSE "R"]]
        pairs == [k \in DOMAIN proof.siblings |->
                     <<proof.siblings[k].hash, proof.siblings[k].position = "right">>]
        root == MerkleRoot(items)
    IN  Len(items) > 1 =>
            \A i \in DOMAIN items :
                LET txid == LeafHash(items[i])
                IN  /\ VerifiesSpv(proof, root, txid, sides, root) <=> items[i] = items[index + 1]
                    /\ FoldBitcoin(txid, pairs) = root <=> items[i] = items[index + 1]

\* An attribute of which the value ends after k of the bytes that value and salt had.
Resplit(attribute, k) ==
    LET bytes == attribute.value \o attribute.salt
    IN  [attribute EXCEPT !.value = SubSeq(bytes, 1, k),
                          !.salt = SubSeq(bytes, k + 1, Len(bytes))]

\* Lists with another value, with a value that ends elsewhere, with an attribute twice,
\* or without the last.
Others(attribute, values) ==
    {[attribute EXCEPT !.value = v] : v \in values}
    \cup {Resplit(attribute, k) : k \in 0 .. Len(attribute.value \o attribute.salt)}

Changed(attributes, i, values) ==
    {[attributes EXCEPT ![i] = a] : a \in Others(attributes[i], values)}

Altered(attributes, values) ==
    (UNION {Changed(attributes, i, values) : i \in DOMAIN attributes})
    \cup {Append(attributes, a) : a \in Range(attributes)}
    \cup ({SubSeq(attributes, 1, Len(attributes) - 1)} \ {<<>>})

\* A credential whose attributes were changed, cut or added to after it was issued
\* shows, if it verifies, the very bytes it was issued with under that name.  Where
\* among them the value ends is not signed: it is the value that was issued only if
\* the salt is as long as it was.
DisclosesAsIssued(attributes, values) ==
    LET issued == Credential(attributes)
    IN  \A list \in Altered(attributes, values), name \in Names(issued) :
            LET shown == [issued EXCEPT !.attributes = list]
                a == Attribute(shown, name)
                b == Attribute(issued, name)
            IN  VerifiesAttribute(shown, name) =>
                    /\ LeafBytes(a) = LeafBytes(b)
                    /\ Len(a.salt) = Len(b.salt) => a.value = b.value
=============================================================================
