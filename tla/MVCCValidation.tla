--------------------------- MODULE MVCCValidation ---------------------------
(***************************************************************************)
(* The validation of a block against the state database                    *)
(* (core/ledger/kvledger/txmgmt/validation): which transactions of a block *)
(* are valid on top of the blocks already applied.                         *)
(*                                                                         *)
(* A transaction has the code the committer gave it, the versions of the   *)
(* keys it read, the results of its range queries and the keys it writes   *)
(* and deletes.  A version is the place of the transaction that wrote the  *)
(* key; hashed keys of private collections are further keys.  Of the       *)
(* blocks applied there is the number, the transactions and the codes.     *)
(***************************************************************************)
EXTENDS Naturals, Sequences

CONSTANT Keys

VALID == "VALID"
MVCC_READ_CONFLICT == "MVCC_READ_CONFLICT"
PHANTOM_READ_CONFLICT == "PHANTOM_READ_CONFLICT"

NoVersion == <<>>

Updates(tx) == tx.Writes \cup tx.Deletes

\* The last valid transaction of a block that updates key k, 0 for none.
LastUpdate(block, codes, k) ==
    LET of == {i \in 1..Len(codes) : codes[i] = VALID /\ k \in Updates(block[i])}
    IN  IF of = {} THEN 0 ELSE CHOOSE i \in of : \A j \in of : j <= i

\* The version of key k after the update by transaction i of block n.
VersionAfter(block, n, i, k) ==
    IF k \in block[i].Deletes THEN NoVersion ELSE <<n, i - 1>>

\* The version of a key in the state database.
GetVersion(applied, k) ==
    LET of == {b \in 1..Len(applied) :
                  LastUpdate(applied[b].block, applied[b].flags, k) > 0}
        b == CHOOSE c \in of : \A d \in of : d <= c
    IN  IF of = {} THEN NoVersion
        ELSE VersionAfter(applied[b].block, applied[b].num,
                          LastUpdate(applied[b].block, applied[b].flags, k), k)

\* combinedIterator: the database with the updates of the block before it.
CombinedVersion(applied, n, block, codes, k) ==
    LET i == LastUpdate(block, codes, k)
    IN  IF i > 0 THEN VersionAfter(block, n, i, k) ELSE GetVersion(applied, k)

\* Mutant: the updates of the block itself are not looked at.
ReadsCommitted(applied, block, codes, tx) ==
    \A k \in DOMAIN tx.Reads : GetVersion(applied, k) = tx.Reads[k]

\* validateKVRead and validateKVReadHash for every key read: no update by a
\* valid transaction before it in the block, and the committed version.
validateReadSet(applied, block, codes, tx) ==
    \A k \in DOMAIN tx.Reads :
        /\ LastUpdate(block, codes, k) = 0
        /\ GetVersion(applied, k) = tx.Reads[k]

\* rangeQueryResultsValidator: the same keys at the same versions.
validateRangeQueries(applied, n, block, codes, tx) ==
    \A q \in tx.Ranges : \A k \in q.Keys :
        CombinedVersion(applied, n, block, codes, k) =
            IF k \in DOMAIN q.Results THEN q.Results[k] ELSE NoVersion

validateTx(applied, n, block, codes, tx) ==
    IF ~validateReadSet(applied, block, codes, tx) THEN MVCC_READ_CONFLICT
    ELSE IF ~validateRangeQueries(applied, n, block, codes, tx) THEN PHANTOM_READ_CONFLICT
    ELSE VALID

\* validateAndPrepareBatch, one transaction after the other; what arrives
\* as invalid stays as it is.
validateAndPrepareBatch(applied, n, block) ==
    LET codes[i \in 0..Len(block)] ==
            IF i = 0 THEN <<>>
            ELSE Append(codes[i - 1],
                        IF block[i].Code # VALID THEN block[i].Code
                        ELSE validateTx(applied, n, block, codes[i - 1], block[i]))
    IN  codes[Len(block)]

-----------------------------------------------------------------------------
(* The reference: the valid transactions executed one after the other on   *)
(* one store of versions.                                                  *)

Execute(store, n, i, tx) ==
    [k \in Keys |-> IF k \in tx.Deletes THEN NoVersion
                    ELSE IF k \in tx.Writes THEN <<n, i - 1>> ELSE store[k]]

\* The store after the first i transactions of an applied block.
ExecuteBlock(store, e) ==
    LET after[i \in 0..Len(e.block)] ==
            IF i = 0 THEN store
            ELSE IF e.flags[i] = VALID THEN Execute(after[i - 1], e.num, i, e.block[i])
            ELSE after[i - 1]
    IN  after

\* The stores before and inside each of a sequence of blocks.
ExecuteAll(applied) ==
    LET stores[b \in 0..Len(applied)] ==
            IF b = 0 THEN [i \in 0..0 |-> [k \in Keys |-> NoVersion]]
            ELSE LET before == stores[b - 1]
                     top == CHOOSE m \in DOMAIN before : \A i \in DOMAIN before : i <= m
                 IN  ExecuteBlock(before[top], applied[b])
    IN  stores

\* A transaction would read in store s what its read set says.
ReadsMatch(s, tx) ==
    /\ \A k \in DOMAIN tx.Reads : s[k] = tx.Reads[k]
    /\ \A q \in tx.Ranges : \A k \in q.Keys :
          s[k] = IF k \in DOMAIN q.Results THEN q.Results[k] ELSE NoVersion

\* A valid transaction reads, in its turn, what it read when it was
\* simulated; one that validation makes invalid would not, or reads a key
\* that a transaction before it in the block has updated.
SerialCodes(applied) ==
    LET stores == ExecuteAll(applied) IN
    \A b \in 1..Len(applied) : \A i \in 1..Len(applied[b].block) :
        LET tx == applied[b].block[i]
            code == applied[b].flags[i]
            touched == UNION {Updates(applied[b].block[j]) :
                                 j \in {j \in 1..(i - 1) : applied[b].flags[j] = VALID}}
        IN  /\ code = VALID => ReadsMatch(stores[b][i - 1], tx)
            /\ code # tx.Code =>
                  ~ReadsMatch(stores[b][i - 1], tx) \/ DOMAIN tx.Reads \cap touched # {}
=============================================================================
