-------------------------- MODULE RaftChainProofs --------------------------
(***************************************************************************)
(* The ledgers of the ordering nodes agree, whatever leaders come and go,  *)
(* for any number of nodes, blocks, elections and crashes.                 *)
(*                                                                         *)
(* The argument has three layers.  Raft's logs match each other, and the   *)
(* committed log is in those of a quorum.  The blocks in every log form a  *)
(* chain, since a leader orders only when all of its log is applied, and   *)
(* its queue continues the chain.  The ledger of a node is the chain of    *)
(* the committed log as far as it is applied.                              *)
(***************************************************************************)
EXTENDS RaftChain, TLAPS

-----------------------------------------------------------------------------
(* The types.                                                              *)

Block == [num : Nat, id : Nat, prev : Nat, config : BOOLEAN]
Entry == [term : Nat, block : Block]
Written == [block : Block, index : Nat]
Run ==
    [leads : BOOLEAN, justElected : BOOLEAN, configInflight : BOOLEAN, blockInflight : Nat,
     accepting : BOOLEAN, bc : Block, pending : BOOLEAN, propC : Seq(Block),
     proposer : {"none", "runs", "dead"}, delivered : Nat, appliedIndex : Nat]

TypeInv ==
    /\ term \in [Nodes -> Nat] /\ log \in [Nodes -> Seq(Entry)]
    /\ leaders \in SUBSET Electable /\ committed \in Seq(Entry)
    /\ ch \in [Electable -> Run] /\ ledger \in [Electable -> Seq(Written)]
    /\ made \in Nat

LEMMA NoneType == None \in Block /\ None.num = 0 /\ None.id = 0 /\ ~None.config
  BY Zenon DEF None, Block

-----------------------------------------------------------------------------
(* Logs.                                                                   *)

Prefix(p, l) == Len(p) <= Len(l) /\ \A i \in 1..Len(p) : p[i] = l[i]

Match(l, k) ==
    \A i \in 1..Len(l) : i <= Len(k) /\ l[i].term = k[i].term => \A j \in 1..i : l[j] = k[j]

Ordered(l, t) ==
    \A i \in 1..Len(l) : l[i].term \in 1..t /\ \A j \in 1..i : l[j].term <= l[i].term

(* The entry of the last block in the first a entries; 0 if none is there. *)
Tip(l, a, j) ==
    /\ j \in 0..a /\ (j > 0 => l[j].block # None)
    /\ \A i \in (j + 1)..a : l[i].block = None

BlockOf(l, j) == IF j = 0 THEN None ELSE l[j].block

(* Every block follows the one before it.                                  *)
Follows(b, p) == b.num = p.num + 1 /\ b.prev = p.id

Chained(l) ==
    \A i \in 1..Len(l) : l[i].block # None =>
        /\ \A j \in 1..(i - 1) : l[j].block.num < l[i].block.num
        /\ \E j \in 0..(i - 1) : Tip(l, i - 1, j) /\ Follows(l[i].block, BlockOf(l, j))

LEMMA ChainedIf ==
    ASSUME NEW l,
           \A i \in 1..Len(l) : l[i].block # None =>
               /\ \A j \in 1..(i - 1) : l[j].block.num < l[i].block.num
               /\ \E j \in 0..(i - 1) : Tip(l, i - 1, j) /\ Follows(l[i].block, BlockOf(l, j))
    PROVE  Chained(l)
  BY Zenon DEF Chained

LEMMA TipUnique ==
    ASSUME NEW l, NEW a \in Nat, NEW j, NEW k, Tip(l, a, j), Tip(l, a, k) PROVE j = k
  BY DEF Tip

LEMMA TipNext ==
    ASSUME NEW l, NEW a \in Nat, NEW j, Tip(l, a, j)
    PROVE  /\ l[a + 1].block = None => Tip(l, a + 1, j)
           /\ l[a + 1].block # None => Tip(l, a + 1, a + 1)
  BY DEF Tip

LEMMA TipSame ==
    ASSUME NEW l, NEW k, NEW a \in Nat, \A i \in 1..a : k[i] = l[i], NEW j, Tip(l, a, j)
    PROVE  Tip(k, a, j) /\ BlockOf(k, j) = BlockOf(l, j)
  BY DEF Tip, BlockOf

LEMMA EntryType ==
    ASSUME NEW l \in Seq(Entry), NEW i \in 1..Len(l)
    PROVE  l[i].term \in Nat /\ l[i].block \in Block /\ l[i].block.num \in Nat
<1>1. l[i] \in Entry
  OBVIOUS
<1>2. l[i].term \in Nat /\ l[i].block \in Block
  BY Zenon, <1>1 DEF Entry
<1> QED
  BY Zenon, <1>2 DEF Block

LEMMA BlockOfType ==
    ASSUME NEW l \in Seq(Entry), NEW j \in 0..Len(l)
    PROVE  BlockOf(l, j) \in Block /\ BlockOf(l, j).num \in Nat
<1>1. CASE j = 0
  BY <1>1, NoneType DEF BlockOf
<1>2. CASE j # 0
  <2>1. j \in 1..Len(l)
    BY <1>2
  <2> QED
    BY Zenon, <1>2, <2>1, EntryType DEF BlockOf
<1> QED
  BY Zenon, <1>1, <1>2

(* The block of the tip has the greatest number.                           *)
LEMMA TipGreatest ==
    ASSUME NEW l \in Seq(Entry), Chained(l), NEW a \in 0..Len(l), NEW j, Tip(l, a, j),
           NEW i \in 1..a
    PROVE  l[i].block.num <= BlockOf(l, j).num
<1>1. i \in 1..Len(l) /\ l[i].block.num \in Nat
  BY EntryType
<1>2. CASE i > j
  <2>1. l[i].block = None
    BY <1>2 DEF Tip
  <2>2. BlockOf(l, j).num \in Nat
    BY BlockOfType DEF Tip
  <2> QED
    BY <2>1, <2>2, NoneType
<1>3. CASE i = j
  BY <1>1, <1>3 DEF BlockOf
<1>4. CASE i < j
  <2>1. j \in 1..Len(l) /\ l[j].block # None /\ i \in 1..(j - 1)
    BY <1>4 DEF Tip
  <2>2. l[i].block.num < l[j].block.num
    BY Zenon, <2>1 DEF Chained
  <2>3. l[j].block.num \in Nat
    BY Zenon, <2>1, EntryType
  <2> QED
    BY <1>1, <2>1, <2>2, <2>3 DEF BlockOf
<1>5. j \in Nat
  BY DEF Tip
<1> QED
  BY <1>2, <1>3, <1>4, <1>5

LEMMA ChainedPrefix ==
    ASSUME NEW l \in Seq(Entry), Chained(l), NEW p \in Seq(Entry), Prefix(p, l) PROVE Chained(p)
<1> SUFFICES ASSUME NEW i \in 1..Len(p), p[i].block # None
             PROVE  /\ \A j \in 1..(i - 1) : p[j].block.num < p[i].block.num
                    /\ \E j \in 0..(i - 1) : Tip(p, i - 1, j) /\ Follows(p[i].block, BlockOf(p, j))
  BY Zenon DEF Chained
<1>1. i \in 1..Len(l) /\ p[i] = l[i] /\ i - 1 \in Nat /\ \A k \in 1..(i - 1) : p[k] = l[k]
  BY DEF Prefix
<1>2. \A j \in 1..(i - 1) : l[j].block.num < l[i].block.num
  BY Zenon, <1>1 DEF Chained
<1>3. PICK j \in 0..(i - 1) : Tip(l, i - 1, j) /\ Follows(l[i].block, BlockOf(l, j))
  BY Zenon, <1>1 DEF Chained
<1>4. Tip(p, i - 1, j) /\ BlockOf(p, j) = BlockOf(l, j)
  BY Zenon, <1>1, <1>3, TipSame
<1>5. \A k \in 1..(i - 1) : p[k].block.num < p[i].block.num
  BY Zenon, <1>1, <1>2
<1> QED
  BY Zenon, <1>1, <1>3, <1>4, <1>5

(* A log grows by an empty entry, or by a block that follows its tip.      *)
LEMMA ChainedAppend ==
    ASSUME NEW l \in Seq(Entry), Chained(l), NEW e \in Entry,
           \/ e.block = None
           \/ \E j : Tip(l, Len(l), j) /\ Follows(e.block, BlockOf(l, j))
    PROVE  Chained(Append(l, e))
<1> DEFINE m == Append(l, e)
<1>1. m \in Seq(Entry) /\ Len(m) = Len(l) + 1 /\ m[Len(l) + 1] = e /\ Len(l) \in Nat
  OBVIOUS
<1>2. \A i \in 1..Len(l) : m[i] = l[i]
  OBVIOUS
<1> HIDE DEF m
<1> SUFFICES Chained(m)
  BY Zenon DEF m
<1> SUFFICES ASSUME NEW i \in 1..Len(m), m[i].block # None
             PROVE  /\ \A j \in 1..(i - 1) : m[j].block.num < m[i].block.num
                    /\ \E j \in 0..(i - 1) : Tip(m, i - 1, j) /\ Follows(m[i].block, BlockOf(m, j))
  BY Zenon, ChainedIf
<1>3. CASE i <= Len(l)
  <2>1. i \in 1..Len(l) /\ m[i] = l[i] /\ i - 1 \in Nat /\ \A k \in 1..(i - 1) : m[k] = l[k]
    BY <1>1, <1>2, <1>3
  <2>2. \A j \in 1..(i - 1) : l[j].block.num < l[i].block.num
    BY Zenon, <2>1 DEF Chained
  <2>3. PICK j \in 0..(i - 1) : Tip(l, i - 1, j) /\ Follows(l[i].block, BlockOf(l, j))
    BY Zenon, <2>1 DEF Chained
  <2>4. Tip(m, i - 1, j) /\ BlockOf(m, j) = BlockOf(l, j)
    <3>1. i - 1 \in Nat /\ (\A k \in 1..(i - 1) : m[k] = l[k]) /\ Tip(l, i - 1, j)
      BY Zenon, <2>1, <2>3
    <3> QED
      BY Zenon, <3>1, TipSame
  <2>5. \A k \in 1..(i - 1) : m[k].block.num < m[i].block.num
    BY Zenon, <2>1, <2>2
  <2> QED
    BY Zenon, <2>1, <2>3, <2>4, <2>5
<1>4. CASE i > Len(l)
  <2>1. i = Len(l) + 1 /\ m[i] = e /\ i - 1 = Len(l) /\ e.block # None
    BY <1>1, <1>4
  <2>2. PICK j : Tip(l, Len(l), j) /\ Follows(e.block, BlockOf(l, j))
    BY Zenon, <2>1
  <2>3. Tip(m, Len(l), j) /\ BlockOf(m, j) = BlockOf(l, j)
    BY Zenon, <1>1, <1>2, <2>2, TipSame
  <2>4. \A k \in 1..(i - 1) : m[k].block.num < m[i].block.num
    <3> SUFFICES ASSUME NEW k \in 1..Len(l) PROVE l[k].block.num < e.block.num
      BY Zenon, <1>2, <2>1
    <3>1. Len(l) \in 0..Len(l)
      BY <1>1
    <3>2. l[k].block.num <= BlockOf(l, j).num
      BY Zenon, <2>2, <3>1, TipGreatest
    <3>3. l[k].block.num \in Nat /\ BlockOf(l, j).num \in Nat
      <4>1. j \in 0..Len(l)
        BY Zenon, <2>2 DEF Tip
      <4> QED
        BY Zenon, <4>1, BlockOfType, EntryType
    <3> QED
      BY <2>2, <3>2, <3>3 DEF Follows
  <2>5. j \in 0..Len(l)
    BY Zenon, <2>3 DEF Tip
  <2> QED
    BY Zenon, <2>1, <2>2, <2>3, <2>4, <2>5
<1> QED
  BY <1>1, <1>3, <1>4

-----------------------------------------------------------------------------
(* The ledger of a node that has applied the first a entries of a log.     *)

LedgerIs(g, l, a) ==
    /\ Len(g) >= 1 /\ g[1] = Genesis
    /\ \A k \in 1..Len(g) :
          /\ g[k].index \in 0..a /\ g[k].block = BlockOf(l, g[k].index)
          /\ g[k].block.num = k - 1
          /\ k > 1 => g[k].block # None /\ g[k].block.prev = g[k - 1].block.id
    /\ Tip(l, a, g[Len(g)].index)

LEMMA WrittenType ==
    ASSUME NEW g \in Seq(Written), NEW k \in 1..Len(g)
    PROVE  /\ g[k] = [block |-> g[k].block, index |-> g[k].index]
           /\ g[k].index \in Nat /\ g[k].block \in Block /\ g[k].block.num \in Nat
<1>1. g[k] \in Written
  OBVIOUS
<1>2. g[k] = [block |-> g[k].block, index |-> g[k].index] /\ g[k].index \in Nat /\ g[k].block \in Block
  BY Zenon, <1>1 DEF Written
<1> QED
  BY Zenon, <1>2 DEF Block

(* A block that comes behind the ledger follows its last one.              *)
LEMMA LedgerWrites ==
    ASSUME NEW g \in Seq(Written), NEW l \in Seq(Entry), Chained(l), NEW a \in Nat, a + 1 <= Len(l),
           LedgerIs(g, l, a), l[a + 1].block # None
    PROVE  /\ l[a + 1].block.num = g[Len(g)].block.num + 1
           /\ LedgerIs(Append(g, [block |-> l[a + 1].block, index |-> a + 1]), l, a + 1)
<1> DEFINE b == l[a + 1].block
           w == [block |-> b, index |-> a + 1]
           h == Append(g, w)
<1>1. a + 1 \in 1..Len(l) /\ Len(g) \in 1..Len(g) /\ Len(g) \in Nat
  BY DEF LedgerIs
<1>2. b \in Block
  BY Zenon, <1>1, EntryType
<1>3. w \in Written
  BY <1>1, <1>2 DEF Written
<1>4. h \in Seq(Written) /\ Len(h) = Len(g) + 1 /\ h[Len(g) + 1] = w /\ \A k \in 1..Len(g) : h[k] = g[k]
  BY <1>3
<1>5. PICK j : Tip(l, a, j) /\ Follows(b, BlockOf(l, j))
  <2>1. PICK i : i = a + 1
    BY Zenon
  <2>2. i \in 1..Len(l) /\ l[i].block # None /\ b = l[i].block /\ i - 1 = a
    BY <1>1, <2>1
  <2>3. \E j \in 0..(i - 1) : Tip(l, i - 1, j) /\ Follows(l[i].block, BlockOf(l, j))
    BY Zenon, <2>2 DEF Chained
  <2> QED
    BY Zenon, <2>2, <2>3
<1>6. Tip(l, a, j) /\ Tip(l, a, g[Len(g)].index)
  BY Zenon, <1>5 DEF LedgerIs
<1>7. j = g[Len(g)].index
  BY Zenon, <1>6, TipUnique
<1>8. Follows(b, g[Len(g)].block) /\ g[Len(g)].block.num = Len(g) - 1
  BY Zenon, <1>1, <1>5, <1>7 DEF LedgerIs
<1>9. b.num = g[Len(g)].block.num + 1 /\ b.num = Len(g) /\ b.prev = g[Len(g)].block.id
  BY <1>1, <1>8 DEF Follows
<1>10. Tip(l, a + 1, a + 1)
  BY Zenon, <1>6, TipNext
<1>11. BlockOf(l, a + 1) = b
  BY DEF BlockOf
<1> HIDE DEF b, w, h
<1>12. ASSUME NEW k \in 1..Len(h)
       PROVE  /\ h[k].index \in 0..(a + 1) /\ h[k].block = BlockOf(l, h[k].index)
              /\ h[k].block.num = k - 1
              /\ k > 1 => h[k].block # None /\ h[k].block.prev = h[k - 1].block.id
  <2>1. CASE k <= Len(g)
    <3>1. k \in 1..Len(g) /\ h[k] = g[k] /\ (k > 1 => h[k - 1] = g[k - 1])
      BY <1>1, <1>4, <2>1
    <3>2. /\ g[k].index \in 0..a /\ g[k].block = BlockOf(l, g[k].index)
          /\ g[k].block.num = k - 1
          /\ k > 1 => g[k].block # None /\ g[k].block.prev = g[k - 1].block.id
      BY Zenon, <3>1 DEF LedgerIs
    <3>3. g[k].index \in 0..(a + 1)
      BY <3>2
    <3> QED
      BY Zenon, <3>1, <3>2, <3>3
  <2>2. CASE k > Len(g)
    <3>1. k = Len(g) + 1 /\ h[k] = w /\ h[k - 1] = g[Len(g)] /\ k - 1 = Len(g)
      BY <1>1, <1>4, <2>2
    <3>2. w.block = b /\ w.index = a + 1
      BY Zenon DEF w
    <3>3. b # None /\ a + 1 \in 0..(a + 1)
      BY DEF b
    <3> QED
      BY Zenon, <1>9, <1>11, <3>1, <3>2, <3>3
  <2> QED
    BY <1>1, <1>4, <2>1, <2>2
<1>13. h[Len(h)].index = a + 1
  BY <1>4 DEF w
<1>14. Len(h) >= 1 /\ h[1] = Genesis
  BY <1>1, <1>4 DEF LedgerIs
<1>15. LedgerIs(h, l, a + 1)
  BY Zenon, <1>10, <1>12, <1>13, <1>14 DEF LedgerIs
<1> QED
  BY Zenon, <1>9, <1>15 DEF b, w, h

LEMMA LedgerSkips ==
    ASSUME NEW g, NEW l, NEW a \in Nat, LedgerIs(g, l, a), l[a + 1].block = None
    PROVE  LedgerIs(g, l, a + 1)
<1>1. Tip(l, a + 1, g[Len(g)].index)
  BY Zenon, TipNext DEF LedgerIs
<1>2. ASSUME NEW k \in 1..Len(g) PROVE g[k].index \in 0..(a + 1)
  <2>1. g[k].index \in 0..a
    BY Zenon DEF LedgerIs
  <2> QED
    BY <2>1
<1> QED
  BY Zenon, <1>1, <1>2 DEF LedgerIs

(* The index of the last block is enough to go on from.                    *)
LEMMA LedgerRestarts ==
    ASSUME NEW g \in Seq(Written), NEW l \in Seq(Entry), Chained(l), NEW a \in 0..Len(l),
           LedgerIs(g, l, a)
    PROVE  g[Len(g)].index \in 0..a /\ LedgerIs(g, l, g[Len(g)].index)
<1> DEFINE z == g[Len(g)].index
<1>1. Len(g) \in 1..Len(g) /\ Len(g) \in Nat
  BY DEF LedgerIs
<1>2. z \in 0..a /\ Tip(l, a, z) /\ g[Len(g)].block = BlockOf(l, z) /\ g[Len(g)].block.num = Len(g) - 1
  BY Zenon, <1>1 DEF LedgerIs
<1>3. Tip(l, z, z)
  BY <1>2 DEF Tip
<1>4. ASSUME NEW k \in 1..Len(g) PROVE g[k].index \in 0..z
  <2>1. g[k].index \in 0..a /\ g[k].block = BlockOf(l, g[k].index) /\ g[k].block.num = k - 1
    BY Zenon DEF LedgerIs
  <2>2. CASE g[k].index > z
    <3>1. g[k].index \in 1..a /\ l[g[k].index].block = None
      <4> DEFINE x == g[k].index
      <4>1. x \in 0..a /\ z \in 0..a /\ x > z /\ \A i \in (z + 1)..a : l[i].block = None
        BY Zenon, <1>2, <2>1, <2>2 DEF Tip
      <4> HIDE DEF x, z
      <4>2. x \in 1..a /\ x \in (z + 1)..a
        BY <4>1
      <4> QED
        BY Zenon, <4>1, <4>2 DEF x
    <3>2. k = 1
      BY <2>1, <3>1, NoneType DEF BlockOf
    <3> QED
      BY <1>2, <2>2, <3>2 DEF LedgerIs, Genesis
  <2> QED
    BY <1>2, <2>1, <2>2
<1> QED
  BY Zenon, <1>2, <1>3, <1>4 DEF LedgerIs

LEMMA LedgerSame ==
    ASSUME NEW g, NEW l, NEW k, NEW a \in Nat, \A i \in 1..a : k[i] = l[i], LedgerIs(g, l, a),
           Len(g) \in Nat
    PROVE  LedgerIs(g, k, a)
<1>1. Tip(k, a, g[Len(g)].index)
  BY Zenon, TipSame DEF LedgerIs
<1>2. \A x \in 0..a : BlockOf(k, x) = BlockOf(l, x)
  BY DEF BlockOf
<1> QED
  BY Zenon, <1>1, <1>2 DEF LedgerIs

(* A block that there is, is an entry's.                                   *)
LEMMA BlockOfEntry ==
    ASSUME NEW l \in Seq(Entry), NEW x \in 0..Len(l), BlockOf(l, x) # None
    PROVE  x \in 1..Len(l) /\ l[x].block = BlockOf(l, x)
<1>1. x # 0 /\ BlockOf(l, x) = l[x].block
  BY Zenon DEF BlockOf
<1> QED
  BY SMT, <1>1

(* The ledger without its last block is that of an earlier index.          *)
LEMMA LedgerLoses ==
    ASSUME NEW g \in Seq(Written), NEW l \in Seq(Entry), Chained(l), NEW a \in 0..Len(l),
           LedgerIs(g, l, a), Len(g) > 1
    PROVE  LET h == SubSeq(g, 1, Len(g) - 1)
           IN  h \in Seq(Written) /\ h[Len(h)].index \in 0..a /\ LedgerIs(h, l, h[Len(h)].index)
<1> DEFINE q == Len(g) - 1
           h == SubSeq(g, 1, q)
           z == g[q].index
<1>1. /\ q \in Nat /\ q >= 1 /\ q \in 1..q /\ h \in Seq(Written) /\ Len(h) = q
      /\ \A k \in 1..q : h[k] = g[k] /\ k \in 1..Len(g) /\ (k > 1 => h[k - 1] = g[k - 1])
  OBVIOUS
<1> HIDE DEF q, h
<1>2. \A k \in 1..q :
         /\ g[k].index \in 0..a /\ g[k].block = BlockOf(l, g[k].index) /\ g[k].block.num = k - 1
         /\ k > 1 => g[k].block # None /\ g[k].block.prev = g[k - 1].block.id
  BY Zenon, <1>1 DEF LedgerIs
<1>3. g[1] = Genesis
  BY Zenon DEF LedgerIs
<1>4. \A k \in 1..q : k > 1 => g[k].index \in 1..Len(l) /\ l[g[k].index].block = g[k].block
  <2> SUFFICES ASSUME NEW k \in 1..q, k > 1
               PROVE  g[k].index \in 1..Len(l) /\ l[g[k].index].block = g[k].block
    BY Zenon
  <2>1. g[k].index \in 0..Len(l)
    BY <1>2
  <2> QED
    BY Zenon, <1>2, <2>1, BlockOfEntry
<1>5. z \in 0..a
  BY Zenon, <1>1, <1>2
<1>6. Tip(l, z, z)
  <2>1. z > 0 => l[z].block # None
    <3>1. CASE q = 1
      BY <1>3, <3>1 DEF Genesis
    <3>2. CASE q # 1
      <4>1. q > 1
        BY <1>1, <3>2
      <4>2. g[q].block # None /\ l[g[q].index].block = g[q].block
        BY Zenon, <1>1, <1>2, <1>4, <4>1
      <4> QED
        BY Zenon, <4>2
    <3> QED
      BY Zenon, <3>1, <3>2
  <2> QED
    BY <1>5, <2>1 DEF Tip
<1>7. ASSUME NEW k \in 1..q PROVE g[k].index \in 0..z
  <2>1. CASE k = 1
    BY <1>3, <1>5, <2>1 DEF Genesis
  <2>2. CASE k = q
    BY <1>5, <2>2
  <2>3. CASE k # 1 /\ k # q
    <3>1. k > 1 /\ q > 1 /\ k < q
      BY <1>1, <2>3
    <3>2. /\ g[k].index \in 1..Len(l) /\ l[g[k].index].block = g[k].block /\ g[k].block # None
          /\ z \in 1..Len(l) /\ l[z].block = g[q].block
          /\ g[k].block.num = k - 1 /\ g[q].block.num = q - 1
      BY Zenon, <1>1, <1>2, <1>4, <3>1
    <3>3. \A i \in 1..(g[k].index - 1) : l[i].block.num < k - 1
      BY Zenon, <3>2 DEF Chained
    <3>4. ~(q - 1 < k - 1)
      BY <1>1, <3>1
    <3>5. ~(z \in 1..(g[k].index - 1))
      BY Zenon, <3>2, <3>3, <3>4
    <3> DEFINE x == g[k].index
    <3>6. x \in 1..Len(l) /\ z \in 1..Len(l) /\ ~(z \in 1..(x - 1))
      BY Zenon, <3>2, <3>5
    <3> HIDE DEF x, z
    <3>7. x \in 0..z
      BY <3>6
    <3> QED
      BY Zenon, <3>7 DEF x, z
  <2> QED
    BY Zenon, <2>1, <2>2, <2>3
<1>8. h[Len(h)] = g[q] /\ h[1] = Genesis
  <2>1. 1 \in 1..q
    BY <1>1
  <2> QED
    BY Zenon, <1>1, <1>3, <2>1
<1>9. \A k \in 1..Len(h) :
         /\ h[k].index \in 0..z /\ h[k].block = BlockOf(l, h[k].index) /\ h[k].block.num = k - 1
         /\ k > 1 => h[k].block # None /\ h[k].block.prev = h[k - 1].block.id
  BY Zenon, <1>1, <1>2, <1>7
<1>10. LedgerIs(h, l, z)
  BY Zenon, <1>1, <1>6, <1>8, <1>9 DEF LedgerIs
<1> QED
  BY Zenon, <1>1, <1>5, <1>8, <1>10 DEF h, q

(* Two ledgers of the same log do not disagree.                            *)
LEMMA LedgersSame ==
    ASSUME NEW l \in Seq(Entry), Chained(l), NEW a \in 0..Len(l), NEW b \in 0..Len(l),
           NEW g \in Seq(Written), LedgerIs(g, l, a), NEW h \in Seq(Written), LedgerIs(h, l, b),
           NEW k \in 1..Len(g), k <= Len(h)
    PROVE  g[k] = h[k]
<1>1. k \in 1..Len(h) /\ Len(g) \in Nat /\ Len(h) \in Nat
  OBVIOUS
<1>2. CASE k = 1
  BY Zenon, <1>2 DEF LedgerIs
<1>3. CASE k > 1
  <2> DEFINE x == g[k].index
             y == h[k].index
  <2>1. /\ x \in 0..a /\ g[k].block = BlockOf(l, x) /\ g[k].block.num = k - 1 /\ g[k].block # None
        /\ y \in 0..b /\ h[k].block = BlockOf(l, y) /\ h[k].block.num = k - 1 /\ h[k].block # None
    BY Zenon, <1>1, <1>3 DEF LedgerIs
  <2>2. x \in 1..Len(l) /\ y \in 1..Len(l) /\ l[x].block = g[k].block /\ l[y].block = h[k].block
    <3>1. x \in 0..Len(l) /\ y \in 0..Len(l)
      BY SMT, <2>1
    <3> QED
      BY Zenon, <2>1, <3>1, BlockOfEntry
  <2>3. \A i \in 1..(x - 1) : l[i].block.num < l[x].block.num
    BY Zenon, <2>1, <2>2 DEF Chained
  <2>4. \A i \in 1..(y - 1) : l[i].block.num < l[y].block.num
    BY Zenon, <2>1, <2>2 DEF Chained
  <2> HIDE DEF x, y
  <2>5. x = y
    <3>1. l[x].block.num = k - 1 /\ l[y].block.num = k - 1 /\ ~(k - 1 < k - 1)
      <4>1. ~(k - 1 < k - 1)
        BY SMT
      <4> QED
        BY Zenon, <2>1, <2>2, <4>1
    <3>2. ~(x \in 1..(y - 1)) /\ ~(y \in 1..(x - 1))
      BY Zenon, <2>3, <2>4, <3>1
    <3> QED
      BY SMT, <2>2, <3>2
  <2>6. g[k].index = h[k].index /\ g[k].block = h[k].block
    BY Zenon, <2>1, <2>2, <2>5 DEF x, y
  <2>7. /\ g[k] = [block |-> g[k].block, index |-> g[k].index]
        /\ h[k] = [block |-> h[k].block, index |-> h[k].index]
    BY Zenon, <1>1, WrittenType
  <2> QED
    BY Zenon, <2>6, <2>7
<1> QED
  BY <1>1, <1>2, <1>3

-----------------------------------------------------------------------------
(* Prefixes of logs and their terms.                                       *)

LEMMA LastTermIs ==
    ASSUME NEW l \in Seq(Entry)
    PROVE  /\ LastTerm(l) \in Nat
           /\ l # <<>> => Len(l) \in 1..Len(l) /\ LastTerm(l) = l[Len(l)].term
           /\ l = <<>> => Len(l) = 0 /\ LastTerm(l) = 0
<1>1. CASE l = <<>>
  BY Zenon, <1>1 DEF LastTerm
<1>2. CASE l # <<>>
  <2>1. Len(l) \in 1..Len(l)
    BY <1>2
  <2> QED
    BY Zenon, <1>2, <2>1, EntryType DEF LastTerm
<1> QED
  BY Zenon, <1>1, <1>2

LEMMA OrderedLast ==
    ASSUME NEW l \in Seq(Entry), NEW t \in Nat, Ordered(l, t), NEW i \in 1..Len(l)
    PROVE  l[i].term <= LastTerm(l) /\ LastTerm(l) <= t /\ l[i].term \in Nat
<1>1. l # <<>>
  OBVIOUS
<1>2. Len(l) \in 1..Len(l) /\ LastTerm(l) = l[Len(l)].term /\ i \in 1..Len(l)
  BY Zenon, <1>1, LastTermIs
<1>3. l[Len(l)].term \in 1..t /\ l[i].term <= l[Len(l)].term /\ l[i].term \in 1..t
  BY Zenon, <1>2 DEF Ordered
<1> QED
  BY <1>2, <1>3

LEMMA OrderedGrows ==
    ASSUME NEW l, NEW t \in Nat, NEW u \in Nat, t <= u, Ordered(l, t) PROVE Ordered(l, u)
<1> SUFFICES ASSUME NEW i \in 1..Len(l) PROVE l[i].term \in 1..u /\ \A j \in 1..i : l[j].term <= l[i].term
  BY Zenon DEF Ordered
<1>1. l[i].term \in 1..t /\ \A j \in 1..i : l[j].term <= l[i].term
  BY Zenon DEF Ordered
<1> QED
  BY <1>1

LEMMA PrefixLast ==
    ASSUME NEW l \in Seq(Entry), NEW t \in Nat, Ordered(l, t), NEW p \in Seq(Entry), p # <<>>,
           Prefix(p, l)
    PROVE  /\ Len(p) \in 1..Len(l) /\ l[Len(p)].term = LastTerm(p) /\ LastTerm(p) <= LastTerm(l)
<1>1. Len(p) \in 1..Len(p) /\ LastTerm(p) = p[Len(p)].term
  BY Zenon, LastTermIs
<1>2. Len(p) \in 1..Len(l) /\ l[Len(p)] = p[Len(p)]
  BY <1>1 DEF Prefix
<1> QED
  BY Zenon, <1>1, <1>2, OrderedLast

LEMMA PrefixOrdered ==
    ASSUME NEW l \in Seq(Entry), NEW t \in Nat, Ordered(l, t), NEW p \in Seq(Entry), Prefix(p, l)
    PROVE  Ordered(p, t)
<1> SUFFICES ASSUME NEW i \in 1..Len(p) PROVE p[i].term \in 1..t /\ \A j \in 1..i : p[j].term <= p[i].term
  BY Zenon DEF Ordered
<1>1. i \in 1..Len(l) /\ \A j \in 1..i : p[j] = l[j]
  BY DEF Prefix
<1>2. l[i].term \in 1..t /\ \A j \in 1..i : l[j].term <= l[i].term
  BY Zenon, <1>1 DEF Ordered
<1> QED
  BY <1>1, <1>2

LEMMA PrefixTrans ==
    ASSUME NEW p \in Seq(Entry), NEW q \in Seq(Entry), NEW l \in Seq(Entry), Prefix(p, q), Prefix(q, l)
    PROVE  Prefix(p, l)
  BY DEF Prefix

LEMMA PrefixAppend ==
    ASSUME NEW p \in Seq(Entry), NEW l \in Seq(Entry), NEW e \in Entry, Prefix(p, l)
    PROVE  Prefix(p, Append(l, e))
  BY DEF Prefix

(* Logs with an entry in common are the same up to it.                     *)
LEMMA MatchPrefix ==
    ASSUME NEW l \in Seq(Entry), NEW k \in Seq(Entry), Match(l, k), l # <<>>, Len(l) <= Len(k),
           k[Len(l)].term = LastTerm(l)
    PROVE  Prefix(l, k)
<1>1. Len(l) \in 1..Len(l) /\ LastTerm(l) = l[Len(l)].term
  BY Zenon, LastTermIs
<1>2. \A j \in 1..Len(l) : l[j] = k[j]
  BY Zenon, <1>1 DEF Match
<1> QED
  BY Zenon, <1>2 DEF Prefix

LEMMA PrefixMatch ==
    ASSUME NEW l \in Seq(Entry), NEW k \in Seq(Entry), Match(l, k), Match(k, l),
           NEW p \in Seq(Entry), Prefix(p, l)
    PROVE  Match(p, k) /\ Match(k, p)
<1>1. ASSUME NEW i \in 1..Len(p), i <= Len(k), p[i].term = k[i].term PROVE \A j \in 1..i : p[j] = k[j]
  <2>1. i \in 1..Len(l) /\ \A j \in 1..i : p[j] = l[j]
    BY DEF Prefix
  <2>2. l[i].term = k[i].term
    BY <1>1, <2>1
  <2>3. \A j \in 1..i : l[j] = k[j]
    BY Zenon, <1>1, <2>1, <2>2 DEF Match
  <2> QED
    BY Zenon, <2>1, <2>3
<1>2. ASSUME NEW i \in 1..Len(k), i <= Len(p), p[i].term = k[i].term PROVE \A j \in 1..i : p[j] = k[j]
  <2>1. i \in 1..Len(p) /\ i <= Len(k)
    BY <1>2
  <2> QED
    BY Zenon, <1>1, <1>2, <2>1
<1>3. Match(p, k)
  BY Zenon, <1>1 DEF Match
<1>4. Match(k, p)
  BY Zenon, <1>2 DEF Match
<1> QED
  BY Zenon, <1>3, <1>4

-----------------------------------------------------------------------------
(* The invariant of raft.                                                  *)

LogsInv ==
    /\ \A m \in Nodes : Ordered(log[m], term[m])
    /\ \A m, k \in Nodes : Match(log[m], log[k])

(* A leader is the only one of its term, and has every entry of it.        *)
LeadersInv ==
    /\ \A n \in leaders : log[n] # <<>> /\ LastTerm(log[n]) = term[n]
    /\ \A n, k \in leaders : term[n] = term[k] => n = k
    /\ \A n \in leaders, m \in Nodes : \A i \in 1..Len(log[m]) :
          log[m][i].term = term[n] => i <= Len(log[n]) /\ log[n][i] = log[m][i]

Reached(t) == \E Q \in SUBSET Nodes : Quorum(Q) /\ \A k \in Q : term[k] >= t

TermsInv == \A m \in Nodes : term[m] > 0 => Reached(term[m])

(* The committed log is that of a quorum, and of every later log.          *)
CommittedInv ==
    committed # <<>> =>
        /\ \E Q \in SUBSET Nodes :
              Quorum(Q) /\ \A m \in Q : Prefix(committed, log[m]) /\ term[m] >= LastTerm(committed)
        /\ \A m \in Nodes :
              /\ LastTerm(log[m]) > LastTerm(committed) => Prefix(committed, log[m])
              /\ LastTerm(log[m]) = LastTerm(committed) =>
                    Prefix(committed, log[m]) \/ Prefix(log[m], committed)

RaftInv == LogsInv /\ LeadersInv /\ TermsInv /\ CommittedInv

\* Two quorums have a node in common.
Majorities == \A Q, M \in SUBSET Nodes : Quorum(Q) /\ Quorum(M) => Q \cap M # {}

LEMMA NodeTypes ==
    ASSUME TypeInv, NEW m \in Nodes
    PROVE  term[m] \in Nat /\ log[m] \in Seq(Entry) /\ Len(log[m]) \in Nat /\ LastTerm(log[m]) \in Nat
<1>1. term[m] \in Nat /\ log[m] \in Seq(Entry)
  BY Zenon DEF TypeInv
<1> QED
  BY <1>1, LastTermIs

LEMMA LeaderNodes == ASSUME TypeInv PROVE leaders \subseteq Nodes
  BY Zenon, RaftAssumption DEF TypeInv

(* No term is above that of a node which a quorum does not exceed.         *)
LEMMA TopTerm ==
    ASSUME Majorities, TypeInv, TermsInv, NEW t \in Nat, NEW Q \in SUBSET Nodes, Quorum(Q),
           \A m \in Q : term[m] <= t, NEW k \in Nodes
    PROVE  term[k] <= t
<1> SUFFICES ASSUME term[k] > t PROVE FALSE
  BY NodeTypes
<1>1. term[k] \in Nat /\ term[k] > 0
  BY NodeTypes
<1>2. PICK M \in SUBSET Nodes : Quorum(M) /\ \A m \in M : term[m] >= term[k]
  BY Zenon, <1>1 DEF TermsInv, Reached
<1>3. PICK m \in Nodes : m \in Q /\ m \in M
  BY Zenon, <1>2 DEF Majorities
<1>4. term[m] <= t /\ term[m] >= term[k] /\ term[m] \in Nat
  BY Zenon, <1>2, <1>3, NodeTypes
<1> QED
  BY <1>1, <1>4

(* A node of the quorum that has the committed log.                        *)
LEMMA CommittedSomewhere ==
    ASSUME Majorities, TypeInv, LogsInv, CommittedInv, committed # <<>>, NEW Q \in SUBSET Nodes, Quorum(Q)
    PROVE  \E m \in Q : /\ Prefix(committed, log[m]) /\ term[m] >= LastTerm(committed)
                        /\ Len(committed) \in 1..Len(log[m])
                        /\ log[m][Len(committed)].term = LastTerm(committed)
                        /\ LastTerm(committed) <= LastTerm(log[m])
<1>1. PICK M \in SUBSET Nodes :
         Quorum(M) /\ \A m \in M : Prefix(committed, log[m]) /\ term[m] >= LastTerm(committed)
  BY Zenon DEF CommittedInv
<1>2. PICK m \in Nodes : m \in Q /\ m \in M
  BY Zenon, <1>1 DEF Majorities
<1>3. Prefix(committed, log[m]) /\ term[m] >= LastTerm(committed) /\ Ordered(log[m], term[m])
  BY Zenon, <1>1, <1>2 DEF LogsInv
<1>4. committed \in Seq(Entry) /\ log[m] \in Seq(Entry) /\ term[m] \in Nat
  BY Zenon, NodeTypes DEF TypeInv
<1> QED
  BY Zenon, <1>2, <1>3, <1>4, PrefixLast

(* A leader whose term is not before it has the committed log.             *)
LEMMA LeaderHas ==
    ASSUME Majorities, TypeInv, RaftInv, committed # <<>>, NEW n \in leaders,
           term[n] >= LastTerm(committed)
    PROVE  Prefix(committed, log[n])
<1>1. n \in Nodes /\ LastTerm(log[n]) = term[n] /\ term[n] \in Nat /\ LastTerm(committed) \in Nat
  BY Zenon, LeaderNodes, NodeTypes, LastTermIs DEF RaftInv, LeadersInv, TypeInv
<1>2. CASE term[n] > LastTerm(committed)
  BY Zenon, <1>1, <1>2 DEF RaftInv, CommittedInv
<1>3. CASE term[n] = LastTerm(committed)
  <2>1. PICK Q \in SUBSET Nodes : Quorum(Q)
    BY Zenon DEF RaftInv, CommittedInv
  <2>2. PICK m \in Q : /\ Prefix(committed, log[m]) /\ Len(committed) \in 1..Len(log[m])
                       /\ log[m][Len(committed)].term = LastTerm(committed)
    BY Zenon, <2>1, CommittedSomewhere DEF RaftInv
  <2>3. Len(committed) <= Len(log[n]) /\ log[n][Len(committed)] = log[m][Len(committed)]
    <3>1. \A i \in 1..Len(log[m]) : log[m][i].term = term[n] =>
             i <= Len(log[n]) /\ log[n][i] = log[m][i]
      BY Zenon DEF RaftInv, LeadersInv
    <3> QED
      BY Zenon, <1>3, <2>2, <3>1
  <2>4. \A j \in 1..Len(committed) : log[m][j] = log[n][j]
    BY Zenon, <1>1, <2>2, <2>3 DEF RaftInv, LogsInv, Match
  <2> QED
    BY Zenon, <2>2, <2>3, <2>4 DEF Prefix
<1> QED
  BY <1>1, <1>2, <1>3

(* So does the winner of an election.                                      *)
LEMMA WinnerHas ==
    ASSUME Majorities, TypeInv, RaftInv, committed # <<>>, NEW n \in Nodes, NEW Q \in SUBSET Nodes,
           Quorum(Q), \A m \in Q \ {n} : UpToDate(log[n], log[m])
    PROVE  Prefix(committed, log[n])
<1>1. PICK m \in Q : /\ Prefix(committed, log[m]) /\ Len(committed) \in 1..Len(log[m])
                     /\ LastTerm(committed) <= LastTerm(log[m])
  BY Zenon, CommittedSomewhere DEF RaftInv
<1>2. CASE m = n
  BY Zenon, <1>1, <1>2
<1>3. CASE m # n
  <2>1. UpToDate(log[n], log[m])
    BY Zenon, <1>3
  <2>2. /\ LastTerm(log[n]) \in Nat /\ LastTerm(log[m]) \in Nat /\ LastTerm(committed) \in Nat
        /\ Len(log[n]) \in Nat /\ Len(log[m]) \in Nat /\ Len(committed) \in Nat
    BY NodeTypes, LastTermIs DEF TypeInv
  <2>3. CASE LastTerm(log[n]) > LastTerm(committed)
    BY Zenon, <2>3 DEF RaftInv, CommittedInv
  <2>4. CASE ~(LastTerm(log[n]) > LastTerm(committed))
    <3>1. LastTerm(log[n]) = LastTerm(committed) /\ Len(log[n]) >= Len(committed)
      BY <1>1, <2>1, <2>2, <2>4 DEF UpToDate
    <3>2. Prefix(committed, log[n]) \/ Prefix(log[n], committed)
      BY Zenon, <3>1 DEF RaftInv, CommittedInv
    <3>3. Prefix(log[n], committed) => Prefix(committed, log[n])
      BY <2>2, <3>1 DEF Prefix
    <3> QED
      BY Zenon, <3>2, <3>3
  <2> QED
    BY Zenon, <2>3, <2>4
<1> QED
  BY Zenon, <1>2, <1>3

-----------------------------------------------------------------------------
(* A log that grows.                                                       *)

LEMMA AppendIs ==
    ASSUME NEW l \in Seq(Entry), NEW e \in Entry
    PROVE  /\ Append(l, e) \in Seq(Entry) /\ Append(l, e) # <<>> /\ Len(Append(l, e)) = Len(l) + 1
           /\ Len(l) \in Nat /\ Append(l, e)[Len(l) + 1] = e /\ LastTerm(Append(l, e)) = e.term
           /\ \A i \in 1..Len(l) : Append(l, e)[i] = l[i]
<1>1. /\ Append(l, e) \in Seq(Entry) /\ Append(l, e) # <<>> /\ Len(Append(l, e)) = Len(l) + 1
      /\ Len(l) \in Nat /\ Append(l, e)[Len(l) + 1] = e
  OBVIOUS
<1>2. \A i \in 1..Len(l) : Append(l, e)[i] = l[i]
  OBVIOUS
<1> QED
  BY Zenon, <1>1, <1>2 DEF LastTerm

LEMMA MatchAppend ==
    ASSUME NEW l \in Seq(Entry), NEW k \in Seq(Entry), Match(l, k), Match(k, l), NEW e \in Entry,
           \A i \in 1..Len(k) : k[i].term = e.term => i <= Len(l)
    PROVE  Match(Append(l, e), k) /\ Match(k, Append(l, e))
<1> DEFINE a == Append(l, e)
<1>1. Len(a) = Len(l) + 1 /\ Len(l) \in Nat /\ a[Len(l) + 1] = e /\ Len(k) \in Nat
  BY Zenon, AppendIs
<1>2. \A i \in 1..Len(l) : a[i] = l[i]
  BY Zenon, AppendIs
<1> HIDE DEF a
<1>3. ASSUME NEW i \in 1..Len(a), i <= Len(k), a[i].term = k[i].term
      PROVE  \A j \in 1..i : a[j] = k[j]
  <2>1. i \in 1..Len(k)
    BY <1>3
  <2>2. i # Len(l) + 1
    BY <1>1, <1>3, <2>1
  <2>3. i \in 1..Len(l)
    BY <1>1, <2>2
  <2>4. \A j \in 1..i : l[j] = k[j]
    BY Zenon, <1>2, <1>3, <2>3 DEF Match
  <2> QED
    BY <1>1, <1>2, <2>3, <2>4
<1>4. ASSUME NEW i \in 1..Len(k), i <= Len(a), k[i].term = a[i].term
      PROVE  \A j \in 1..i : k[j] = a[j]
  <2>1. i \in 1..Len(a) /\ i <= Len(k)
    BY <1>1, <1>4
  <2> QED
    BY Zenon, <1>3, <1>4, <2>1
<1>5. Match(a, k)
  BY Zenon, <1>3 DEF Match
<1>6. Match(k, a)
  BY Zenon, <1>4 DEF Match
<1> QED
  BY Zenon, <1>5, <1>6 DEF a

LEMMA OrderedAppend ==
    ASSUME NEW l \in Seq(Entry), NEW t \in Nat, Ordered(l, t), NEW e \in Entry, e.term \in Nat \ {0},
           t <= e.term
    PROVE  Ordered(Append(l, e), e.term)
<1> DEFINE a == Append(l, e)
<1>1. Len(a) = Len(l) + 1 /\ Len(l) \in Nat /\ a[Len(l) + 1] = e
  BY Zenon, AppendIs
<1>2. \A i \in 1..Len(l) : a[i] = l[i]
  BY Zenon, AppendIs
<1> HIDE DEF a
<1>3. ASSUME NEW i \in 1..Len(l) PROVE l[i].term \in 1..e.term /\ \A j \in 1..i : l[j].term <= l[i].term
  <2>1. l[i].term \in 1..t /\ \A j \in 1..i : l[j].term <= l[i].term
    BY Zenon DEF Ordered
  <2> QED
    BY <2>1
<1>4. ASSUME NEW i \in 1..Len(a) PROVE a[i].term \in 1..e.term /\ \A j \in 1..i : a[j].term <= a[i].term
  <2>1. CASE i = Len(l) + 1
    <3>1. ASSUME NEW j \in 1..i PROVE a[j].term <= e.term
      <4>1. CASE j = i
        BY <1>1, <2>1, <4>1
      <4>2. CASE j # i
        <5>1. j \in 1..Len(l)
          BY <1>1, <2>1, <4>2
        <5>2. l[j].term \in 1..e.term /\ a[j] = l[j]
          BY Zenon, <1>2, <1>3, <5>1
        <5> QED
          BY <5>2
      <4> QED
        BY Zenon, <4>1, <4>2
    <3> QED
      BY <1>1, <2>1, <3>1
  <2>2. CASE i # Len(l) + 1
    <3>1. i \in 1..Len(l) /\ \A j \in 1..i : j \in 1..Len(l)
      BY <1>1, <2>2
    <3> QED
      BY Zenon, <1>2, <1>3, <3>1
  <2> QED
    BY Zenon, <2>1, <2>2
<1> QED
  BY Zenon, <1>4 DEF Ordered, a

-----------------------------------------------------------------------------
(* Elections and proposals: the log of one leader grows by an entry e.     *)

GrowsBy(n, e) ==
    /\ log' = [log EXCEPT ![n] = Append(@, e)] /\ committed' = committed
    /\ term'[n] = e.term /\ \A m \in Nodes : term[m] <= term'[m]
    /\ n \in leaders' /\ leaders' \subseteq leaders \cup {n}
    /\ \A k \in leaders' \ {n} : term'[k] = term[k] /\ term[k] # e.term
    /\ \A m \in Nodes : \A i \in 1..Len(log[m]) :
          log[m][i].term = e.term => i <= Len(log[n]) /\ log[n][i] = log[m][i]

LEMMA GrownLogs ==
    ASSUME TypeInv, NEW n \in Nodes, NEW e \in Entry, GrowsBy(n, e)
    PROVE  log'[n] = Append(log[n], e) /\ \A m \in Nodes \ {n} : log'[m] = log[m]
  BY Zenon DEF TypeInv, GrowsBy

LEMMA GrowsLogs ==
    ASSUME TypeInv, TypeInv', LogsInv, NEW n \in Nodes, NEW e \in Entry, e.term \in Nat \ {0},
           GrowsBy(n, e)
    PROVE  LogsInv'
<1>1. log'[n] = Append(log[n], e) /\ \A m \in Nodes \ {n} : log'[m] = log[m]
  BY Zenon, GrownLogs
<1>2. term'[n] = e.term /\ \A m \in Nodes : term[m] <= term'[m]
  BY Zenon DEF GrowsBy
<1>3. ASSUME NEW m \in Nodes PROVE term[m] \in Nat /\ term'[m] \in Nat /\ log[m] \in Seq(Entry)
  BY Zenon DEF TypeInv
<1>4. ASSUME NEW m \in Nodes PROVE Ordered(log'[m], term'[m])
  <2>1. Ordered(log[m], term[m])
    BY Zenon DEF LogsInv
  <2>2. CASE m = n
    BY Zenon, <1>1, <1>2, <1>3, <2>1, <2>2, OrderedAppend
  <2>3. CASE m # n
    BY Zenon, <1>1, <1>2, <1>3, <2>1, <2>3, OrderedGrows
  <2> QED
    BY Zenon, <2>2, <2>3
<1>5. ASSUME NEW m \in Nodes \ {n} PROVE Match(log'[n], log'[m]) /\ Match(log'[m], log'[n])
  <2>1. Match(log[n], log[m]) /\ Match(log[m], log[n])
    BY Zenon DEF LogsInv
  <2>2. \A i \in 1..Len(log[m]) : log[m][i].term = e.term => i <= Len(log[n])
    BY Zenon DEF GrowsBy
  <2> QED
    BY Zenon, <1>1, <1>3, <2>1, <2>2, MatchAppend
<1>6. Match(log'[n], log'[n])
  BY Zenon DEF Match
<1>7. ASSUME NEW m \in Nodes, NEW k \in Nodes PROVE Match(log'[m], log'[k])
  BY Zenon, <1>1, <1>5, <1>6 DEF LogsInv
<1> QED
  BY Zenon, <1>4, <1>7 DEF LogsInv

LEMMA GrowsLeaders ==
    ASSUME TypeInv, TypeInv', LeadersInv, NEW n \in Nodes, NEW e \in Entry, GrowsBy(n, e)
    PROVE  LeadersInv'
<1>1. log'[n] = Append(log[n], e) /\ \A m \in Nodes \ {n} : log'[m] = log[m]
  BY Zenon, GrownLogs
<1>2. term'[n] = e.term /\ \A k \in leaders' \ {n} : k \in leaders /\ term'[k] = term[k] /\ term[k] # e.term
  BY Zenon DEF GrowsBy
<1>3. leaders' \subseteq Nodes
  BY Zenon, RaftAssumption DEF TypeInv
<1>4. /\ log'[n] # <<>> /\ LastTerm(log'[n]) = e.term /\ Len(log'[n]) = Len(log[n]) + 1
      /\ Len(log[n]) \in Nat /\ log'[n][Len(log[n]) + 1] = e
      /\ \A i \in 1..Len(log[n]) : log'[n][i] = log[n][i]
  <2>1. log[n] \in Seq(Entry)
    BY Zenon, NodeTypes
  <2> QED
    BY <1>1, <2>1, AppendIs
<1>5. ASSUME NEW k \in leaders' PROVE log'[k] # <<>> /\ LastTerm(log'[k]) = term'[k]
  <2>1. CASE k = n
    BY Zenon, <1>2, <1>4, <2>1
  <2>2. CASE k # n
    <3>1. k \in leaders /\ term'[k] = term[k] /\ log'[k] = log[k]
      BY Zenon, <1>1, <1>2, <1>3, <2>2
    <3>2. log[k] # <<>> /\ LastTerm(log[k]) = term[k]
      BY Zenon, <3>1 DEF LeadersInv
    <3> QED
      BY Zenon, <3>1, <3>2
  <2> QED
    BY Zenon, <2>1, <2>2
<1>6. ASSUME NEW j \in leaders', NEW k \in leaders', term'[j] = term'[k] PROVE j = k
  <2>1. \A x, y \in leaders : term[x] = term[y] => x = y
    BY Zenon DEF LeadersInv
  <2> QED
    BY Zenon, <1>2, <1>6, <2>1
<1>7. ASSUME NEW k \in leaders', NEW m \in Nodes, NEW i \in 1..Len(log'[m]), log'[m][i].term = term'[k]
      PROVE  i <= Len(log'[k]) /\ log'[k][i] = log'[m][i]
  <2>1. CASE k = n
    <3>1. CASE m = n
      BY <2>1, <3>1
    <3>2. CASE m # n
      <4>1. i \in 1..Len(log[m]) /\ log[m][i].term = e.term /\ log'[m] = log[m]
        BY Zenon, <1>1, <1>2, <1>7, <2>1, <3>2
      <4>2. i <= Len(log[n]) /\ log[n][i] = log[m][i]
        BY Zenon, <4>1 DEF GrowsBy
      <4>3. i \in 1..Len(log[n]) /\ i <= Len(log[n]) + 1
        BY <1>4, <4>2
      <4> QED
        BY Zenon, <1>4, <2>1, <4>1, <4>2, <4>3
    <3> QED
      BY Zenon, <3>1, <3>2
  <2>2. CASE k # n
    <3>1. k \in leaders /\ term'[k] = term[k] /\ term[k] # e.term /\ log'[k] = log[k]
      BY Zenon, <1>1, <1>2, <1>3, <2>2
    <3>2. i \in 1..Len(log[m]) /\ log'[m][i] = log[m][i]
      <4>1. CASE m = n
        <5>1. i # Len(log[n]) + 1
          BY Zenon, <1>4, <1>7, <3>1, <4>1
        <5>2. i \in 1..Len(log[n])
          BY <1>4, <4>1, <5>1
        <5> QED
          BY Zenon, <1>4, <4>1, <5>2
      <4>2. CASE m # n
        BY Zenon, <1>1, <4>2
      <4> QED
        BY Zenon, <4>1, <4>2
    <3>3. log[m][i].term = term[k]
      BY Zenon, <1>7, <3>1, <3>2
    <3>4. i <= Len(log[k]) /\ log[k][i] = log[m][i]
      BY Zenon, <3>1, <3>2, <3>3 DEF LeadersInv
    <3> QED
      BY Zenon, <3>1, <3>2, <3>4
  <2> QED
    BY Zenon, <2>1, <2>2
<1> QED
  BY Zenon, <1>5, <1>6, <1>7 DEF LeadersInv

LEMMA GrowsCommitted ==
    ASSUME TypeInv, TypeInv', CommittedInv, NEW n \in Nodes, NEW e \in Entry, GrowsBy(n, e),
           committed # <<>> /\ e.term >= LastTerm(committed) => Prefix(committed, log[n])
    PROVE  CommittedInv'
<1> SUFFICES ASSUME committed # <<>> PROVE CommittedInv'
  BY Zenon DEF CommittedInv, GrowsBy
<1>1. log'[n] = Append(log[n], e) /\ \A m \in Nodes \ {n} : log'[m] = log[m]
  BY Zenon, GrownLogs
<1>2. committed' = committed /\ \A m \in Nodes : term[m] <= term'[m]
  BY Zenon DEF GrowsBy
<1>3. log[n] \in Seq(Entry) /\ committed \in Seq(Entry) /\ LastTerm(committed) \in Nat
  BY Zenon, NodeTypes, LastTermIs DEF TypeInv
<1>4. ASSUME Prefix(committed, log[n]) PROVE Prefix(committed, log'[n])
  BY Zenon, <1>1, <1>3, <1>4, PrefixAppend
<1>5. PICK Q \in SUBSET Nodes :
         Quorum(Q) /\ \A m \in Q : Prefix(committed, log[m]) /\ term[m] >= LastTerm(committed)
  BY Zenon DEF CommittedInv
<1>6. ASSUME NEW m \in Q PROVE Prefix(committed, log'[m]) /\ term'[m] >= LastTerm(committed)
  <2>1. term[m] >= LastTerm(committed) /\ term[m] <= term'[m] /\ term[m] \in Nat /\ term'[m] \in Nat
    BY Zenon, <1>2, <1>5 DEF TypeInv
  <2>2. Prefix(committed, log'[m])
    BY Zenon, <1>1, <1>4, <1>5
  <2> QED
    BY <1>3, <2>1, <2>2
<1>7. ASSUME LastTerm(log'[n]) >= LastTerm(committed) PROVE Prefix(committed, log'[n])
  <2>1. LastTerm(log'[n]) = e.term
    BY <1>1, <1>3, AppendIs
  <2> QED
    BY Zenon, <1>4, <1>7, <2>1
<1>8. ASSUME NEW m \in Nodes
      PROVE  /\ LastTerm(log'[m]) > LastTerm(committed) => Prefix(committed, log'[m])
             /\ LastTerm(log'[m]) = LastTerm(committed) =>
                   Prefix(committed, log'[m]) \/ Prefix(log'[m], committed)
  <2>1. CASE m = n
    <3>1. LastTerm(log'[n]) \in Nat
      BY Zenon, LastTermIs DEF TypeInv
    <3>2. LastTerm(log'[n]) > LastTerm(committed) \/ LastTerm(log'[n]) = LastTerm(committed) =>
             LastTerm(log'[n]) >= LastTerm(committed)
      BY <1>3, <3>1
    <3> QED
      BY Zenon, <1>7, <2>1, <3>2
  <2>2. CASE m # n
    BY Zenon, <1>1, <2>2 DEF CommittedInv
  <2> QED
    BY Zenon, <2>1, <2>2
<1> QED
  BY Zenon, <1>2, <1>5, <1>6, <1>8 DEF CommittedInv

(* A term that is new is that of a quorum.                                 *)
LEMMA TermsRaise ==
    ASSUME TypeInv, TypeInv', TermsInv, \A m \in Nodes : term[m] <= term'[m],
           \A m \in Nodes : \/ term'[m] = term[m]
                            \/ \E Q \in SUBSET Nodes : Quorum(Q) /\ \A k \in Q : term'[k] >= term'[m]
    PROVE  TermsInv'
<1> SUFFICES ASSUME NEW m \in Nodes, term'[m] > 0
             PROVE  \E Q \in SUBSET Nodes : Quorum(Q) /\ \A k \in Q : term'[k] >= term'[m]
  BY Zenon DEF TermsInv, Reached
<1>1. CASE term'[m] = term[m]
  <2>1. PICK Q \in SUBSET Nodes : Quorum(Q) /\ \A k \in Q : term[k] >= term[m]
    BY Zenon, <1>1 DEF TermsInv, Reached
  <2>2. ASSUME NEW k \in Q PROVE term'[k] >= term'[m]
    <3>1. term[k] >= term[m] /\ term[k] <= term'[k]
      BY Zenon, <2>1
    <3>2. term[k] \in Nat /\ term'[k] \in Nat /\ term[m] \in Nat
      BY Zenon DEF TypeInv
    <3> QED
      BY <1>1, <3>1, <3>2
  <2> QED
    BY Zenon, <2>1, <2>2
<1> QED
  BY Zenon, <1>1

LEMMA ElectRaft ==
    ASSUME Majorities, TypeInv, TypeInv', RaftInv, NEW n \in Nodes, NEW Q \in SUBSET Nodes, Elect(n, Q)
    PROVE  /\ RaftInv' /\ GrowsBy(n, NoOp(term[n] + 1)) /\ NoOp(term[n] + 1) \in Entry
           /\ committed # <<>> => Prefix(committed, log[n])
<1> DEFINE t == term[n] + 1
           e == NoOp(t)
<1>1. /\ n \in Q /\ Quorum(Q) /\ \A m \in Q \ {n} : term[m] < t /\ UpToDate(log[n], log[m])
      /\ term' = [m \in Nodes |-> IF m \in Q THEN t ELSE term[m]]
      /\ log' = [log EXCEPT ![n] = Append(@, e)] /\ leaders' = (leaders \ Q) \cup {n}
      /\ committed' = committed
  BY Zenon DEF Elect
<1>2. term[n] \in Nat
  BY Zenon, NodeTypes
<1>3. e \in Entry /\ e.term = t /\ e.term \in Nat \ {0} /\ t \in Nat
  BY <1>2, NoneType DEF NoOp, Entry
<1>4. ASSUME NEW m \in Q PROVE term[m] <= term[n]
  <2>1. term[m] \in Nat
    BY Zenon, NodeTypes
  <2>2. m = n \/ term[m] < t
    BY Zenon, <1>1
  <2> QED
    BY <1>2, <2>1, <2>2
<1>5. ASSUME NEW m \in Nodes PROVE term[m] <= term[n] /\ term[m] \in Nat /\ term[m] # t
  <2>1. term[m] <= term[n]
    BY Zenon, <1>1, <1>2, <1>4, TopTerm DEF RaftInv
  <2>2. term[m] \in Nat
    BY Zenon, NodeTypes
  <2> QED
    BY <1>2, <2>1, <2>2
<1>6. ASSUME NEW m \in Nodes PROVE term'[m] = (IF m \in Q THEN t ELSE term[m]) /\ term[m] <= term'[m]
  <2>1. term'[m] = IF m \in Q THEN t ELSE term[m]
    BY Zenon, <1>1
  <2> QED
    BY <1>2, <1>5, <2>1
<1>7. ASSUME NEW m \in Nodes, NEW i \in 1..Len(log[m]) PROVE log[m][i].term # t
  <2>1. log[m][i].term \in 1..term[m]
    BY Zenon DEF RaftInv, LogsInv, Ordered
  <2> QED
    BY <1>2, <1>5, <2>1
<1>8. leaders \subseteq Nodes
  BY Zenon, LeaderNodes
<1> HIDE DEF t, e
<1>9. GrowsBy(n, e)
  BY Zenon, <1>1, <1>3, <1>5, <1>6, <1>7, <1>8 DEF GrowsBy
<1>10. TermsInv'
  <2>1. \A k \in Q : term'[k] = t
    BY Zenon, <1>6
  <2>2. \A k \in Q : term'[k] >= t
    BY <1>3, <2>1
  <2>3. \A m \in Nodes : \/ term'[m] = term[m]
                         \/ \E M \in SUBSET Nodes : Quorum(M) /\ \A k \in M : term'[k] >= term'[m]
    BY Zenon, <1>1, <1>6, <2>1, <2>2
  <2> QED
    BY Zenon, <1>6, <2>3, TermsRaise DEF RaftInv
<1>11. committed # <<>> => Prefix(committed, log[n])
  BY Zenon, <1>1, WinnerHas
<1>12. LogsInv' /\ LeadersInv' /\ CommittedInv'
  BY Zenon, <1>3, <1>9, <1>11, GrowsLogs, GrowsLeaders, GrowsCommitted DEF RaftInv
<1> QED
  BY Zenon, <1>3, <1>9, <1>10, <1>11, <1>12 DEF RaftInv, e, t

LEMMA ProposeRaft ==
    ASSUME Majorities, TypeInv, TypeInv', RaftInv, NEW n \in Nodes, NEW e \in Entry, e.term = term[n],
           n \in leaders, term' = term, leaders' = leaders, committed' = committed,
           log' = [log EXCEPT ![n] = Append(@, e)]
    PROVE  RaftInv'
<1>1. \A m \in Nodes : term[m] <= term'[m]
  BY NodeTypes
<1>2. leaders \subseteq Nodes
  BY Zenon, LeaderNodes
<1>3. \A k \in leaders \ {n} : term[k] # e.term
  BY Zenon DEF RaftInv, LeadersInv
<1>4. \A m \in Nodes : \A i \in 1..Len(log[m]) :
         log[m][i].term = e.term => i <= Len(log[n]) /\ log[n][i] = log[m][i]
  <2>1. \A m \in Nodes : \A i \in 1..Len(log[m]) :
           log[m][i].term = term[n] => i <= Len(log[n]) /\ log[n][i] = log[m][i]
    BY Zenon DEF RaftInv, LeadersInv
  <2> QED
    BY Zenon, <2>1
<1>5. GrowsBy(n, e)
  <2>1. term'[n] = e.term /\ n \in leaders' /\ leaders' \subseteq leaders \cup {n}
    BY Zenon
  <2>2. \A k \in leaders' \ {n} : term'[k] = term[k] /\ term[k] # e.term
    BY Zenon, <1>3
  <2> QED
    BY Zenon, <1>1, <1>4, <2>1, <2>2 DEF GrowsBy
<1>6. e.term \in Nat \ {0}
  <2>1. log[n] # <<>> /\ LastTerm(log[n]) = term[n] /\ Ordered(log[n], term[n])
    BY Zenon DEF RaftInv, LeadersInv, LogsInv
  <2>2. log[n] \in Seq(Entry) /\ term[n] \in Nat
    BY Zenon, NodeTypes
  <2>3. Len(log[n]) \in 1..Len(log[n]) /\ LastTerm(log[n]) = log[n][Len(log[n])].term
    BY Zenon, <2>1, <2>2, LastTermIs
  <2>4. log[n][Len(log[n])].term \in 1..term[n]
    BY Zenon, <2>1, <2>3 DEF Ordered
  <2> QED
    BY <2>1, <2>2, <2>3, <2>4
<1>7. committed # <<>> /\ e.term >= LastTerm(committed) => Prefix(committed, log[n])
  BY Zenon, LeaderHas
<1>8. TermsInv'
  BY Zenon DEF RaftInv, TermsInv, Reached
<1> QED
  BY Zenon, <1>5, <1>6, <1>7, <1>8, GrowsLogs, GrowsLeaders, GrowsCommitted DEF RaftInv

(* Leaders go, and nothing else.                                           *)
LEMMA ShrinkRaft ==
    ASSUME RaftInv, leaders' \subseteq leaders, term' = term, log' = log, committed' = committed
    PROVE  RaftInv'
<1>1. LogsInv' /\ TermsInv' /\ CommittedInv'
  BY Zenon DEF RaftInv, LogsInv, TermsInv, Reached, CommittedInv
<1>2. LeadersInv'
  BY Zenon DEF RaftInv, LeadersInv
<1> QED
  BY Zenon, <1>1, <1>2 DEF RaftInv

LEMMA ReplicateRaft ==
    ASSUME Majorities, TypeInv, TypeInv', RaftInv, NEW n \in Nodes, NEW m \in Nodes, Replicate(n, m)
    PROVE  RaftInv'
<1>1. /\ n \in leaders /\ m # n /\ term[m] <= term[n] /\ leaders' = leaders \ {m} /\ committed' = committed
      /\ term' = [term EXCEPT ![m] = term[n]] /\ log' = [log EXCEPT ![m] = log[n]]
  BY Zenon DEF Replicate
<1>2. /\ term'[m] = term[n] /\ \A k \in Nodes \ {m} : term'[k] = term[k]
      /\ log'[m] = log[n] /\ \A k \in Nodes \ {m} : log'[k] = log[k]
  BY Zenon, <1>1 DEF TypeInv
<1>3. leaders \subseteq Nodes
  BY Zenon, LeaderNodes
<1>4. LogsInv'
  <2>1. \A k \in Nodes : Ordered(log'[k], term'[k])
    BY Zenon, <1>2 DEF RaftInv, LogsInv
  <2>2. \A k, j \in Nodes : Match(log'[k], log'[j])
    BY Zenon, <1>2 DEF RaftInv, LogsInv
  <2> QED
    BY Zenon, <2>1, <2>2 DEF LogsInv
<1>5. LeadersInv'
  <2>1. \A k \in leaders' : k \in leaders /\ term'[k] = term[k] /\ log'[k] = log[k]
    BY Zenon, <1>1, <1>2, <1>3
  <2>2. ASSUME NEW k \in leaders', NEW j \in Nodes, NEW i \in 1..Len(log'[j]), log'[j][i].term = term'[k]
        PROVE  i <= Len(log'[k]) /\ log'[k][i] = log'[j][i]
    <3>1. PICK h \in Nodes : log'[j] = log[h]
      BY Zenon, <1>2
    <3>2. i \in 1..Len(log[h]) /\ log[h][i].term = term[k]
      BY Zenon, <2>1, <2>2, <3>1
    <3>3. i <= Len(log[k]) /\ log[k][i] = log[h][i]
      BY Zenon, <2>1, <3>2 DEF RaftInv, LeadersInv
    <3> QED
      BY Zenon, <2>1, <3>1, <3>3
  <2>3. \A k \in leaders' : log'[k] # <<>> /\ LastTerm(log'[k]) = term'[k]
    BY Zenon, <2>1 DEF RaftInv, LeadersInv
  <2>4. \A k, j \in leaders' : term'[k] = term'[j] => k = j
    BY Zenon, <2>1 DEF RaftInv, LeadersInv
  <2> QED
    BY Zenon, <2>2, <2>3, <2>4 DEF LeadersInv
<1>6. \A k \in Nodes : term[k] <= term'[k] /\ term[k] \in Nat
  BY <1>1, <1>2, NodeTypes
<1>7. TermsInv'
  <2>1. CASE term[n] = 0
    <3>1. term'[m] = term[m]
      BY <1>1, <1>2, <2>1, NodeTypes
    <3>2. \A k \in Nodes : term'[k] = term[k]
      BY Zenon, <1>2, <3>1
    <3> QED
      BY Zenon, <1>6, <3>2, TermsRaise DEF RaftInv
  <2>2. CASE term[n] # 0
    <3>1. term[n] > 0
      BY <1>6, <2>2
    <3>2. PICK Q \in SUBSET Nodes : Quorum(Q) /\ \A k \in Q : term[k] >= term[n]
      BY Zenon, <3>1 DEF RaftInv, TermsInv, Reached
    <3>3. \A k \in Q : term'[k] >= term'[m]
      <4> SUFFICES ASSUME NEW k \in Q PROVE term'[k] >= term'[m]
        BY Zenon
      <4>1. term'[k] = term[k] \/ term'[k] = term[n]
        BY Zenon, <1>2
      <4> QED
        BY Zenon, <1>2, <1>6, <3>2, <4>1
    <3>4. \A k \in Nodes : term'[k] = term[k] \/ k = m
      BY Zenon, <1>2
    <3>5. \A k \in Nodes : \/ term'[k] = term[k]
                           \/ \E M \in SUBSET Nodes : Quorum(M) /\ \A j \in M : term'[j] >= term'[k]
      BY Zenon, <3>2, <3>3, <3>4
    <3> QED
      BY Zenon, <1>6, <3>5, TermsRaise DEF RaftInv
  <2> QED
    BY Zenon, <2>1, <2>2
<1>8. CommittedInv'
  <2> SUFFICES ASSUME committed # <<>> PROVE CommittedInv'
    BY Zenon, <1>1 DEF CommittedInv
  <2>1. LastTerm(committed) \in Nat
    BY Zenon, LastTermIs DEF TypeInv
  <2>2. PICK Q \in SUBSET Nodes :
           Quorum(Q) /\ \A k \in Q : Prefix(committed, log[k]) /\ term[k] >= LastTerm(committed)
    BY Zenon DEF RaftInv, CommittedInv
  <2>3. ASSUME NEW k \in Q PROVE Prefix(committed, log'[k]) /\ term'[k] >= LastTerm(committed)
    <3>1. CASE k = m
      <4>1. term[n] >= LastTerm(committed)
        BY <1>1, <1>6, <2>1, <2>2, <3>1
      <4>2. Prefix(committed, log[n])
        BY Zenon, <1>1, <4>1, LeaderHas
      <4> QED
        BY Zenon, <1>2, <3>1, <4>1, <4>2
    <3>2. CASE k # m
      BY Zenon, <1>2, <2>2, <3>2
    <3> QED
      BY Zenon, <3>1, <3>2
  <2>4. ASSUME NEW k \in Nodes
        PROVE  /\ LastTerm(log'[k]) > LastTerm(committed) => Prefix(committed, log'[k])
               /\ LastTerm(log'[k]) = LastTerm(committed) =>
                     Prefix(committed, log'[k]) \/ Prefix(log'[k], committed)
    BY Zenon, <1>2 DEF RaftInv, CommittedInv
  <2> QED
    BY Zenon, <1>1, <2>2, <2>3, <2>4 DEF CommittedInv
<1> QED
  BY Zenon, <1>4, <1>5, <1>7, <1>8 DEF RaftInv

LEMMA LeadersStay == LeadersInv /\ term' = term /\ log' = log /\ leaders' = leaders => LeadersInv'
  BY SMT DEF LeadersInv

(* A leader commits its log: the terms of all are at most its own.         *)
LEMMA CommitRaft ==
    ASSUME Majorities, TypeInv, TypeInv', RaftInv, NEW n \in Nodes, Commit(n)
    PROVE  RaftInv' /\ Prefix(committed, log[n]) /\ committed' = log[n]
<1> DEFINE H == {m \in Nodes : /\ term[m] = term[n] /\ Len(log[m]) >= Len(log[n])
                               /\ log[m][Len(log[n])] = log[n][Len(log[n])]}
<1>1. /\ n \in leaders /\ Quorum(H) /\ committed' = log[n] /\ LastTerm(log[n]) = term[n]
      /\ term' = term /\ log' = log /\ leaders' = leaders
  BY Zenon DEF Commit
<1>2. log[n] \in Seq(Entry) /\ log[n] # <<>> /\ term[n] \in Nat
  BY Zenon, <1>1, NodeTypes DEF RaftInv, LeadersInv
<1>3. Len(log[n]) \in 1..Len(log[n]) /\ LastTerm(log[n]) = log[n][Len(log[n])].term
  BY Zenon, <1>2, LastTermIs
<1>4. H \in SUBSET Nodes /\ \A m \in H : term[m] <= term[n]
  BY <1>2
<1>5. ASSUME NEW m \in Nodes PROVE term[m] <= term[n]
  BY Zenon, <1>1, <1>2, <1>4, TopTerm DEF RaftInv
<1>6. Prefix(committed, log[n])
  <2>1. CASE committed = <<>>
    BY <1>2, <2>1 DEF Prefix
  <2>2. CASE committed # <<>>
    <3>1. PICK m \in H : term[m] >= LastTerm(committed)
      BY Zenon, <1>1, <1>4, <2>2, CommittedSomewhere DEF RaftInv
    <3>2. term[m] = term[n]
      BY Zenon
    <3> QED
      BY Zenon, <1>1, <2>2, <3>1, <3>2, LeaderHas
  <2> QED
    BY Zenon, <2>1, <2>2
<1>7. ASSUME NEW m \in H PROVE Prefix(log[n], log[m]) /\ term[m] >= LastTerm(log[n])
  <2>1. m \in Nodes /\ term[m] = term[n] /\ Len(log[n]) <= Len(log[m])
        /\ log[m][Len(log[n])] = log[n][Len(log[n])]
    BY Zenon, NodeTypes
  <2>2. log[m] \in Seq(Entry) /\ Match(log[n], log[m])
    BY Zenon, <2>1, NodeTypes DEF RaftInv, LogsInv
  <2>3. log[m][Len(log[n])].term = LastTerm(log[n])
    BY Zenon, <1>3, <2>1
  <2>4. Prefix(log[n], log[m])
    BY Zenon, <1>2, <2>1, <2>2, <2>3, MatchPrefix
  <2> QED
    BY <1>1, <1>2, <2>1, <2>4
<1> HIDE DEF H
<1>8. ASSUME NEW m \in Nodes
      PROVE  /\ ~(LastTerm(log[m]) > LastTerm(log[n]))
             /\ LastTerm(log[m]) = LastTerm(log[n]) => Prefix(log[m], log[n])
  <2>1. CASE log[m] = <<>>
    <3>1. LastTerm(log[m]) = 0 /\ Len(log[m]) = 0 /\ Prefix(log[m], log[n])
      BY <1>2, <2>1 DEF LastTerm, Prefix
    <3> QED
      BY <1>1, <1>2, <3>1
  <2>2. CASE log[m] # <<>>
    <3>1. log[m] \in Seq(Entry) /\ Ordered(log[m], term[m]) /\ Match(log[m], log[n]) /\ term[m] \in Nat
      BY Zenon, NodeTypes DEF RaftInv, LogsInv
    <3>2. Len(log[m]) \in 1..Len(log[m]) /\ LastTerm(log[m]) = log[m][Len(log[m])].term
      BY Zenon, <2>2, <3>1, LastTermIs
    <3>3. LastTerm(log[m]) <= term[m] /\ LastTerm(log[m]) \in Nat
      BY Zenon, <3>1, <3>2, OrderedLast
    <3>4. ~(LastTerm(log[m]) > LastTerm(log[n]))
      BY <1>1, <1>2, <1>5, <3>1, <3>3
    <3>5. ASSUME LastTerm(log[m]) = LastTerm(log[n]) PROVE Prefix(log[m], log[n])
      <4>1. Len(log[m]) <= Len(log[n]) /\ log[n][Len(log[m])] = log[m][Len(log[m])]
        BY Zenon, <1>1, <3>2, <3>5 DEF RaftInv, LeadersInv
      <4> QED
        BY Zenon, <1>2, <2>2, <3>1, <3>2, <4>1, MatchPrefix
    <3> QED
      BY Zenon, <3>4, <3>5
  <2> QED
    BY Zenon, <2>1, <2>2
<1>9. CommittedInv'
  <2>1. Quorum(H) /\ \A m \in H : Prefix(log[n], log[m]) /\ term[m] >= LastTerm(log[n])
    BY Zenon, <1>1, <1>7
  <2>2. \E Q \in SUBSET Nodes :
           Quorum(Q) /\ \A m \in Q : Prefix(log[n], log[m]) /\ term[m] >= LastTerm(log[n])
    BY Zenon, <1>4, <2>1
  <2>3. ASSUME NEW m \in Nodes
        PROVE  /\ LastTerm(log[m]) > LastTerm(log[n]) => Prefix(log[n], log[m])
               /\ LastTerm(log[m]) = LastTerm(log[n]) =>
                     Prefix(log[n], log[m]) \/ Prefix(log[m], log[n])
    BY Zenon, <1>8
  <2> QED
    BY Zenon, <1>1, <2>2, <2>3 DEF CommittedInv
<1>10. LogsInv'
  BY Zenon, <1>1 DEF RaftInv, LogsInv
<1>11. TermsInv'
  BY Zenon, <1>1 DEF RaftInv, TermsInv, Reached
<1>12. LeadersInv'
  <2>1. LeadersInv
    BY Zenon DEF RaftInv
  <2> QED
    BY Zenon, <1>1, <2>1, LeadersStay
<1> QED
  BY Zenon, <1>1, <1>6, <1>9, <1>10, <1>11, <1>12 DEF RaftInv

(* The committed log is one of the logs.                                   *)
LEMMA CommittedIs ==
    ASSUME Majorities, TypeInv, RaftInv, committed # <<>>
    PROVE  \E m \in Nodes : Prefix(committed, log[m])
<1>1. PICK Q \in SUBSET Nodes :
         Quorum(Q) /\ \A m \in Q : Prefix(committed, log[m]) /\ term[m] >= LastTerm(committed)
  BY Zenon DEF RaftInv, CommittedInv
<1>2. Q \cap Q # {}
  BY Zenon, <1>1 DEF Majorities
<1> QED
  BY Zenon, <1>1, <1>2

(* What a node that catches up takes for its log.                          *)
LEMMA CutIs ==
    ASSUME NEW l \in Seq(Entry), NEW i \in 1..Len(l)
    PROVE  /\ SubSeq(l, 1, i) \in Seq(Entry) /\ SubSeq(l, 1, i) # <<>> /\ Len(SubSeq(l, 1, i)) = i
           /\ LastTerm(SubSeq(l, 1, i)) = l[i].term /\ Prefix(SubSeq(l, 1, i), l)
<1>1. SubSeq(l, 1, i) \in Seq(Entry) /\ Len(SubSeq(l, 1, i)) = i /\ SubSeq(l, 1, i) # <<>>
  OBVIOUS
<1>2. \A j \in 1..i : SubSeq(l, 1, i)[j] = l[j]
  OBVIOUS
<1>3. LastTerm(SubSeq(l, 1, i)) = l[i].term
  BY <1>1, <1>2 DEF LastTerm
<1> QED
  BY <1>1, <1>2, <1>3 DEF Prefix

LEMMA OrderedCut ==
    ASSUME NEW l \in Seq(Entry), NEW t \in Nat, Ordered(l, t), l # <<>>, NEW u \in Nat,
           u >= LastTerm(l)
    PROVE  Ordered(l, u)
<1> SUFFICES ASSUME NEW i \in 1..Len(l) PROVE l[i].term \in 1..u /\ \A j \in 1..i : l[j].term <= l[i].term
  BY Zenon DEF Ordered
<1>1. l[i].term \in 1..t /\ \A j \in 1..i : l[j].term <= l[i].term
  BY Zenon DEF Ordered
<1>2. l[i].term <= LastTerm(l) /\ LastTerm(l) \in Nat
  BY Zenon, OrderedLast, LastTermIs
<1> QED
  BY <1>1, <1>2

LEMMA CatchUpRaft ==
    ASSUME Majorities, TypeInv, TypeInv', RaftInv, NEW n \in Nodes, n \notin leaders,
           NEW i \in 1..Len(committed),
           log' = [log EXCEPT ![n] = IF Len(@) >= i /\ @[i] = committed[i] THEN @
                                     ELSE SubSeq(committed, 1, i)],
           term' = [term EXCEPT ![n] = IF @ < committed[i].term THEN committed[i].term ELSE @],
           leaders' = leaders, committed' = committed
    PROVE  RaftInv'
<1> DEFINE p == SubSeq(committed, 1, i)
           same == Len(log[n]) >= i /\ log[n][i] = committed[i]
<1>1. /\ log'[n] = (IF same THEN log[n] ELSE p) /\ \A k \in Nodes \ {n} : log'[k] = log[k]
      /\ term'[n] = (IF term[n] < committed[i].term THEN committed[i].term ELSE term[n])
      /\ \A k \in Nodes \ {n} : term'[k] = term[k]
  BY Zenon DEF TypeInv
<1>2. committed \in Seq(Entry) /\ committed # <<>> /\ committed[i].term \in Nat /\ LastTerm(committed) \in Nat
  BY EntryType, LastTermIs DEF TypeInv
<1>3. p \in Seq(Entry) /\ p # <<>> /\ Len(p) = i /\ LastTerm(p) = committed[i].term /\ Prefix(p, committed)
  BY Zenon, <1>2, CutIs
<1>4. PICK q \in Nodes : Prefix(committed, log[q])
  BY Zenon, <1>2, CommittedIs
<1>5. log[q] \in Seq(Entry) /\ term[q] \in Nat /\ Ordered(log[q], term[q])
  BY Zenon, NodeTypes DEF RaftInv, LogsInv
<1>6. Prefix(p, log[q]) /\ Ordered(p, term[q]) /\ Ordered(committed, term[q])
  BY Zenon, <1>2, <1>3, <1>4, <1>5, PrefixTrans, PrefixOrdered
<1>7. committed[i].term <= LastTerm(committed)
  BY Zenon, <1>2, <1>5, <1>6, OrderedLast
<1>8. ASSUME NEW k \in Nodes PROVE term[k] <= term'[k] /\ term[k] \in Nat /\ term'[k] \in Nat
  <2>1. term[k] \in Nat
    BY Zenon, NodeTypes
  <2> QED
    BY <1>1, <1>2, <2>1
<1> HIDE DEF p, same
<1>9. LogsInv'
  <2>1. Ordered(p, term'[n])
    <3>1. term'[n] >= LastTerm(p)
      BY <1>1, <1>2, <1>3, <1>8
    <3> QED
      BY Zenon, <1>3, <1>5, <1>6, <1>8, <3>1, OrderedCut
  <2>2. ASSUME NEW k \in Nodes PROVE Ordered(log'[k], term'[k])
    <3>1. Ordered(log[k], term[k])
      BY Zenon DEF RaftInv, LogsInv
    <3>2. Ordered(log[k], term'[k])
      BY Zenon, <1>8, <3>1, OrderedGrows
    <3> QED
      BY Zenon, <1>1, <2>1, <3>2
  <2>3. ASSUME NEW k \in Nodes PROVE Match(p, log[k]) /\ Match(log[k], p)
    <3>1. Match(log[q], log[k]) /\ Match(log[k], log[q]) /\ log[k] \in Seq(Entry)
      BY Zenon, NodeTypes DEF RaftInv, LogsInv
    <3> QED
      BY Zenon, <1>3, <1>5, <1>6, <3>1, PrefixMatch
  <2>4. Match(p, p)
    BY Zenon DEF Match
  <2>5. ASSUME NEW k \in Nodes, NEW j \in Nodes PROVE Match(log'[k], log'[j])
    <3>1. log'[k] = log[k] \/ log'[k] = p
      BY Zenon, <1>1
    <3>2. log'[j] = log[j] \/ log'[j] = p
      BY Zenon, <1>1
    <3>3. Match(log[k], log[j])
      BY Zenon DEF RaftInv, LogsInv
    <3> QED
      BY Zenon, <2>3, <2>4, <3>1, <3>2, <3>3
  <2> QED
    BY Zenon, <2>2, <2>5 DEF LogsInv
<1>10. LeadersInv'
  <2>1. \A k \in leaders' : k \in leaders /\ term'[k] = term[k] /\ log'[k] = log[k]
    BY Zenon, <1>1, LeaderNodes
  <2>2. ASSUME NEW k \in leaders', NEW j \in Nodes, NEW x \in 1..Len(log'[j]), log'[j][x].term = term'[k]
        PROVE  x <= Len(log'[k]) /\ log'[k][x] = log'[j][x]
    <3>1. PICK h \in Nodes : x \in 1..Len(log[h]) /\ log'[j][x] = log[h][x]
      <4>1. CASE log'[j] = log[j]
        BY Zenon, <4>1
      <4>2. CASE log'[j] = p
        <5>1. x \in 1..Len(log[q]) /\ p[x] = log[q][x]
          BY <1>3, <1>5, <1>6, <4>2 DEF Prefix
        <5> QED
          BY Zenon, <4>2, <5>1
      <4> QED
        BY Zenon, <1>1, <4>1, <4>2
    <3>2. log[h][x].term = term[k]
      BY Zenon, <2>1, <2>2, <3>1
    <3>3. x <= Len(log[k]) /\ log[k][x] = log[h][x]
      BY Zenon, <2>1, <3>1, <3>2 DEF RaftInv, LeadersInv
    <3> QED
      BY Zenon, <2>1, <3>1, <3>3
  <2>3. \A k \in leaders' : log'[k] # <<>> /\ LastTerm(log'[k]) = term'[k]
    BY Zenon, <2>1 DEF RaftInv, LeadersInv
  <2>4. ASSUME NEW k \in leaders', NEW j \in leaders', term'[k] = term'[j] PROVE k = j
    <3>1. k \in leaders /\ j \in leaders /\ term[k] = term[j]
      BY Zenon, <2>1, <2>4
    <3> QED
      BY Zenon, <3>1 DEF RaftInv, LeadersInv
  <2> QED
    BY Zenon, <2>2, <2>3, <2>4 DEF LeadersInv
<1>11. PICK Q \in SUBSET Nodes :
          Quorum(Q) /\ \A k \in Q : Prefix(committed, log[k]) /\ term[k] >= LastTerm(committed)
  BY Zenon, <1>2 DEF RaftInv, CommittedInv
<1>12. ASSUME NEW k \in Q PROVE term'[k] >= LastTerm(committed)
  <2>1. term[k] >= LastTerm(committed) /\ term[k] <= term'[k] /\ term[k] \in Nat /\ term'[k] \in Nat
    BY Zenon, <1>8, <1>11
  <2> QED
    BY <1>2, <2>1
<1>13. TermsInv'
  <2>1. ASSUME term'[n] # term[n] PROVE \A k \in Q : term'[k] >= term'[n]
    <3>1. term'[n] = committed[i].term
      BY Zenon, <1>1, <2>1
    <3>2. ASSUME NEW k \in Q PROVE term'[k] >= term'[n]
      <4>1. term'[k] >= LastTerm(committed) /\ term'[k] \in Nat
        BY Zenon, <1>8, <1>12
      <4> QED
        BY <1>2, <1>7, <3>1, <4>1
    <3> QED
      BY Zenon, <3>2
  <2>2. \A k \in Nodes : \/ term'[k] = term[k]
                         \/ \E M \in SUBSET Nodes : Quorum(M) /\ \A j \in M : term'[j] >= term'[k]
    BY Zenon, <1>1, <1>11, <2>1
  <2> QED
    BY Zenon, <1>8, <2>2, TermsRaise DEF RaftInv
<1>14. CommittedInv'
  <2>1. ASSUME NEW k \in Q PROVE Prefix(committed, log'[k])
    <3>1. Prefix(committed, log[k])
      BY Zenon, <1>11
    <3>2. Len(log[k]) >= i /\ log[k][i] = committed[i]
      <4>1. log[k] \in Seq(Entry)
        BY Zenon, NodeTypes
      <4> QED
        BY <1>2, <3>1, <4>1 DEF Prefix
    <3> QED
      BY Zenon, <1>1, <3>1, <3>2 DEF same
  <2>2. ASSUME NEW k \in Nodes
        PROVE  /\ LastTerm(log'[k]) > LastTerm(committed) => Prefix(committed, log'[k])
               /\ LastTerm(log'[k]) = LastTerm(committed) =>
                     Prefix(committed, log'[k]) \/ Prefix(log'[k], committed)
    <3>1. CASE log'[k] = log[k]
      BY Zenon, <1>2, <3>1 DEF RaftInv, CommittedInv
    <3>2. CASE log'[k] = p
      <4>1. ~(LastTerm(p) > LastTerm(committed))
        BY <1>2, <1>3, <1>7
      <4> QED
        BY Zenon, <1>3, <3>2, <4>1
    <3> QED
      BY Zenon, <1>1, <3>1, <3>2
  <2> QED
    BY Zenon, <1>11, <1>12, <2>1, <2>2 DEF CommittedInv
<1> QED
  BY Zenon, <1>9, <1>10, <1>13, <1>14 DEF RaftInv

-----------------------------------------------------------------------------
(* The invariant of a node: its ledger is the chain of the committed log   *)
(* as far as applied, its counter is exact, and its queue continues its    *)
(* log.                                                                    *)

AppliedInv(n) ==
    LET a == ch[n].appliedIndex IN
    /\ ch[n].delivered <= a /\ a <= Len(committed) /\ LedgerIs(ledger[n], committed, a)
    /\ n \in leaders =>
          /\ a <= Len(log[n]) /\ \A i \in 1..a : log[n][i] = committed[i]
          /\ ~ch[n].leads => a < Len(log[n])

(* The blocks in the queue q follow the block tip, and bc is the last.     *)
Linked(tip, q, bc) ==
    /\ \A j \in 1..Len(q) :
          q[j].num = tip.num + j /\ q[j].prev = IF j = 1 THEN tip.id ELSE q[j - 1].id
    /\ bc.num = tip.num + Len(q)
    /\ bc.id = IF q = <<>> THEN tip.id ELSE q[Len(q)].id

RunInv(c, tip) ==
    /\ ~c.leads => c.propC = <<>> /\ c.proposer = "none" /\ ~c.pending
    /\ c.leads /\ c.justElected =>
          /\ c.propC = <<>> /\ c.proposer = "runs" /\ c.blockInflight = 0
          /\ ~c.pending /\ ~c.accepting
    /\ c.leads /\ ~c.justElected =>
          /\ c.blockInflight = c.bc.num - tip.num
          /\ c.configInflight => ~c.accepting /\ ~c.pending

QueueInv(c, l) ==
    c.leads /\ ~c.justElected =>
        /\ \E j \in 0..Len(l) :
              /\ Tip(l, Len(l), j) /\ BlockOf(l, j).num <= c.bc.num
              /\ c.proposer = "runs" => Linked(BlockOf(l, j), c.propC, c.bc)
        /\ \A i \in (c.appliedIndex + 1)..Len(l) : l[i].block.config =>
              c.configInflight /\ i = Len(l) /\ c.propC = <<>>
        /\ \A j \in 1..Len(c.propC) : c.propC[j].config => c.configInflight /\ j = Len(c.propC)

NodeInv(n) ==
    AppliedInv(n) /\ RunInv(ch[n], lastBlock(n)) /\ (n \in leaders => QueueInv(ch[n], log[n]))

ChainsInv == \A m \in Nodes : Chained(log[m])

RInv ==
    /\ TypeInv /\ RaftInv /\ ChainsInv
    /\ \A n \in Electable : NodeInv(n)
    /\ "gap" \notin panics

LEMMA RunTypes ==
    ASSUME TypeInv, NEW n \in Electable
    PROVE  /\ ch[n] \in Run /\ ledger[n] \in Seq(Written) /\ n \in Nodes
           /\ ch[n].appliedIndex \in Nat /\ ch[n].delivered \in Nat /\ ch[n].propC \in Seq(Block)
           /\ ch[n].bc \in Block /\ ch[n].bc.num \in Nat /\ ch[n].blockInflight \in Nat
<1>1. ch[n] \in Run /\ ledger[n] \in Seq(Written) /\ n \in Nodes
  BY Zenon, RaftAssumption DEF TypeInv
<1>2. /\ ch[n].appliedIndex \in Nat /\ ch[n].delivered \in Nat /\ ch[n].propC \in Seq(Block)
      /\ ch[n].bc \in Block /\ ch[n].blockInflight \in Nat
  BY Zenon, <1>1 DEF Run
<1> QED
  BY Zenon, <1>1, <1>2 DEF Block

(* A step that leaves a node alone, except for the place of a leader.      *)
LEMMA NodeStays ==
    ASSUME TypeInv, TypeInv', NEW n \in Electable, NodeInv(n), ch'[n] = ch[n], ledger'[n] = ledger[n],
           Prefix(committed, committed'), n \in leaders' => n \in leaders /\ log'[n] = log[n]
    PROVE  NodeInv(n)'
<1> DEFINE a == ch[n].appliedIndex
<1>1. a \in Nat /\ committed \in Seq(Entry) /\ committed' \in Seq(Entry) /\ Len(ledger[n]) \in Nat
  BY RunTypes DEF TypeInv
<1>2. a <= Len(committed) /\ ch[n].delivered <= a /\ LedgerIs(ledger[n], committed, a)
  BY Zenon DEF NodeInv, AppliedInv
<1>3. a <= Len(committed') /\ \A i \in 1..a : committed'[i] = committed[i]
  BY <1>1, <1>2 DEF Prefix
<1> HIDE DEF a
<1>4. LedgerIs(ledger[n], committed', a)
  BY Zenon, <1>1, <1>2, <1>3, LedgerSame
<1>5. ASSUME n \in leaders'
      PROVE  /\ a <= Len(log'[n]) /\ (\A i \in 1..a : log'[n][i] = committed'[i])
             /\ ~ch[n].leads => a < Len(log'[n])
             /\ QueueInv(ch[n], log'[n])
  <2>1. n \in leaders /\ log'[n] = log[n]
    BY Zenon, <1>5
  <2>2. /\ a <= Len(log[n]) /\ (\A i \in 1..a : log[n][i] = committed[i])
        /\ ~ch[n].leads => a < Len(log[n])
        /\ QueueInv(ch[n], log[n])
    BY Zenon, <2>1 DEF NodeInv, AppliedInv, a
  <2>3. \A i \in 1..a : log[n][i] = committed'[i]
    BY Zenon, <1>3, <2>2
  <2> QED
    BY Zenon, <2>1, <2>2, <2>3
<1>6. AppliedInv(n)'
  BY Zenon, <1>2, <1>3, <1>4, <1>5 DEF AppliedInv, a
<1>7. RunInv(ch[n], lastBlock(n))' /\ (n \in leaders' => QueueInv(ch'[n], log'[n]))
  BY Zenon, <1>5 DEF NodeInv, lastBlock
<1> QED
  BY Zenon, <1>6, <1>7 DEF NodeInv

LEMMA CommittedChained ==
    ASSUME Majorities, TypeInv, RaftInv, ChainsInv PROVE Chained(committed) /\ committed \in Seq(Entry)
<1>1. committed \in Seq(Entry)
  BY Zenon DEF TypeInv
<1>2. CASE committed = <<>>
  BY <1>1, <1>2 DEF Chained
<1>3. CASE committed # <<>>
  <2>1. PICK m \in Nodes : Prefix(committed, log[m])
    BY Zenon, <1>3, CommittedIs
  <2>2. Chained(log[m]) /\ log[m] \in Seq(Entry)
    BY Zenon, NodeTypes DEF ChainsInv
  <2> QED
    BY Zenon, <1>1, <2>1, <2>2, ChainedPrefix
<1> QED
  BY Zenon, <1>1, <1>2, <1>3

LEMMA PrefixSelf == ASSUME NEW l \in Seq(Entry) PROVE Prefix(l, l)
  BY DEF Prefix

-----------------------------------------------------------------------------
(* The steps of raft.                                                      *)

(* The nodes, in a step that changes neither chains nor ledgers.           *)
LEMMA NodesStay ==
    ASSUME RInv, TypeInv', ch' = ch, ledger' = ledger, Prefix(committed, committed'), panics' = panics,
           NEW M, \A n \in Electable \ M : n \in leaders' => n \in leaders /\ log'[n] = log[n]
    PROVE  (\A n \in Electable \ M : NodeInv(n)') /\ "gap" \notin panics'
<1>1. TypeInv /\ (\A n \in Electable : NodeInv(n)) /\ "gap" \notin panics
  BY Zenon DEF RInv
<1>2. \A n \in Electable \ M : NodeInv(n)'
  BY Zenon, <1>1, NodeStays
<1> QED
  BY Zenon, <1>1, <1>2

LEMMA ElectKeeps ==
    ASSUME Majorities, RInv, NEW n \in Electable, NEW Q \in SUBSET Nodes, Elect(n, Q) PROVE RInv'
<1> DEFINE e == NoOp(term[n] + 1)
<1>1. TypeInv /\ RaftInv /\ ChainsInv /\ NodeInv(n) /\ n \in Nodes
  BY Zenon, RunTypes DEF RInv
<1>2. /\ n \notin leaders /\ n \in Q /\ (\A m \in Q \cap Electable : ~ch[m].leads)
      /\ term' = [m \in Nodes |-> IF m \in Q THEN term[n] + 1 ELSE term[m]]
      /\ log' = [log EXCEPT ![n] = Append(@, e)] /\ leaders' = (leaders \ Q) \cup {n}
      /\ committed' = committed /\ ch' = ch /\ ledger' = ledger /\ panics' = panics /\ made' = made
  BY Zenon DEF Elect
<1>3. term[n] \in Nat /\ log[n] \in Seq(Entry) /\ committed \in Seq(Entry)
  BY Zenon, <1>1, NodeTypes DEF TypeInv
<1>4. e \in Entry /\ e.block = None
  BY <1>3, NoneType DEF NoOp, Entry
<1> HIDE DEF e
<1>5. TypeInv'
  <2>1. term' \in [Nodes -> Nat]
    BY <1>1, <1>2, <1>3 DEF TypeInv
  <2>2. log' \in [Nodes -> Seq(Entry)]
    BY <1>1, <1>2, <1>4 DEF TypeInv
  <2> QED
    BY Zenon, <1>1, <1>2, <2>1, <2>2 DEF TypeInv
<1>6. RaftInv' /\ GrowsBy(n, e) /\ (committed # <<>> => Prefix(committed, log[n]))
  BY Zenon, <1>1, <1>5, ElectRaft DEF e
<1>7. log'[n] = Append(log[n], e) /\ \A m \in Nodes \ {n} : log'[m] = log[m]
  BY Zenon, <1>1, <1>4, <1>6, GrownLogs
<1>8. ChainsInv'
  <2>1. Chained(log'[n])
    BY Zenon, <1>1, <1>3, <1>4, <1>7, ChainedAppend DEF ChainsInv
  <2> QED
    BY Zenon, <1>1, <1>7, <2>1 DEF ChainsInv
<1>9. (\A k \in Electable \ {n} : NodeInv(k)') /\ "gap" \notin panics'
  <2>1. \A k \in Electable \ {n} : k \in leaders' => k \in leaders /\ log'[k] = log[k]
    BY Zenon, <1>2, <1>7, RaftAssumption
  <2> QED
    BY Zenon, <1>2, <1>3, <1>5, <2>1, NodesStay, PrefixSelf
<1>10. NodeInv(n)'
  <2> DEFINE a == ch[n].appliedIndex
  <2>1. ~ch[n].leads /\ a \in Nat /\ a <= Len(committed) /\ Len(log[n]) \in Nat
    BY <1>1, <1>2, <1>3, RunTypes DEF NodeInv, AppliedInv
  <2>2. a <= Len(log[n]) /\ \A i \in 1..a : log[n][i] = committed[i]
    <3>1. CASE committed = <<>>
      <4>1. a = 0
        BY <2>1, <3>1
      <4> QED
        BY <2>1, <4>1
    <3>2. CASE committed # <<>>
      BY <1>3, <1>6, <2>1, <3>2 DEF Prefix
    <3> QED
      BY Zenon, <3>1, <3>2
  <2>3. a < Len(log'[n]) /\ a <= Len(log'[n]) /\ \A i \in 1..a : log'[n][i] = committed[i]
    <3>1. Len(log'[n]) = Len(log[n]) + 1 /\ \A i \in 1..Len(log[n]) : log'[n][i] = log[n][i]
      BY <1>3, <1>4, <1>7, AppendIs
    <3> QED
      BY <2>1, <2>2, <3>1
  <2> HIDE DEF a
  <2>4. AppliedInv(n)'
    BY Zenon, <1>1, <1>2, <2>3 DEF NodeInv, AppliedInv, a
  <2>5. RunInv(ch'[n], lastBlock(n)') /\ QueueInv(ch'[n], log'[n])
    BY Zenon, <1>1, <1>2, <2>1 DEF NodeInv, QueueInv, lastBlock
  <2> QED
    BY Zenon, <2>4, <2>5 DEF NodeInv
<1> QED
  BY Zenon, <1>5, <1>6, <1>8, <1>9, <1>10 DEF RInv

LEMMA ReplicateKeeps ==
    ASSUME Majorities, RInv, NEW n \in Electable, NEW m \in Nodes, Replicate(n, m) PROVE RInv'
<1>1. TypeInv /\ RaftInv /\ ChainsInv /\ n \in Nodes
  BY Zenon, RunTypes DEF RInv
<1>2. /\ term' = [term EXCEPT ![m] = term[n]] /\ log' = [log EXCEPT ![m] = log[n]]
      /\ leaders' = leaders \ {m} /\ committed' = committed
      /\ ch' = ch /\ ledger' = ledger /\ panics' = panics /\ made' = made
  BY Zenon DEF Replicate, boundVars
<1>3. TypeInv'
  <2>1. term' \in [Nodes -> Nat] /\ log' \in [Nodes -> Seq(Entry)]
    BY Zenon, <1>1, <1>2 DEF TypeInv
  <2> QED
    BY Zenon, <1>1, <1>2, <2>1 DEF TypeInv
<1>4. RaftInv'
  BY Zenon, <1>1, <1>3, ReplicateRaft
<1>5. log'[m] = log[n] /\ \A k \in Nodes \ {m} : log'[k] = log[k]
  BY Zenon, <1>1, <1>2 DEF TypeInv
<1>6. ChainsInv'
  BY Zenon, <1>1, <1>5 DEF ChainsInv
<1>7. committed \in Seq(Entry)
  BY Zenon, <1>1 DEF TypeInv
<1>8. \A k \in Electable \ {} : k \in leaders' => k \in leaders /\ log'[k] = log[k]
  BY Zenon, <1>2, <1>5, RaftAssumption
<1>9. (\A k \in Electable \ {} : NodeInv(k)') /\ "gap" \notin panics'
  BY Zenon, <1>2, <1>3, <1>7, <1>8, NodesStay, PrefixSelf
<1> QED
  BY Zenon, <1>3, <1>4, <1>6, <1>9 DEF RInv

LEMMA CommitKeeps ==
    ASSUME Majorities, RInv, NEW n \in Electable, Commit(n) PROVE RInv'
<1>1. TypeInv /\ RaftInv /\ ChainsInv /\ n \in Nodes
  BY Zenon, RunTypes DEF RInv
<1>2. /\ term' = term /\ log' = log /\ leaders' = leaders /\ committed' = log[n]
      /\ ch' = ch /\ ledger' = ledger /\ panics' = panics /\ made' = made
  BY Zenon DEF Commit, boundVars
<1>3. TypeInv'
  BY Zenon, <1>1, <1>2 DEF TypeInv
<1>4. RaftInv' /\ Prefix(committed, committed')
  BY Zenon, <1>1, <1>2, <1>3, CommitRaft
<1>5. ChainsInv'
  BY Zenon, <1>1, <1>2 DEF ChainsInv
<1>6. \A k \in Electable \ {} : k \in leaders' => k \in leaders /\ log'[k] = log[k]
  BY Zenon, <1>2
<1>7. (\A k \in Electable \ {} : NodeInv(k)') /\ "gap" \notin panics'
  BY Zenon, <1>2, <1>3, <1>4, <1>6, NodesStay
<1> QED
  BY Zenon, <1>3, <1>4, <1>5, <1>7 DEF RInv

(* StepDown, TransferEnds, Abdicate.                                       *)
LEMMA LeaderKeeps ==
    ASSUME RInv, leaders' \subseteq leaders, term' = term, log' = log, committed' = committed,
           ch' = ch, ledger' = ledger, panics' = panics, made' = made
    PROVE  RInv'
<1>1. TypeInv /\ RaftInv /\ ChainsInv
  BY Zenon DEF RInv
<1>2. TypeInv' /\ committed \in Seq(Entry)
  BY Zenon, <1>1 DEF TypeInv
<1>3. RaftInv' /\ ChainsInv'
  BY Zenon, <1>1, ShrinkRaft DEF ChainsInv
<1>4. \A k \in Electable \ {} : k \in leaders' => k \in leaders /\ log'[k] = log[k]
  BY Zenon
<1>5. (\A k \in Electable \ {} : NodeInv(k)') /\ "gap" \notin panics'
  BY Zenon, <1>2, <1>4, NodesStay, PrefixSelf
<1> QED
  BY Zenon, <1>2, <1>3, <1>5 DEF RInv

-----------------------------------------------------------------------------
(* The steps of a chain, which leave the other nodes alone.                *)

LEMMA ChainSet ==
    ASSUME TypeInv, NEW n \in Electable, NEW d \in Run, ch' = [ch EXCEPT ![n] = d]
    PROVE  /\ ch' \in [Electable -> Run] /\ ch'[n] = d
           /\ \A k \in Electable \ {n} : ch'[k] = ch[k]
<1>1. ch \in [Electable -> Run]
  BY Zenon DEF TypeInv
<1> QED
  BY Zenon, <1>1

LEMMA NodeMoves ==
    ASSUME RInv, TypeInv', RaftInv', ChainsInv', NEW n \in Electable, committed' = committed,
           \A k \in Electable \ {n} : ch'[k] = ch[k] /\ ledger'[k] = ledger[k],
           \A k \in Electable \ {n} : k \in leaders' => k \in leaders /\ log'[k] = log[k],
           NodeInv(n)', "gap" \notin panics'
    PROVE  RInv'
<1>1. TypeInv /\ (\A k \in Electable : NodeInv(k)) /\ committed \in Seq(Entry)
  BY Zenon DEF RInv, TypeInv
<1>2. \A k \in Electable \ {n} : NodeInv(k)'
  BY Zenon, <1>1, NodeStays, PrefixSelf
<1> QED
  BY Zenon, <1>2 DEF RInv

LEMMA NewChainIs ==
    ASSUME NEW i \in Nat
    PROVE  /\ NewChain(i) \in Run /\ ~NewChain(i).leads /\ NewChain(i).propC = <<>>
           /\ NewChain(i).proposer = "none" /\ ~NewChain(i).pending
           /\ NewChain(i).delivered = 0 /\ NewChain(i).appliedIndex = i
<1>1. None \in Block /\ <<>> \in Seq(Block)
  BY NoneType
<1> HIDE DEF None
<1> QED
  BY Zenon, <1>1 DEF NewChain, Run

(* What a process finds on disk is a ledger to go on from.                 *)
LEMMA OnDiskIs ==
    ASSUME Majorities, RInv, NEW n \in Electable, NEW g \in OnDisk(n)
    PROVE  LET z == g[Len(g)].index
           IN  /\ g \in Seq(Written) /\ z \in Nat /\ z <= Len(committed) /\ 0 <= z
               /\ LedgerIs(g, committed, z)
<1> DEFINE a == ch[n].appliedIndex
           old == ledger[n]
           z == g[Len(g)].index
<1>1. TypeInv /\ RaftInv /\ ChainsInv /\ NodeInv(n)
  BY Zenon DEF RInv
<1>2. Chained(committed) /\ committed \in Seq(Entry)
  BY Zenon, <1>1, CommittedChained
<1>3. old \in Seq(Written) /\ LedgerIs(old, committed, a) /\ a \in 0..Len(committed)
  BY <1>1, <1>2, RunTypes DEF NodeInv, AppliedInv
<1>4. g = old \/ (Len(old) > 1 /\ g = SubSeq(old, 1, Len(old) - 1))
  BY Zenon DEF OnDisk
<1> HIDE DEF a, old
<1>5. g \in Seq(Written) /\ z \in 0..a /\ LedgerIs(g, committed, z)
  BY Zenon, <1>2, <1>3, <1>4, LedgerRestarts, LedgerLoses
<1>6. z \in Nat /\ z <= Len(committed) /\ 0 <= z
  BY <1>2, <1>3, <1>5
<1> QED
  BY Zenon, <1>5, <1>6

LEMMA RestartKeeps ==
    ASSUME Majorities, RInv, NEW n \in Electable, Restart(n), made' \in Nat,
           "gap" \notin panics'
    PROVE  RInv'
<1>1. PICK g \in OnDisk(n) :
         /\ ledger' = [ledger EXCEPT ![n] = g] /\ ch' = [ch EXCEPT ![n] = NewChain(g[Len(g)].index)]
         /\ leaders' = leaders \ {n} /\ term' = term /\ log' = log /\ committed' = committed
  BY Zenon DEF Restart
<1> DEFINE z == g[Len(g)].index
<1>2. /\ ch' = [ch EXCEPT ![n] = NewChain(z)] /\ leaders' = leaders \ {n}
      /\ term' = term /\ log' = log /\ committed' = committed
      /\ ledger' = [ledger EXCEPT ![n] = g]
  BY Zenon, <1>1
<1>3. TypeInv /\ RaftInv /\ ChainsInv
  BY Zenon DEF RInv
<1>4. /\ g \in Seq(Written) /\ LedgerIs(g, committed, z)
      /\ z \in Nat /\ z <= Len(committed) /\ 0 <= z
  BY Zenon, OnDiskIs
<1>5. ledger \in [Electable -> Seq(Written)]
  BY Zenon, <1>3 DEF TypeInv
<1>6. /\ ledger' \in [Electable -> Seq(Written)] /\ ledger'[n] = g
      /\ \A k \in Electable \ {n} : ledger'[k] = ledger[k]
  BY Zenon, <1>2, <1>4, <1>5
<1> HIDE DEF z
<1>7. /\ NewChain(z) \in Run /\ ~NewChain(z).leads /\ NewChain(z).propC = <<>>
      /\ NewChain(z).proposer = "none" /\ ~NewChain(z).pending
      /\ NewChain(z).delivered = 0 /\ NewChain(z).appliedIndex = z
  BY Zenon, <1>4, NewChainIs
<1>8. /\ ch' \in [Electable -> Run] /\ ch'[n] = NewChain(z)
      /\ \A k \in Electable \ {n} : ch'[k] = ch[k]
  BY Zenon, <1>2, <1>3, <1>7, ChainSet
<1>9. TypeInv'
  BY Zenon, <1>2, <1>3, <1>6, <1>8 DEF TypeInv
<1>10. RaftInv' /\ ChainsInv'
  BY Zenon, <1>2, <1>3, ShrinkRaft DEF ChainsInv
<1>11. n \notin leaders'
  BY Zenon, <1>2
<1>12. AppliedInv(n)'
  BY Zenon, <1>2, <1>4, <1>6, <1>7, <1>8, <1>11 DEF AppliedInv
<1>13. RunInv(ch'[n], lastBlock(n)')
  BY Zenon, <1>7, <1>8 DEF RunInv
<1>14. NodeInv(n)'
  BY Zenon, <1>11, <1>12, <1>13 DEF NodeInv
<1> QED
  BY Zenon, <1>2, <1>6, <1>8, <1>9, <1>10, <1>14, NodeMoves

-----------------------------------------------------------------------------
(* A soft state.                                                           *)

LEMMA BecomeLeaderIs ==
    ASSUME NEW c \in Run
    PROVE  LET d == becomeLeader(c) IN
           /\ d \in Run /\ d.leads /\ d.justElected /\ d.blockInflight = 0 /\ ~d.accepting
           /\ d.propC = <<>> /\ d.proposer = "runs" /\ d.pending = c.pending
           /\ d.delivered = c.delivered /\ d.appliedIndex = c.appliedIndex
<1>1. <<>> \in Seq(Block)
  OBVIOUS
<1> QED
  BY Zenon, <1>1 DEF becomeLeader, Run

LEMMA BecomeFollowerIs ==
    ASSUME NEW c \in Run
    PROVE  LET d == becomeFollower(c) IN
           /\ d \in Run /\ ~d.leads /\ d.propC = <<>> /\ d.proposer = "none" /\ ~d.pending
           /\ d.delivered = c.delivered /\ d.appliedIndex = c.appliedIndex
<1>1. <<>> \in Seq(Block) /\ None \in Block
  BY NoneType
<1> HIDE DEF None
<1> QED
  BY Zenon, <1>1 DEF becomeFollower, Run

LEMMA BaseIs ==
    ASSUME NEW tip \in Block
    PROVE  LET b == [tip EXCEPT !.prev = 0, !.config = FALSE] IN
           b \in Block /\ b.num = tip.num /\ b.id = tip.id
  BY Zenon DEF Block

(* What the end of an apply may change.                                    *)
Ended(c, x, tip, d) ==
    /\ d \in Run /\ d.leads = c.leads /\ d.propC = c.propC /\ d.proposer = c.proposer
    /\ d.pending = c.pending /\ d.delivered = c.delivered /\ d.appliedIndex = c.appliedIndex
    /\ d.configInflight = c.configInflight /\ d.blockInflight = c.blockInflight
    /\ c.justElected /\ (x > c.appliedIndex \/ c.configInflight) => d = c
    /\ c.justElected /\ ~(x > c.appliedIndex \/ c.configInflight) =>
          ~d.justElected /\ d.bc.num = tip.num /\ d.bc.id = tip.id
    /\ ~c.justElected =>
          ~d.justElected /\ d.bc = c.bc /\ (c.configInflight => ~d.accepting)

LEMMA AfterApplyIs ==
    ASSUME NEW c \in Run, NEW x \in Nat, NEW tip \in Block
    PROVE  Ended(c, x, tip, AfterApply(c, x, tip))
<1> DEFINE b == [tip EXCEPT !.prev = 0, !.config = FALSE]
<1>1. b \in Block /\ b.num = tip.num /\ b.id = tip.id
  BY Zenon, BaseIs
<1> HIDE DEF b
<1>2. CASE c.justElected /\ (x > c.appliedIndex \/ c.configInflight)
  <2>1. AfterApply(c, x, tip) = c
    BY Zenon, <1>2 DEF AfterApply
  <2> QED
    BY Zenon, <1>2, <2>1 DEF Ended
<1>3. CASE c.justElected /\ ~(x > c.appliedIndex \/ c.configInflight)
  <2>1. AfterApply(c, x, tip) = [c EXCEPT !.bc = b, !.accepting = TRUE, !.justElected = FALSE]
    BY Zenon, <1>3 DEF AfterApply, b
  <2> QED
    BY Zenon, <1>1, <1>3, <2>1 DEF Run, Ended
<1>4. CASE ~c.justElected /\ c.configInflight
  <2>1. AfterApply(c, x, tip) = [c EXCEPT !.accepting = FALSE]
    BY Zenon, <1>4 DEF AfterApply
  <2> QED
    BY Zenon, <1>4, <2>1 DEF Run, Ended
<1>5. CASE ~c.justElected /\ ~c.configInflight
  <2>1. \/ AfterApply(c, x, tip) = [c EXCEPT !.accepting = TRUE]
        \/ AfterApply(c, x, tip) = c
    BY Zenon, <1>5 DEF AfterApply
  <2>2. CASE AfterApply(c, x, tip) = [c EXCEPT !.accepting = TRUE]
    BY Zenon, <1>5, <2>2 DEF Run, Ended
  <2>3. CASE AfterApply(c, x, tip) = c
    BY Zenon, <1>5, <2>3 DEF Ended
  <2> QED
    BY Zenon, <2>1, <2>2, <2>3
<1> QED
  BY Zenon, <1>2, <1>3, <1>4, <1>5

LEMMA LastBlockType ==
    ASSUME RInv, NEW n \in Electable
    PROVE  /\ lastBlock(n) \in Block /\ lastBlock(n).num \in Nat
           /\ Len(ledger[n]) \in 1..Len(ledger[n])
<1>1. ledger[n] \in Seq(Written) /\ Len(ledger[n]) >= 1
  BY Zenon, RunTypes DEF RInv, NodeInv, AppliedInv, LedgerIs
<1>2. Len(ledger[n]) \in 1..Len(ledger[n])
  BY <1>1
<1> QED
  BY Zenon, <1>1, <1>2, WrittenType DEF lastBlock

LEMMA ApplySoftKeeps ==
    ASSUME Majorities, RInv, NEW n \in Electable, ApplySoft(n) PROVE RInv'
<1> DEFINE c == ch[n]
           d == IF n \in leaders THEN becomeLeader(c) ELSE becomeFollower(c)
           x == Len(log[n])
           tip == lastBlock(n)
           f == AfterApply(d, x, tip)
<1>1. /\ c.leads # (n \in leaders) /\ ch' = [ch EXCEPT ![n] = f]
      /\ term' = term /\ log' = log /\ leaders' = leaders /\ committed' = committed
      /\ ledger' = ledger /\ panics' = panics /\ made' = made
  BY Zenon DEF ApplySoft, Informed, raftVars, boundVars
<1>2. TypeInv /\ RaftInv /\ ChainsInv /\ AppliedInv(n) /\ RunInv(c, tip) /\ "gap" \notin panics
  BY Zenon DEF RInv, NodeInv
<1>3. c \in Run /\ x \in Nat /\ tip \in Block /\ c.leads \in BOOLEAN
  <2>1. c \in Run /\ x \in Nat /\ tip \in Block
    BY Zenon, <1>2, RunTypes, NodeTypes, LastBlockType
  <2> QED
    BY Zenon, <2>1 DEF Run
<1> HIDE DEF c, x, tip
<1>4. d \in Run /\ d.delivered = c.delivered /\ d.appliedIndex = c.appliedIndex
  BY Zenon, <1>3, BecomeLeaderIs, BecomeFollowerIs
<1> HIDE DEF d
<1>5. /\ f \in Run /\ f.leads = d.leads /\ f.propC = d.propC /\ f.proposer = d.proposer
      /\ f.pending = d.pending /\ f.delivered = d.delivered /\ f.appliedIndex = d.appliedIndex
      /\ d.justElected /\ x > d.appliedIndex => f = d
  <2>1. Ended(d, x, tip, f)
    BY Zenon, <1>3, <1>4, AfterApplyIs
  <2> QED
    BY Zenon, <2>1 DEF Ended
<1> HIDE DEF f
<1>6. /\ ch' \in [Electable -> Run] /\ ch'[n] = f /\ \A k \in Electable \ {n} : ch'[k] = ch[k]
  BY Zenon, <1>1, <1>2, <1>5, ChainSet
<1>7. TypeInv' /\ RaftInv' /\ ChainsInv'
  BY Zenon, <1>1, <1>2, <1>6, ShrinkRaft DEF TypeInv, ChainsInv
<1>8. CASE n \in leaders
  <2>1. ~c.leads /\ d = becomeLeader(c)
    BY Zenon, <1>1, <1>3, <1>8 DEF d
  <2>2. /\ d.leads /\ d.justElected /\ d.blockInflight = 0 /\ ~d.accepting
        /\ d.propC = <<>> /\ d.proposer = "runs" /\ d.pending = c.pending
    BY Zenon, <1>3, <2>1, BecomeLeaderIs
  <2>3. x > d.appliedIndex
    <3>1. c.appliedIndex < x /\ c.appliedIndex \in Nat
      BY Zenon, <1>2, <1>8, <2>1, RunTypes DEF AppliedInv, c, x
    <3> QED
      BY Zenon, <1>3, <1>4, <3>1
  <2>4. f = d /\ ~c.pending
    BY Zenon, <1>2, <1>5, <2>1, <2>2, <2>3 DEF RunInv
  <2>5. AppliedInv(n)'
    BY Zenon, <1>1, <1>2, <1>4, <1>6, <2>2, <2>4 DEF AppliedInv, c
  <2>6. RunInv(f, lastBlock(n)') /\ QueueInv(f, log'[n])
    BY Zenon, <2>2, <2>4 DEF RunInv, QueueInv
  <2> QED
    BY Zenon, <1>1, <1>2, <1>6, <1>7, <2>5, <2>6, NodeMoves DEF NodeInv
<1>9. CASE n \notin leaders
  <2>1. ~f.leads /\ f.propC = <<>> /\ f.proposer = "none" /\ ~f.pending
    BY Zenon, <1>3, <1>5, <1>9, BecomeFollowerIs DEF d
  <2>2. AppliedInv(n)'
    BY Zenon, <1>1, <1>2, <1>4, <1>5, <1>6, <1>9 DEF AppliedInv, c
  <2>3. RunInv(f, lastBlock(n)')
    BY Zenon, <2>1 DEF RunInv
  <2> QED
    BY Zenon, <1>1, <1>2, <1>6, <1>7, <1>9, <2>2, <2>3, NodeMoves DEF NodeInv
<1> QED
  BY Zenon, <1>8, <1>9

-----------------------------------------------------------------------------
(* A committed entry.                                                      *)

LEMMA WriteBlockIs ==
    ASSUME NEW c \in Run, NEW b \in Block
    PROVE  LET d == writeBlock(c, b) IN
           /\ d \in Run /\ d.leads = c.leads /\ d.justElected = c.justElected
           /\ d.accepting = c.accepting /\ d.pending = c.pending /\ d.bc = c.bc
           /\ d.propC = c.propC /\ d.proposer = c.proposer
           /\ d.delivered = c.delivered /\ d.appliedIndex = c.appliedIndex
           /\ d.configInflight = (c.configInflight /\ ~b.config)
           /\ d.blockInflight = IF c.blockInflight > 0 THEN c.blockInflight - 1 ELSE 0
<1> DEFINE y == IF c.blockInflight > 0 THEN c.blockInflight - 1 ELSE 0
           z == c.configInflight /\ ~b.config
<1>1. c.blockInflight \in Nat /\ c.configInflight \in BOOLEAN
  BY Zenon DEF Run
<1>2. y \in Nat
  BY <1>1
<1>3. z \in BOOLEAN
  BY Zenon, <1>1
<1>4. writeBlock(c, b) = [c EXCEPT !.blockInflight = y, !.configInflight = z]
  BY Zenon DEF writeBlock
<1> HIDE DEF y, z
<1>5. LET d == writeBlock(c, b) IN
      /\ d \in Run /\ d.leads = c.leads /\ d.justElected = c.justElected
      /\ d.accepting = c.accepting /\ d.pending = c.pending /\ d.bc = c.bc
      /\ d.propC = c.propC /\ d.proposer = c.proposer
      /\ d.delivered = c.delivered /\ d.appliedIndex = c.appliedIndex
      /\ d.configInflight = z /\ d.blockInflight = y
  BY Zenon, <1>2, <1>3, <1>4 DEF Run
<1> QED
  BY Zenon, <1>5 DEF y, z

(* A leader has counted the block it writes.                               *)
LEMMA WriteCounts ==
    ASSUME NEW l \in Seq(Entry), Chained(l), NEW i \in 1..Len(l), NEW c \in Run, QueueInv(c, l),
           c.leads, ~c.justElected, NEW tip \in Block, c.blockInflight = c.bc.num - tip.num,
           l[i].block.num = tip.num + 1
    PROVE  c.blockInflight > 0 /\ c.blockInflight - 1 = c.bc.num - l[i].block.num
<1>1. PICK j \in 0..Len(l) : Tip(l, Len(l), j) /\ BlockOf(l, j).num <= c.bc.num
  BY Zenon DEF QueueInv
<1>2. Len(l) \in 0..Len(l) /\ Len(l) \in Nat
  OBVIOUS
<1>3. l[i].block.num <= BlockOf(l, j).num
  BY Zenon, <1>1, <1>2, TipGreatest
<1>4. BlockOf(l, j).num \in Nat
  BY Zenon, BlockOfType
<1>5. c.bc.num \in Nat /\ tip.num \in Nat /\ l[i].block.num \in Nat
  <2>1. c.bc \in Block
    BY Zenon DEF Run
  <2>2. c.bc.num \in Nat /\ tip.num \in Nat
    BY Zenon, <2>1 DEF Block
  <2> QED
    BY Zenon, <2>2, EntryType
<1>6. c.bc.num >= tip.num + 1
  BY <1>1, <1>3, <1>4, <1>5
<1> QED
  BY <1>5, <1>6

(* The queue of a leader that applies the next entry.                      *)
LEMMA QueueApplies ==
    ASSUME NEW l \in Seq(Entry), NEW c \in Run, NEW d \in Run, QueueInv(c, l), c.leads, ~c.justElected,
           d.propC = c.propC, d.proposer = c.proposer, d.bc = c.bc, d.appliedIndex >= c.appliedIndex,
           \/ d.configInflight = c.configInflight
           \/ d.appliedIndex = c.appliedIndex + 1 /\ d.appliedIndex <= Len(l)
              /\ l[d.appliedIndex].block.config
    PROVE  QueueInv(d, l)
<1>1. c.appliedIndex \in Nat /\ d.appliedIndex \in Nat /\ Len(l) \in Nat /\ c.propC \in Seq(Block)
  BY DEF Run
<1>2. \A i \in (d.appliedIndex + 1)..Len(l) : i \in (c.appliedIndex + 1)..Len(l)
  BY <1>1
<1>3. \E j \in 0..Len(l) :
         /\ Tip(l, Len(l), j) /\ BlockOf(l, j).num <= d.bc.num
         /\ d.proposer = "runs" => Linked(BlockOf(l, j), d.propC, d.bc)
  BY Zenon DEF QueueInv
<1>4. CASE d.configInflight = c.configInflight
  <2>1. \A i \in (d.appliedIndex + 1)..Len(l) : l[i].block.config =>
           d.configInflight /\ i = Len(l) /\ d.propC = <<>>
    BY Zenon, <1>2, <1>4 DEF QueueInv
  <2>2. \A j \in 1..Len(d.propC) : d.propC[j].config => d.configInflight /\ j = Len(d.propC)
    BY Zenon, <1>4 DEF QueueInv
  <2> QED
    BY Zenon, <1>3, <2>1, <2>2 DEF QueueInv
<1>5. CASE /\ d.appliedIndex = c.appliedIndex + 1 /\ d.appliedIndex <= Len(l)
           /\ l[d.appliedIndex].block.config
  <2>1. d.appliedIndex \in (c.appliedIndex + 1)..Len(l)
    BY <1>1, <1>5
  <2>2. d.appliedIndex = Len(l) /\ c.propC = <<>>
    BY Zenon, <1>5, <2>1 DEF QueueInv
  <2>3. (d.appliedIndex + 1)..Len(l) = {} /\ 1..Len(d.propC) = {}
    BY <1>1, <2>2
  <2> QED
    BY Zenon, <1>3, <2>3 DEF QueueInv
<1> QED
  BY Zenon, <1>4, <1>5

(* The queue of a leader that starts to serve.                             *)
LEMMA QueueStarts ==
    ASSUME NEW l \in Seq(Entry), NEW d \in Run, NEW j, Tip(l, Len(l), j),
           d.bc.num = BlockOf(l, j).num, d.bc.id = BlockOf(l, j).id, d.propC = <<>>,
           d.appliedIndex = Len(l)
    PROVE  QueueInv(d, l)
<1>1. j \in 0..Len(l) /\ Len(l) \in Nat
  BY DEF Tip
<1>2. BlockOf(l, j).num \in Nat
  BY Zenon, <1>1, BlockOfType
<1>3. Linked(BlockOf(l, j), d.propC, d.bc) /\ BlockOf(l, j).num <= d.bc.num
  BY <1>2 DEF Linked
<1>4. (d.appliedIndex + 1)..Len(l) = {} /\ 1..Len(d.propC) = {}
  BY <1>1
<1> QED
  BY Zenon, <1>1, <1>3, <1>4 DEF QueueInv

(* The next committed entry is the one behind those applied, or an old one *)
(* again; its block follows the last one written.                          *)
LEMMA ApplyLedger ==
    ASSUME NEW l \in Seq(Entry), Chained(l), NEW g \in Seq(Written), NEW a \in Nat, NEW i \in Nat,
           i <= a + 1, i >= 1, a <= Len(l), i <= Len(l), LedgerIs(g, l, a)
    PROVE  LET b == l[i].block
               w == b # None /\ i > a /\ b.num = g[Len(g)].block.num + 1
               h == IF w THEN Append(g, [block |-> b, index |-> i]) ELSE g
           IN
           /\ ~(b # None /\ i > a /\ b.num > g[Len(g)].block.num + 1)
           /\ h \in Seq(Written) /\ LedgerIs(h, l, IF i > a THEN i ELSE a)
           /\ h[Len(h)].block = IF w THEN b ELSE g[Len(g)].block
<1> DEFINE b == l[i].block
           last == g[Len(g)].block
           w == b # None /\ i > a /\ b.num = last.num + 1
           h == IF w THEN Append(g, [block |-> b, index |-> i]) ELSE g
<1>1. i \in 1..Len(l) /\ b \in Block /\ b.num \in Nat
  BY EntryType
<1>2. CASE i > a
  <2>1. i = a + 1
    BY <1>2
  <2>2. CASE b = None
    <3>1. LedgerIs(g, l, i)
      BY Zenon, <2>1, <2>2, LedgerSkips
    <3> QED
      BY Zenon, <1>2, <2>2, <3>1
  <2>3. CASE b # None
    <3>1. b.num = last.num + 1 /\ LedgerIs(Append(g, [block |-> b, index |-> i]), l, i)
      BY Zenon, <2>1, <2>3, LedgerWrites
    <3>2. [block |-> b, index |-> i] \in Written
      BY Zenon, <1>1 DEF Written
    <3>3. w
      BY Zenon, <1>2, <2>3, <3>1
    <3>4. h = Append(g, [block |-> b, index |-> i])
      BY Zenon, <3>3
    <3> HIDE DEF w, h
    <3>5. h \in Seq(Written) /\ h[Len(h)] = [block |-> b, index |-> i]
      BY <3>2, <3>4
    <3>6. h[Len(h)].block = b
      BY <3>5
    <3>7. ~(b.num > last.num + 1)
      BY <1>1, <3>1
    <3>8. LedgerIs(h, l, IF i > a THEN i ELSE a)
      BY Zenon, <1>2, <3>1, <3>4
    <3> QED
      BY Zenon, <3>3, <3>5, <3>6, <3>7, <3>8 DEF w, h
  <2> QED
    BY Zenon, <2>2, <2>3
<1>3. CASE ~(i > a)
  BY Zenon, <1>3
<1> QED
  BY Zenon, <1>2, <1>3

(* The variables of run after an entry, before the end of the applyC case. *)
Applied(c, w, b, i) ==
    [IF w THEN writeBlock(c, b) ELSE c EXCEPT
        !.delivered = i, !.appliedIndex = IF i > @ THEN i ELSE @]

AppliedTo(c, w, b, i, d) ==
    /\ d \in Run /\ d.leads = c.leads /\ d.justElected = c.justElected
    /\ d.accepting = c.accepting /\ d.pending = c.pending /\ d.bc = c.bc
    /\ d.propC = c.propC /\ d.proposer = c.proposer
    /\ d.delivered = i /\ d.appliedIndex = (IF i > c.appliedIndex THEN i ELSE c.appliedIndex)
    /\ d.configInflight = (c.configInflight /\ ~(w /\ b.config))
    /\ d.blockInflight = IF w /\ c.blockInflight > 0 THEN c.blockInflight - 1
                         ELSE IF w THEN 0 ELSE c.blockInflight

LEMMA AppliedIs ==
    ASSUME NEW c \in Run, NEW w \in BOOLEAN, NEW b \in Block, NEW i \in Nat
    PROVE  AppliedTo(c, w, b, i, Applied(c, w, b, i))
<1> DEFINE e == IF w THEN writeBlock(c, b) ELSE c
           a == IF i > c.appliedIndex THEN i ELSE c.appliedIndex
<1>1. c.appliedIndex \in Nat /\ c.configInflight \in BOOLEAN
  BY Zenon DEF Run
<1>2. a \in Nat
  BY Zenon, <1>1
<1>3. /\ e \in Run /\ e.leads = c.leads /\ e.justElected = c.justElected
      /\ e.accepting = c.accepting /\ e.pending = c.pending /\ e.bc = c.bc
      /\ e.propC = c.propC /\ e.proposer = c.proposer
      /\ e.delivered = c.delivered /\ e.appliedIndex = c.appliedIndex
      /\ e.configInflight = (c.configInflight /\ ~(w /\ b.config))
      /\ e.blockInflight = IF w /\ c.blockInflight > 0 THEN c.blockInflight - 1
                           ELSE IF w THEN 0 ELSE c.blockInflight
  <2>1. CASE w
    BY Zenon, <1>1, <2>1, WriteBlockIs
  <2>2. CASE ~w
    BY Zenon, <1>1, <2>2
  <2> QED
    BY Zenon, <2>1, <2>2
<1>4. Applied(c, w, b, i) = [e EXCEPT !.delivered = i, !.appliedIndex = a]
  <2>1. Applied(c, w, b, i) = [e EXCEPT !.delivered = i, !.appliedIndex = IF i > @ THEN i ELSE @]
    BY Zenon DEF Applied
  <2> HIDE DEF e
  <2> QED
    BY Zenon, <1>3, <2>1 DEF Run
<1> HIDE DEF e, a
<1>5. LET d == Applied(c, w, b, i) IN
      /\ d \in Run /\ d.leads = e.leads /\ d.justElected = e.justElected
      /\ d.accepting = e.accepting /\ d.pending = e.pending /\ d.bc = e.bc
      /\ d.propC = e.propC /\ d.proposer = e.proposer
      /\ d.delivered = i /\ d.appliedIndex = a
      /\ d.configInflight = e.configInflight /\ d.blockInflight = e.blockInflight
  <2>1. e \in Run
    BY Zenon, <1>3
  <2>2. LET d == [e EXCEPT !.delivered = i, !.appliedIndex = a] IN
        /\ d \in Run /\ d.leads = e.leads /\ d.justElected = e.justElected
        /\ d.accepting = e.accepting /\ d.pending = e.pending /\ d.bc = e.bc
        /\ d.propC = e.propC /\ d.proposer = e.proposer
        /\ d.delivered = i /\ d.appliedIndex = a
        /\ d.configInflight = e.configInflight /\ d.blockInflight = e.blockInflight
    BY Zenon, <1>2, <2>1 DEF Run
  <2> QED
    BY Zenon, <1>4, <2>2
<1> QED
  BY Zenon, <1>3, <1>5 DEF a, AppliedTo

(* The variables of run after an entry: those of a leader are exact again. *)
EntryComes(l, c, tip, i, w, next, d, f) ==
    /\ l \in Seq(Entry) /\ Chained(l) /\ c \in Run /\ tip \in Block /\ RunInv(c, tip)
    /\ c.leads => QueueInv(c, l) /\ c.appliedIndex <= Len(l)
    /\ i \in 1..Len(l) /\ i <= c.appliedIndex + 1
    /\ w \in BOOLEAN /\ (w => i > c.appliedIndex /\ l[i].block.num = tip.num + 1)
    /\ next \in Block /\ next = (IF w THEN l[i].block ELSE tip)
    /\ d = Applied(c, w, l[i].block, i) /\ f = AfterApply(d, Len(l), next)
    /\ c.leads /\ d.appliedIndex = Len(l) => \E j : Tip(l, Len(l), j) /\ BlockOf(l, j) = next

EntryDone(l, c, i, next, f) ==
    /\ f \in Run /\ RunInv(f, next) /\ (c.leads => QueueInv(f, l)) /\ f.leads = c.leads
    /\ f.delivered = i /\ f.appliedIndex = IF i > c.appliedIndex THEN i ELSE c.appliedIndex

(* A follower, a leader just elected and a leader that orders.             *)
LEMMA RunFollows ==
    ASSUME NEW f, NEW tip, ~f.leads, f.propC = <<>>, f.proposer = "none", ~f.pending
    PROVE  RunInv(f, tip)
  BY Zenon DEF RunInv

Elected(f) ==
    /\ f.leads /\ f.justElected /\ f.propC = <<>> /\ f.proposer = "runs"
    /\ f.blockInflight = 0 /\ ~f.pending /\ ~f.accepting

LEMMA RunElected ==
    ASSUME NEW f, NEW tip, NEW l, Elected(f) PROVE RunInv(f, tip) /\ QueueInv(f, l)
  BY Zenon DEF RunInv, QueueInv, Elected

LEMMA RunOrders ==
    ASSUME NEW f, NEW tip, f.leads, ~f.justElected, f.blockInflight = f.bc.num - tip.num,
           f.configInflight => ~f.accepting /\ ~f.pending
    PROVE  RunInv(f, tip)
  BY Zenon DEF RunInv

LEMMA ApplyRun ==
    ASSUME NEW l, NEW c, NEW tip, NEW i, NEW w, NEW next, NEW d, NEW f,
           EntryComes(l, c, tip, i, w, next, d, f)
    PROVE  EntryDone(l, c, i, next, f)
<1>0. /\ l \in Seq(Entry) /\ Chained(l) /\ c \in Run /\ tip \in Block /\ RunInv(c, tip)
      /\ (c.leads => QueueInv(c, l)) /\ (c.leads => c.appliedIndex <= Len(l))
      /\ i \in 1..Len(l) /\ i <= c.appliedIndex + 1
      /\ w \in BOOLEAN /\ (w => i > c.appliedIndex /\ l[i].block.num = tip.num + 1)
      /\ next \in Block /\ next = (IF w THEN l[i].block ELSE tip)
      /\ d = Applied(c, w, l[i].block, i) /\ f = AfterApply(d, Len(l), next)
      /\ c.leads /\ d.appliedIndex = Len(l) => \E j : Tip(l, Len(l), j) /\ BlockOf(l, j) = next
  BY Zenon DEF EntryComes
<1>1. l[i].block \in Block /\ i \in Nat /\ Len(l) \in Nat /\ next \in Block
  BY <1>0, EntryType
<1>2. /\ d \in Run /\ d.leads = c.leads /\ d.justElected = c.justElected
      /\ d.accepting = c.accepting /\ d.pending = c.pending /\ d.bc = c.bc
      /\ d.propC = c.propC /\ d.proposer = c.proposer
      /\ d.delivered = i /\ d.appliedIndex = (IF i > c.appliedIndex THEN i ELSE c.appliedIndex)
      /\ d.configInflight = (c.configInflight /\ ~(w /\ l[i].block.config))
      /\ d.blockInflight = IF w /\ c.blockInflight > 0 THEN c.blockInflight - 1
                           ELSE IF w THEN 0 ELSE c.blockInflight
  <2>1. AppliedTo(c, w, l[i].block, i, d)
    BY Zenon, <1>0, <1>1, AppliedIs
  <2> QED
    BY Zenon, <2>1 DEF AppliedTo
<1>end. Ended(d, Len(l), next, f)
  BY Zenon, <1>0, <1>1, <1>2, AfterApplyIs
<1>3. /\ f \in Run /\ f.leads = d.leads /\ f.propC = d.propC /\ f.proposer = d.proposer
      /\ f.pending = d.pending /\ f.delivered = d.delivered /\ f.appliedIndex = d.appliedIndex
      /\ f.configInflight = d.configInflight /\ f.blockInflight = d.blockInflight
  BY Zenon, <1>end DEF Ended
<1>3a. d.justElected /\ (Len(l) > d.appliedIndex \/ d.configInflight) => f = d
  BY Zenon, <1>end DEF Ended
<1>3b. d.justElected /\ ~(Len(l) > d.appliedIndex \/ d.configInflight) =>
          ~f.justElected /\ f.bc.num = next.num /\ f.bc.id = next.id
  BY Zenon, <1>end DEF Ended
<1>3c. ~d.justElected => ~f.justElected /\ f.bc = d.bc /\ (d.configInflight => ~f.accepting)
  BY Zenon, <1>end DEF Ended
<1>4. c.appliedIndex \in Nat /\ c.blockInflight \in Nat /\ c.configInflight \in BOOLEAN
  BY Zenon, <1>0 DEF Run
<1>5. next.num \in Nat
  BY Zenon, <1>0 DEF Block
<1>6. /\ f \in Run /\ f.leads = c.leads /\ f.delivered = i
      /\ f.appliedIndex = IF i > c.appliedIndex THEN i ELSE c.appliedIndex
  BY Zenon, <1>0, <1>2, <1>3
<1>7. CASE ~c.leads
  <2>1. c.propC = <<>> /\ c.proposer = "none" /\ ~c.pending
    BY Zenon, <1>0, <1>7 DEF RunInv
  <2>2. ~f.leads /\ f.propC = <<>> /\ f.proposer = "none" /\ ~f.pending
    BY Zenon, <1>2, <1>3, <1>7, <2>1
  <2>3. RunInv(f, next)
    BY Zenon, <2>2, RunFollows
  <2> QED
    BY Zenon, <1>6, <1>7, <2>3 DEF EntryDone
<1>8. CASE c.leads /\ c.justElected
  <2>1. /\ c.propC = <<>> /\ c.proposer = "runs" /\ c.blockInflight = 0
        /\ ~c.pending /\ ~c.accepting
    BY Zenon, <1>0, <1>8 DEF RunInv
  <2>2. d.blockInflight = 0
    BY <1>0, <1>2, <1>4, <2>1
  <2>3. /\ d.leads /\ d.justElected /\ d.propC = c.propC /\ d.proposer = c.proposer
        /\ d.pending = c.pending /\ d.accepting = c.accepting
    BY Zenon, <1>2, <1>8
  <2>4. CASE Len(l) > d.appliedIndex \/ d.configInflight
    <3>1. f = d
      BY Zenon, <1>3a, <2>3, <2>4
    <3>2. Elected(d)
      BY Zenon, <2>1, <2>2, <2>3 DEF Elected
    <3>3. RunInv(d, next) /\ QueueInv(d, l)
      BY Zenon, <3>2, RunElected
    <3> QED
      BY Zenon, <1>6, <3>1, <3>3 DEF EntryDone
  <2>5. CASE ~(Len(l) > d.appliedIndex \/ d.configInflight)
    <3>0. f.propC = d.propC /\ f.leads = d.leads /\ f.configInflight = d.configInflight
      BY Zenon, <1>3
    <3>1. /\ ~f.justElected /\ f.bc.num = next.num /\ f.bc.id = next.id /\ f.propC = <<>>
          /\ f.leads /\ ~f.configInflight
      <4>1. ~f.justElected /\ f.bc.num = next.num /\ f.bc.id = next.id
        BY Zenon, <1>3b, <2>3, <2>5
      <4> QED
        BY Zenon, <2>1, <2>3, <2>5, <3>0, <4>1
    <3>2. d.appliedIndex = Len(l) /\ f.appliedIndex = Len(l)
      <4>1. d.appliedIndex = i \/ d.appliedIndex = c.appliedIndex
        BY Zenon, <1>2
      <4>2. i \in 1..Len(l) /\ c.appliedIndex <= Len(l)
        BY Zenon, <1>0, <1>8
      <4>3. ~(Len(l) > d.appliedIndex) /\ Len(l) \in Nat
        BY Zenon, <1>1, <2>5
      <4>4. d.appliedIndex = Len(l)
        BY <1>4, <4>1, <4>2, <4>3
      <4> QED
        BY Zenon, <1>3, <4>4
    <3>3. PICK j : Tip(l, Len(l), j) /\ BlockOf(l, j) = next
      BY Zenon, <1>0, <1>8, <3>2
    <3>4. QueueInv(f, l)
      <4>1. l \in Seq(Entry) /\ f \in Run
        BY Zenon, <1>0, <1>3
      <4>2. f.bc.num = BlockOf(l, j).num /\ f.bc.id = BlockOf(l, j).id
        BY Zenon, <3>1, <3>3
      <4> QED
        BY Zenon, <3>1, <3>2, <3>3, <4>1, <4>2, QueueStarts
    <3>5. f.blockInflight = f.bc.num - next.num
      <4>1. f.blockInflight = 0 /\ f.bc.num = next.num
        BY Zenon, <1>3, <2>2, <3>1
      <4> QED
        BY <1>5, <4>1
    <3>6. RunInv(f, next)
      BY Zenon, <3>1, <3>5, RunOrders
    <3> QED
      BY Zenon, <1>6, <3>4, <3>6 DEF EntryDone
  <2> QED
    BY Zenon, <2>4, <2>5
<1>9. CASE c.leads /\ ~c.justElected
  <2>1. /\ ~f.justElected /\ f.bc = c.bc /\ f.propC = c.propC /\ f.proposer = c.proposer
        /\ (f.configInflight => ~f.accepting /\ c.configInflight) /\ f.pending = c.pending
    BY Zenon, <1>2, <1>3, <1>3c, <1>9
  <2>2. c.blockInflight = c.bc.num - tip.num /\ (c.configInflight => ~c.pending)
    BY Zenon, <1>0, <1>9 DEF RunInv
  <2>3. f.blockInflight = f.bc.num - next.num
    <3>1. CASE w
      <4>1. c.blockInflight > 0 /\ c.blockInflight - 1 = c.bc.num - l[i].block.num
        BY Zenon, <1>0, <1>9, <2>2, <3>1, WriteCounts
      <4>2. f.blockInflight = c.blockInflight - 1
        BY Zenon, <1>2, <1>3, <3>1, <4>1
      <4>3. next = l[i].block
        BY Zenon, <1>0, <3>1
      <4> QED
        BY Zenon, <2>1, <4>1, <4>2, <4>3
    <3>2. CASE ~w
      <4>1. f.blockInflight = c.blockInflight
        BY Zenon, <1>2, <1>3, <3>2
      <4>2. next = tip
        BY Zenon, <1>0, <3>2
      <4> QED
        BY Zenon, <2>1, <2>2, <4>1, <4>2
    <3> QED
      BY Zenon, <3>1, <3>2
  <2>4. RunInv(f, next)
    BY Zenon, <1>6, <1>9, <2>1, <2>2, <2>3, RunOrders
  <2>5. QueueInv(f, l)
    <3>1. f.appliedIndex >= c.appliedIndex
      BY <1>0, <1>1, <1>4, <1>6
    <3>2. CASE w /\ l[i].block.config
      <4>1. f.appliedIndex = c.appliedIndex + 1 /\ f.appliedIndex = i /\ f.appliedIndex <= Len(l)
        <5>1. i > c.appliedIndex
          BY Zenon, <1>0, <3>2
        <5>2. f.appliedIndex = i
          BY Zenon, <1>0, <1>6, <5>1
        <5> QED
          BY <1>0, <1>1, <1>4, <5>1, <5>2
      <4>2. l[f.appliedIndex].block.config
        BY Zenon, <3>2, <4>1
      <4> QED
        BY Zenon, <1>0, <1>6, <1>9, <2>1, <3>1, <4>1, <4>2, QueueApplies
    <3>3. CASE ~(w /\ l[i].block.config)
      <4>1. f.configInflight = c.configInflight
        BY Zenon, <1>2, <1>3, <1>4, <3>3
      <4> QED
        BY Zenon, <1>0, <1>6, <1>9, <2>1, <3>1, <4>1, QueueApplies
    <3> QED
      BY Zenon, <3>2, <3>3
  <2> QED
    BY Zenon, <1>6, <2>4, <2>5 DEF EntryDone
<1> QED
  BY Zenon, <1>0, <1>7, <1>8, <1>9

LEMMA ApplyKeeps ==
    ASSUME Majorities, RInv, NEW n \in Electable, Apply(n) PROVE RInv'
<1> DEFINE c == ch[n]
           a == c.appliedIndex
           i == c.delivered + 1
           l == log[n]
           g == ledger[n]
           b == l[i].block
           tip == lastBlock(n)
           w == b # None /\ i > a /\ b.num = tip.num + 1
           h == IF w THEN Append(g, [block |-> b, index |-> i]) ELSE g
           top == IF i > a THEN i ELSE a
           next == IF w THEN b ELSE tip
           d == Applied(c, w, b, i)
           f == AfterApply(d, Len(l), next)
<1>1. TypeInv /\ RaftInv /\ ChainsInv /\ NodeInv(n) /\ "gap" \notin panics
  BY Zenon DEF RInv
<1>2. c.leads = (n \in leaders) /\ i <= Len(committed) /\ i <= Len(l) /\ l[i] = committed[i]
  BY Zenon DEF Apply, Informed
<1>3. /\ c \in Run /\ g \in Seq(Written) /\ n \in Nodes /\ a \in Nat /\ c.delivered \in Nat
      /\ l \in Seq(Entry) /\ Chained(l)
  BY Zenon, <1>1, RunTypes, NodeTypes DEF ChainsInv
<1>4. Chained(committed) /\ committed \in Seq(Entry)
  BY Zenon, <1>1, CommittedChained
<1>5. c.delivered <= a /\ a <= Len(committed) /\ LedgerIs(g, committed, a) /\ RunInv(c, tip)
  BY Zenon, <1>1 DEF NodeInv, AppliedInv
<1>6. i \in Nat /\ i >= 1 /\ i <= a + 1 /\ i \in 1..Len(l) /\ top \in Nat /\ top <= Len(committed) /\ i <= top
  BY <1>2, <1>3, <1>4, <1>5
<1>7. tip \in Block /\ tip.num \in Nat /\ tip = g[Len(g)].block
  BY Zenon, LastBlockType DEF lastBlock
<1> HIDE DEF tip
<1>8. /\ ~(b # None /\ i > a /\ b.num > tip.num + 1)
      /\ h \in Seq(Written) /\ LedgerIs(h, committed, top) /\ h[Len(h)].block = next
  <2>1. b = committed[i].block
    BY Zenon, <1>2
  <2> HIDE DEF i, a, g, b
  <2> QED
    BY Zenon, <1>2, <1>3, <1>4, <1>5, <1>6, <1>7, <2>1, ApplyLedger
<1>9. /\ ledger' = (IF w THEN [ledger EXCEPT ![n] = Append(@, [block |-> b, index |-> i])] ELSE ledger)
      /\ ch' = [ch EXCEPT ![n] = AfterApply(d, Len(l), lastBlock(n)')]
      /\ term' = term /\ log' = log /\ leaders' = leaders /\ committed' = committed
      /\ panics' = panics /\ made' = made
  <2>1. ~(b # None /\ i > a /\ b.num > tip.num + 1)
    BY Zenon, <1>8
  <2> QED
    BY Zenon, <2>1 DEF Apply, Applied, raftVars, boundVars, tip
<1>10. ledger'[n] = h /\ (\A k \in Electable \ {n} : ledger'[k] = ledger[k])
       /\ ledger' \in [Electable -> Seq(Written)]
  <2>1. ledger \in [Electable -> Seq(Written)]
    BY Zenon, <1>1 DEF TypeInv
  <2>2. CASE w
    <3>1. ledger' = [ledger EXCEPT ![n] = h]
      BY Zenon, <1>9, <2>2
    <3> HIDE DEF h
    <3> QED
      BY Zenon, <1>8, <2>1, <3>1
  <2>3. CASE ~w
    <3>1. ledger' = ledger /\ h = ledger[n]
      BY Zenon, <1>9, <2>3
    <3> QED
      BY Zenon, <2>1, <3>1
  <2> QED
    BY Zenon, <2>2, <2>3
<1>11. lastBlock(n)' = next
  BY Zenon, <1>8, <1>10 DEF lastBlock
<1>12. b \in Block /\ next \in Block /\ w \in BOOLEAN
  BY Zenon, <1>3, <1>6, <1>7, EntryType
<1>13. w => i > a /\ b.num = tip.num + 1
  BY Zenon
<1> HIDE DEF c, a, i, l, g, b, w, h, top, next, d, f
<1>14. d.appliedIndex = top
  <2>1. AppliedTo(c, w, b, i, d)
    BY Zenon, <1>3, <1>6, <1>12, AppliedIs DEF d
  <2> QED
    BY Zenon, <2>1 DEF AppliedTo, top, a
<1>15. ASSUME c.leads PROVE QueueInv(c, l) /\ a <= Len(l) /\ \A x \in 1..a : l[x] = committed[x]
  BY Zenon, <1>1, <1>2, <1>15 DEF NodeInv, AppliedInv, c, a, l
<1>16. ASSUME c.leads PROVE \A x \in 1..top : l[x] = committed[x]
  <2>1. \A x \in 1..a : l[x] = committed[x]
    BY Zenon, <1>15, <1>16
  <2>2. \A x \in 1..top : x \in 1..a \/ x = i
    BY <1>3, <1>6 DEF top
  <2> QED
    BY Zenon, <1>2, <2>1, <2>2
<1>17. ASSUME c.leads, d.appliedIndex = Len(l) PROVE \E j : Tip(l, Len(l), j) /\ BlockOf(l, j) = next
  <2>1. Len(h) \in Nat /\ Len(h) >= 1
    BY <1>8 DEF LedgerIs
  <2>2. LedgerIs(h, l, top)
    BY Zenon, <1>6, <1>8, <1>16, <1>17, <2>1, LedgerSame
  <2>3. Len(h) \in 1..Len(h) /\ top = Len(l)
    BY <1>14, <1>17, <2>1
  <2>4. Tip(l, Len(l), h[Len(h)].index) /\ h[Len(h)].block = BlockOf(l, h[Len(h)].index)
    BY Zenon, <2>2, <2>3 DEF LedgerIs
  <2> QED
    BY Zenon, <1>8, <2>4
<1>18. /\ f \in Run /\ RunInv(f, next) /\ (c.leads => QueueInv(f, l)) /\ f.leads = c.leads
       /\ f.delivered = i /\ f.appliedIndex = top
  <2>1. i <= c.appliedIndex + 1 /\ (c.leads => QueueInv(c, l) /\ c.appliedIndex <= Len(l))
    BY Zenon, <1>6, <1>15 DEF a
  <2>2. w => i > c.appliedIndex /\ l[i].block.num = tip.num + 1
    BY Zenon, <1>13 DEF a, b
  <2>3. next = (IF w THEN l[i].block ELSE tip) /\ d = Applied(c, w, l[i].block, i)
        /\ f = AfterApply(d, Len(l), next)
    BY Zenon DEF next, d, f, b
  <2>4. c.leads /\ d.appliedIndex = Len(l) => \E j : Tip(l, Len(l), j) /\ BlockOf(l, j) = next
    BY Zenon, <1>17
  <2>5. EntryComes(l, c, tip, i, w, next, d, f)
    BY Zenon, <1>3, <1>5, <1>6, <1>7, <1>12, <2>1, <2>2, <2>3, <2>4 DEF EntryComes
  <2>6. EntryDone(l, c, i, next, f)
    BY Zenon, <2>5, ApplyRun
  <2> QED
    BY Zenon, <2>6 DEF EntryDone, top, a
<1>19. ch' = [ch EXCEPT ![n] = f]
  BY Zenon, <1>9, <1>11 DEF f
<1>20. ch' \in [Electable -> Run] /\ ch'[n] = f /\ \A k \in Electable \ {n} : ch'[k] = ch[k]
  BY Zenon, <1>1, <1>18, <1>19, ChainSet
<1>21. TypeInv' /\ RaftInv' /\ ChainsInv'
  BY Zenon, <1>1, <1>9, <1>10, <1>20, ShrinkRaft DEF TypeInv, ChainsInv
<1>22. AppliedInv(n)'
  <2>1. ASSUME n \in leaders' PROVE f.leads /\ top <= Len(l) /\ \A x \in 1..top : l[x] = committed[x]
    <3>1. c.leads
      BY Zenon, <1>2, <1>9, <2>1
    <3>2. top <= Len(l)
      BY Zenon, <1>2, <1>15, <3>1 DEF top
    <3> QED
      BY Zenon, <1>16, <1>18, <3>1, <3>2
  <2> QED
    BY Zenon, <1>6, <1>8, <1>9, <1>10, <1>18, <1>20, <2>1 DEF AppliedInv, l
<1>23. RunInv(ch'[n], lastBlock(n)') /\ (n \in leaders' => QueueInv(ch'[n], log'[n]))
  BY Zenon, <1>2, <1>9, <1>11, <1>18, <1>20 DEF l
<1>24. NodeInv(n)'
  BY Zenon, <1>22, <1>23 DEF NodeInv
<1> QED
  BY Zenon, <1>1, <1>9, <1>10, <1>20, <1>21, <1>24, NodeMoves

(* A node that catches up has the ledger of another.                       *)
LEMMA CatchUpKeeps ==
    ASSUME Majorities, RInv, NEW n \in Electable, NEW m \in Electable, CatchUp(n, m) PROVE RInv'
<1> DEFINE i == ch[m].appliedIndex
           c == ch[n]
           d == [c EXCEPT !.appliedIndex = i, !.delivered = i]
<1>1. TypeInv /\ RaftInv /\ ChainsInv /\ NodeInv(n) /\ NodeInv(m) /\ "gap" \notin panics
  BY Zenon DEF RInv
<1>2. /\ n \notin leaders /\ c.leads = (n \in leaders) /\ i > c.appliedIndex
      /\ ledger' = [ledger EXCEPT ![n] = ledger[m]]
      /\ ch' = [ch EXCEPT ![n].appliedIndex = i, ![n].delivered = i]
      /\ log' = [log EXCEPT ![n] = IF Len(@) >= i /\ @[i] = committed[i] THEN @
                                  ELSE SubSeq(committed, 1, i)]
      /\ term' = [term EXCEPT ![n] = IF @ < committed[i].term THEN committed[i].term ELSE @]
      /\ leaders' = leaders /\ committed' = committed /\ panics' = panics /\ made' = made
  BY Zenon DEF CatchUp, Informed, boundVars
<1>3. /\ c \in Run /\ i \in Nat /\ c.appliedIndex \in Nat /\ n \in Nodes
      /\ ledger[m] \in Seq(Written) /\ log[n] \in Seq(Entry) /\ term[n] \in Nat
  BY Zenon, <1>1, RunTypes, NodeTypes
<1>4. i <= Len(committed) /\ LedgerIs(ledger[m], committed, i)
  BY Zenon, <1>1 DEF NodeInv, AppliedInv
<1>5. committed \in Seq(Entry) /\ Chained(committed)
  BY Zenon, <1>1, CommittedChained
<1>6. i \in 1..Len(committed)
  BY <1>2, <1>3, <1>4, <1>5
<1>7. /\ SubSeq(committed, 1, i) \in Seq(Entry) /\ Prefix(SubSeq(committed, 1, i), committed)
      /\ committed[i].term \in Nat
  BY Zenon, <1>5, <1>6, CutIs, EntryType
<1>8. /\ d \in Run /\ d.leads = c.leads /\ d.propC = c.propC /\ d.proposer = c.proposer
      /\ d.pending = c.pending /\ d.appliedIndex = i /\ d.delivered = i
  BY Zenon, <1>3 DEF Run
<1>9. ch' = [ch EXCEPT ![n] = d]
  <2>1. ch \in [Electable -> Run]
    BY Zenon, <1>1 DEF TypeInv
  <2> QED
    BY Zenon, <1>2, <2>1
<1>10. ch' \in [Electable -> Run] /\ ch'[n] = d /\ \A k \in Electable \ {n} : ch'[k] = ch[k]
  BY Zenon, <1>1, <1>8, <1>9, ChainSet
<1> HIDE DEF d, i, c
<1>11. /\ ledger' \in [Electable -> Seq(Written)] /\ ledger'[n] = ledger[m]
       /\ \A k \in Electable \ {n} : ledger'[k] = ledger[k]
  BY Zenon, <1>1, <1>2, <1>3 DEF TypeInv
<1>12. /\ log' \in [Nodes -> Seq(Entry)] /\ (log'[n] = log[n] \/ log'[n] = SubSeq(committed, 1, i))
       /\ \A k \in Nodes \ {n} : log'[k] = log[k]
  BY Zenon, <1>1, <1>2, <1>3, <1>7 DEF TypeInv
<1>13. term' \in [Nodes -> Nat]
  BY Zenon, <1>1, <1>2, <1>3, <1>7 DEF TypeInv
<1>14. TypeInv'
  BY Zenon, <1>1, <1>2, <1>10, <1>11, <1>12, <1>13 DEF TypeInv
<1>15. RaftInv'
  BY Zenon, <1>1, <1>2, <1>3, <1>6, <1>14, CatchUpRaft
<1>16. ChainsInv'
  <2>1. Chained(SubSeq(committed, 1, i))
    BY Zenon, <1>5, <1>7, ChainedPrefix
  <2> QED
    BY Zenon, <1>1, <1>12, <2>1 DEF ChainsInv
<1>17. i <= i
  BY <1>3
<1>18. AppliedInv(n)'
  BY Zenon, <1>2, <1>4, <1>8, <1>10, <1>11, <1>17 DEF AppliedInv
<1>19. RunInv(ch'[n], lastBlock(n)')
  <2>1. ~c.leads /\ RunInv(c, lastBlock(n))
    BY Zenon, <1>1, <1>2 DEF NodeInv, c
  <2> QED
    BY Zenon, <1>8, <1>10, <2>1 DEF RunInv
<1>20. NodeInv(n)'
  BY Zenon, <1>2, <1>18, <1>19 DEF NodeInv
<1>21. \A k \in Electable \ {n} : k \in leaders' => k \in leaders /\ log'[k] = log[k]
  BY Zenon, <1>2, <1>12, RaftAssumption
<1> QED
  BY Zenon, <1>1, <1>2, <1>10, <1>11, <1>14, <1>15, <1>16, <1>20, <1>21, NodeMoves

-----------------------------------------------------------------------------
(* Blocks created, and blocks proposed.                                    *)

LEMMA NoBlocks == ASSUME NEW q \in Seq(Block), Len(q) = 0 PROVE q = <<>>
  OBVIOUS

LEMMA TailIs ==
    ASSUME NEW q \in Seq(Block), q # <<>>
    PROVE  /\ Head(q) = q[1] /\ Head(q) \in Block /\ Tail(q) \in Seq(Block) /\ Len(q) \in Nat /\ Len(q) >= 1
           /\ Len(Tail(q)) = Len(q) - 1 /\ \A j \in 1..(Len(q) - 1) : Tail(q)[j] = q[j + 1]
  OBVIOUS

LEMMA LinkedHead ==
    ASSUME NEW tip \in Block, NEW q \in Seq(Block), q # <<>>, NEW bc, Linked(tip, q, bc)
    PROVE  /\ Follows(Head(q), tip) /\ Linked(Head(q), Tail(q), bc)
           /\ Head(q).num <= bc.num /\ Head(q) # None
<1> DEFINE h == Head(q)
           r == Tail(q)
<1>1. /\ h = q[1] /\ h \in Block /\ r \in Seq(Block) /\ Len(q) \in Nat /\ Len(q) >= 1
      /\ Len(r) = Len(q) - 1 /\ \A j \in 1..(Len(q) - 1) : r[j] = q[j + 1]
  BY Zenon, TailIs
<1> HIDE DEF h, r
<1>2. \A j \in 1..Len(q) : q[j].num = tip.num + j /\ q[j].prev = IF j = 1 THEN tip.id ELSE q[j - 1].id
  BY Zenon DEF Linked
<1>3. bc.num = tip.num + Len(q) /\ bc.id = q[Len(q)].id
  BY Zenon DEF Linked
<1>4. tip.num \in Nat
  BY Zenon DEF Block
<1>5. h.num = tip.num + 1 /\ h.prev = tip.id
  BY <1>1, <1>2
<1>6. h # None
  BY <1>4, <1>5, NoneType
<1>7. ASSUME NEW j \in 1..Len(r)
      PROVE  r[j].num = h.num + j /\ r[j].prev = IF j = 1 THEN h.id ELSE r[j - 1].id
  <2>1. j \in 1..(Len(q) - 1) /\ j + 1 \in 1..Len(q) /\ j + 1 # 1 /\ (j + 1) - 1 = j
    BY <1>1
  <2>2. r[j] = q[j + 1] /\ q[j + 1].num = tip.num + (j + 1)
    BY Zenon, <1>1, <1>2, <2>1
  <2>3. q[j + 1].prev = q[j].id
    <3>1. q[j + 1].prev = IF j + 1 = 1 THEN tip.id ELSE q[(j + 1) - 1].id
      BY Zenon, <1>2, <2>1
    <3> QED
      BY Zenon, <2>1, <3>1
  <2>4. r[j].num = h.num + j
    <3>1. h.num = tip.num + 1 /\ r[j].num = tip.num + (j + 1)
      BY Zenon, <1>5, <2>2
    <3>2. tip.num \in Nat /\ j \in Nat
      BY <1>4, <2>1
    <3> QED
      BY <3>1, <3>2
  <2>5. CASE j = 1
    <3> QED
      BY Zenon, <1>1, <2>2, <2>3, <2>5, <2>4
  <2>6. CASE j # 1
    <3>1. j - 1 \in 1..(Len(q) - 1) /\ (j - 1) + 1 = j
      BY <1>1, <2>1, <2>6
    <3>2. r[j - 1] = q[j]
      BY Zenon, <1>1, <3>1
    <3> QED
      BY Zenon, <2>2, <2>3, <2>6, <2>4, <3>2
  <2> QED
    BY Zenon, <2>5, <2>6
<1>8. bc.num = h.num + Len(r)
  BY <1>1, <1>3, <1>4, <1>5
<1>9. bc.id = IF r = <<>> THEN h.id ELSE r[Len(r)].id
  <2>1. CASE Len(q) = 1
    <3>1. Len(r) = 0
      BY <1>1, <2>1
    <3>2. r = <<>>
      BY <1>1, <3>1
    <3> QED
      BY Zenon, <1>1, <1>3, <2>1, <3>2
  <2>2. CASE Len(q) # 1
    <3>1. Len(r) \in 1..(Len(q) - 1) /\ Len(r) + 1 = Len(q)
      BY <1>1, <2>2
    <3>2. r # <<>> /\ r[Len(r)] = q[Len(q)]
      BY <1>1, <3>1
    <3> QED
      BY Zenon, <1>3, <3>2
  <2> QED
    BY Zenon, <2>1, <2>2
<1>10. Linked(h, r, bc)
  BY Zenon, <1>7, <1>8, <1>9 DEF Linked
<1>11. h.num <= bc.num
  BY <1>1, <1>4, <1>5, <1>8
<1> QED
  BY Zenon, <1>5, <1>6, <1>10, <1>11 DEF Follows, h, r

LEMMA ProposeKeeps ==
    ASSUME Majorities, RInv, NEW n \in Electable, Propose(n) PROVE RInv'
<1> DEFINE c == ch[n]
           l == log[n]
           b == Head(c.propC)
           e == [term |-> term[n], block |-> b]
           d == [c EXCEPT !.propC = Tail(c.propC)]
<1>1. TypeInv /\ RaftInv /\ ChainsInv /\ NodeInv(n) /\ "gap" \notin panics
  BY Zenon DEF RInv
<1>2. /\ c.proposer = "runs" /\ c.propC # <<>> /\ n \in leaders
      /\ log' = [log EXCEPT ![n] = Append(@, e)] /\ ch' = [ch EXCEPT ![n].propC = Tail(@)]
      /\ term' = term /\ leaders' = leaders /\ committed' = committed
      /\ ledger' = ledger /\ panics' = panics /\ made' = made
  BY Zenon DEF Propose, boundVars
<1>3. /\ c \in Run /\ n \in Nodes /\ c.propC \in Seq(Block) /\ l \in Seq(Entry) /\ Chained(l)
      /\ term[n] \in Nat /\ c.bc \in Block /\ c.appliedIndex \in Nat
  BY Zenon, <1>1, RunTypes, NodeTypes DEF ChainsInv
<1>4. /\ b = c.propC[1] /\ b \in Block /\ Tail(c.propC) \in Seq(Block)
      /\ Len(Tail(c.propC)) = Len(c.propC) - 1 /\ Len(c.propC) \in Nat /\ Len(c.propC) >= 1
      /\ \A j \in 1..(Len(c.propC) - 1) : Tail(c.propC)[j] = c.propC[j + 1]
  BY Zenon, <1>2, <1>3, TailIs
<1>5. /\ d \in Run /\ d.propC = Tail(c.propC) /\ d.leads = c.leads /\ d.justElected = c.justElected
      /\ d.configInflight = c.configInflight /\ d.blockInflight = c.blockInflight
      /\ d.accepting = c.accepting /\ d.bc = c.bc /\ d.pending = c.pending /\ d.proposer = c.proposer
      /\ d.delivered = c.delivered /\ d.appliedIndex = c.appliedIndex
  BY Zenon, <1>3, <1>4 DEF Run
<1>6. e \in Entry /\ e.term = term[n] /\ e.block = b
  BY Zenon, <1>3, <1>4 DEF Entry
<1>7. ch' = [ch EXCEPT ![n] = d]
  <2>1. ch \in [Electable -> Run]
    BY Zenon, <1>1 DEF TypeInv
  <2> QED
    BY Zenon, <1>2, <2>1
<1> HIDE DEF d, e, c
<1>8. ch' \in [Electable -> Run] /\ ch'[n] = d /\ \A k \in Electable \ {n} : ch'[k] = ch[k]
  BY Zenon, <1>1, <1>5, <1>7, ChainSet
<1>9. /\ log' \in [Nodes -> Seq(Entry)] /\ log'[n] = Append(l, e)
      /\ \A k \in Nodes \ {n} : log'[k] = log[k]
  BY <1>1, <1>2, <1>3, <1>6 DEF TypeInv
<1>10. TypeInv'
  BY Zenon, <1>1, <1>2, <1>8, <1>9 DEF TypeInv
<1>11. RaftInv'
  BY Zenon, <1>1, <1>2, <1>3, <1>6, <1>10, ProposeRaft
<1> HIDE DEF l
<1>12. RunInv(c, lastBlock(n)) /\ QueueInv(c, l) /\ c.leads /\ ~c.justElected
  <2>1. RunInv(c, lastBlock(n)) /\ QueueInv(c, l)
    BY Zenon, <1>1, <1>2 DEF NodeInv, c, l
  <2> QED
    BY Zenon, <1>2, <2>1 DEF RunInv
<1>13. PICK t \in 0..Len(l) : Tip(l, Len(l), t) /\ Linked(BlockOf(l, t), c.propC, c.bc)
  BY Zenon, <1>2, <1>12 DEF QueueInv
<1>14. Follows(b, BlockOf(l, t)) /\ Linked(b, Tail(c.propC), c.bc) /\ b.num <= c.bc.num /\ b # None
  BY Zenon, <1>2, <1>3, <1>13, BlockOfType, LinkedHead
<1> HIDE DEF b
<1>15. ChainsInv'
  <2>1. Chained(log'[n])
    BY Zenon, <1>3, <1>6, <1>9, <1>13, <1>14, ChainedAppend
  <2> QED
    BY Zenon, <1>1, <1>9, <2>1 DEF ChainsInv
<1> DEFINE m == log'[n]
<1>16. /\ Len(m) = Len(l) + 1 /\ Len(l) \in Nat /\ m[Len(l) + 1] = e /\ m \in Seq(Entry)
       /\ \A i \in 1..Len(l) : m[i] = l[i]
  BY <1>3, <1>6, <1>9, AppendIs
<1> HIDE DEF m
<1>17. AppliedInv(n)'
  <2>1. c.appliedIndex <= Len(l) /\ \A i \in 1..c.appliedIndex : l[i] = committed[i]
    BY Zenon, <1>1, <1>2 DEF NodeInv, AppliedInv, c, l
  <2>2. c.appliedIndex <= Len(m) /\ \A i \in 1..c.appliedIndex : m[i] = committed[i]
    BY <1>3, <1>16, <2>1
  <2>3. /\ c.delivered <= c.appliedIndex /\ c.appliedIndex <= Len(committed)
        /\ LedgerIs(ledger[n], committed, c.appliedIndex)
    BY Zenon, <1>1 DEF NodeInv, AppliedInv, c
  <2>4. /\ d.delivered <= d.appliedIndex /\ d.appliedIndex <= Len(committed) /\ d.leads
        /\ LedgerIs(ledger[n], committed, d.appliedIndex)
        /\ d.appliedIndex <= Len(m) /\ \A i \in 1..d.appliedIndex : m[i] = committed[i]
    BY Zenon, <1>5, <1>12, <2>2, <2>3
  <2> QED
    BY Zenon, <1>2, <1>8, <2>4 DEF AppliedInv, m
<1>18. RunInv(ch'[n], lastBlock(n)')
  <2>1. lastBlock(n)' = lastBlock(n)
    BY Zenon, <1>2 DEF lastBlock
  <2> QED
    BY Zenon, <1>5, <1>8, <1>12, <2>1 DEF RunInv
<1>19. QueueInv(d, m)
  <2>1. \E j \in 0..Len(m) :
           /\ Tip(m, Len(m), j) /\ BlockOf(m, j).num <= d.bc.num
           /\ d.proposer = "runs" => Linked(BlockOf(m, j), d.propC, d.bc)
    <3> DEFINE j == Len(l) + 1
    <3>1. Tip(m, Len(m), j) /\ BlockOf(m, j) = b /\ j \in 0..Len(m)
      BY <1>6, <1>14, <1>16 DEF Tip, BlockOf
    <3> HIDE DEF j
    <3> QED
      BY Zenon, <1>5, <1>14, <3>1
  <2>2. ASSUME NEW i \in (d.appliedIndex + 1)..Len(m), m[i].block.config
        PROVE  d.configInflight /\ i = Len(m) /\ d.propC = <<>>
    <3>1. CASE i = Len(l) + 1
      <4>1. c.propC[1].config /\ 1 \in 1..Len(c.propC)
        <5>1. m[i].block = c.propC[1]
          BY Zenon, <1>4, <1>6, <1>16, <3>1
        <5>2. 1 \in 1..Len(c.propC)
          BY <1>4
        <5> QED
          BY Zenon, <2>2, <5>1, <5>2
      <4>2. c.configInflight /\ 1 = Len(c.propC)
        BY Zenon, <1>12, <4>1 DEF QueueInv
      <4>3. Len(Tail(c.propC)) = 0
        BY <1>4, <4>2
      <4>4. Tail(c.propC) = <<>>
        BY Zenon, <1>4, <4>3, NoBlocks
      <4> QED
        BY Zenon, <1>5, <1>16, <3>1, <4>2, <4>4
    <3>2. CASE i # Len(l) + 1
      <4>1. i \in (c.appliedIndex + 1)..Len(l) /\ i \in 1..Len(l)
        BY <1>3, <1>5, <1>16, <3>2
      <4>2. l[i].block.config
        BY Zenon, <1>16, <2>2, <4>1
      <4> QED
        BY Zenon, <1>2, <1>12, <4>1, <4>2 DEF QueueInv
    <3> QED
      BY Zenon, <3>1, <3>2
  <2>3. ASSUME NEW j \in 1..Len(d.propC), d.propC[j].config
        PROVE  d.configInflight /\ j = Len(d.propC)
    <3>1. j \in 1..(Len(c.propC) - 1) /\ j + 1 \in 1..Len(c.propC)
      BY <1>4, <1>5
    <3>2. c.propC[j + 1].config
      BY Zenon, <1>4, <1>5, <2>3, <3>1
    <3>3. c.configInflight /\ j + 1 = Len(c.propC)
      BY Zenon, <1>12, <3>1, <3>2 DEF QueueInv
    <3> QED
      BY <1>4, <1>5, <3>1, <3>3
  <2> QED
    BY Zenon, <2>1, <2>2, <2>3 DEF QueueInv
<1>20. NodeInv(n)'
  BY Zenon, <1>8, <1>17, <1>18, <1>19 DEF NodeInv, m
<1>21. \A k \in Electable \ {n} : k \in leaders' => k \in leaders /\ log'[k] = log[k]
  BY Zenon, <1>2, <1>9, RaftAssumption
<1> QED
  BY Zenon, <1>1, <1>2, <1>8, <1>10, <1>11, <1>15, <1>20, <1>21, NodeMoves

LEMMA ProposeDroppedKeeps ==
    ASSUME RInv, NEW n \in Electable, ProposeDropped(n) PROVE RInv'
<1> DEFINE c == ch[n]
           l == log[n]
           d == [c EXCEPT !.propC = Tail(c.propC), !.proposer = "dead"]
<1>1. TypeInv /\ RaftInv /\ ChainsInv /\ NodeInv(n) /\ "gap" \notin panics
  BY Zenon DEF RInv
<1>2. /\ c.proposer = "runs" /\ c.propC # <<>>
      /\ ch' = [ch EXCEPT ![n].propC = Tail(@), ![n].proposer = "dead"]
      /\ term' = term /\ log' = log /\ leaders' = leaders /\ committed' = committed
      /\ ledger' = ledger /\ panics' = panics /\ made' = made
  BY Zenon DEF ProposeDropped, raftVars, boundVars
<1>3. c \in Run /\ c.propC \in Seq(Block)
  BY Zenon, <1>1, RunTypes
<1>4. /\ Tail(c.propC) \in Seq(Block)
      /\ Len(Tail(c.propC)) = Len(c.propC) - 1 /\ Len(c.propC) \in Nat /\ Len(c.propC) >= 1
      /\ \A j \in 1..(Len(c.propC) - 1) : Tail(c.propC)[j] = c.propC[j + 1]
  BY Zenon, <1>2, <1>3, TailIs
<1>5. /\ d \in Run /\ d.propC = Tail(c.propC) /\ d.leads = c.leads /\ d.justElected = c.justElected
      /\ d.configInflight = c.configInflight /\ d.blockInflight = c.blockInflight
      /\ d.accepting = c.accepting /\ d.bc = c.bc /\ d.pending = c.pending /\ d.proposer = "dead"
      /\ d.delivered = c.delivered /\ d.appliedIndex = c.appliedIndex
  BY Zenon, <1>3, <1>4 DEF Run
<1>6. ch' = [ch EXCEPT ![n] = d]
  <2>1. ch \in [Electable -> Run]
    BY Zenon, <1>1 DEF TypeInv
  <2> QED
    BY Zenon, <1>2, <2>1
<1> HIDE DEF d, c, l
<1>7. ch' \in [Electable -> Run] /\ ch'[n] = d /\ \A k \in Electable \ {n} : ch'[k] = ch[k]
  BY Zenon, <1>1, <1>5, <1>6, ChainSet
<1>8. TypeInv' /\ RaftInv' /\ ChainsInv'
  BY Zenon, <1>1, <1>2, <1>7, ShrinkRaft DEF TypeInv, ChainsInv
<1>9. RunInv(c, lastBlock(n)) /\ (n \in leaders => QueueInv(c, l)) /\ AppliedInv(n)
  BY Zenon, <1>1 DEF NodeInv, c, l
<1>10. c.leads /\ ~c.justElected
  BY Zenon, <1>2, <1>9 DEF RunInv
<1>11. AppliedInv(n)'
  BY Zenon, <1>2, <1>5, <1>7, <1>9 DEF AppliedInv, c
<1>12. RunInv(ch'[n], lastBlock(n)')
  <2>1. lastBlock(n)' = lastBlock(n)
    BY Zenon, <1>2 DEF lastBlock
  <2> QED
    BY Zenon, <1>5, <1>7, <1>9, <1>10, <2>1 DEF RunInv
<1>13. ASSUME n \in leaders PROVE QueueInv(d, l)
  <2>1. QueueInv(c, l)
    BY Zenon, <1>9, <1>13
  <2>2. \E j \in 0..Len(l) :
           /\ Tip(l, Len(l), j) /\ BlockOf(l, j).num <= d.bc.num
           /\ d.proposer = "runs" => Linked(BlockOf(l, j), d.propC, d.bc)
    BY Zenon, <1>5, <1>10, <2>1 DEF QueueInv
  <2>3. \A i \in (d.appliedIndex + 1)..Len(l) : ~l[i].block.config
    BY Zenon, <1>2, <1>5, <1>10, <2>1 DEF QueueInv
  <2>4. ASSUME NEW j \in 1..Len(d.propC), d.propC[j].config
        PROVE  d.configInflight /\ j = Len(d.propC)
    <3>1. j \in 1..(Len(c.propC) - 1) /\ j + 1 \in 1..Len(c.propC)
      BY <1>4, <1>5
    <3>2. c.propC[j + 1].config
      BY Zenon, <1>4, <1>5, <2>4, <3>1
    <3>3. c.configInflight /\ j + 1 = Len(c.propC)
      BY Zenon, <1>10, <2>1, <3>1, <3>2 DEF QueueInv
    <3> QED
      BY <1>4, <1>5, <3>1, <3>3
  <2> QED
    BY Zenon, <2>2, <2>3, <2>4 DEF QueueInv
<1>14. NodeInv(n)'
  BY Zenon, <1>2, <1>7, <1>11, <1>12, <1>13 DEF NodeInv, l
<1> QED
  BY Zenon, <1>1, <1>2, <1>7, <1>8, <1>14, NodeMoves

(* The k blocks r come behind bc.                                          *)
Behind(bc, k, config, r) ==
    /\ r \in Seq(Block) /\ Len(r) = k
    /\ \A i \in 1..k : /\ r[i].num = bc.num + i /\ r[i].config = (config /\ i = k)
                       /\ r[i].prev = IF i = 1 THEN bc.id ELSE r[i - 1].id

LEMMA NewBlocksIs ==
    ASSUME made \in Nat, NEW bc \in Block, NEW k \in Nat, NEW config \in BOOLEAN
    PROVE  Behind(bc, k, config, NewBlocks(bc, k, config))
<1> DEFINE B(i) == [num |-> bc.num + i, id |-> made + i,
                    prev |-> IF i = 1 THEN bc.id ELSE made + i - 1,
                    config |-> config /\ i = k]
           r == [i \in 1..k |-> B(i)]
<1>1. bc.num \in Nat /\ bc.id \in Nat
  BY Zenon DEF Block
<1>2. ASSUME NEW i \in 1..k
      PROVE  /\ B(i) \in Block /\ B(i).num = bc.num + i /\ B(i).config = (config /\ i = k)
             /\ B(i).id = made + i /\ B(i).prev = IF i = 1 THEN bc.id ELSE made + i - 1
  BY <1>1 DEF Block
<1> HIDE DEF B
<1>3. r \in Seq(Block) /\ Len(r) = k
  BY <1>2
<1>4. \A i \in 1..k : r[i] = B(i)
  BY Zenon
<1>5. r = NewBlocks(bc, k, config)
  BY Zenon DEF NewBlocks, B
<1> HIDE DEF r
<1>6. ASSUME NEW i \in 1..k PROVE r[i].prev = IF i = 1 THEN bc.id ELSE r[i - 1].id
  <2>1. CASE i = 1
    BY Zenon, <1>2, <1>4, <2>1
  <2>2. CASE i # 1
    <3>1. i - 1 \in 1..k /\ made + (i - 1) = made + i - 1
      BY <2>2
    <3>2. r[i - 1].id = made + (i - 1) /\ r[i].prev = made + i - 1
      BY Zenon, <1>2, <1>4, <2>2, <3>1
    <3> QED
      BY Zenon, <2>2, <3>1, <3>2
  <2> QED
    BY Zenon, <2>1, <2>2
<1>7. ASSUME NEW i \in 1..k PROVE r[i].num = bc.num + i /\ r[i].config = (config /\ i = k)
  <2>1. r[i] = B(i) /\ B(i).num = bc.num + i /\ B(i).config = (config /\ i = k)
    BY Zenon, <1>2, <1>4
  <2> QED
    BY Zenon, <2>1
<1>8. Behind(bc, k, config, r)
  BY Zenon, <1>3, <1>6, <1>7 DEF Behind
<1> QED
  BY Zenon, <1>5, <1>8

LEMMA JoinIs ==
    ASSUME NEW q \in Seq(Block), NEW r \in Seq(Block)
    PROVE  /\ q \o r \in Seq(Block) /\ Len(q \o r) = Len(q) + Len(r) /\ Len(q) \in Nat /\ Len(r) \in Nat
           /\ \A j \in 1..Len(q) : (q \o r)[j] = q[j]
           /\ \A j \in 1..Len(r) : (q \o r)[Len(q) + j] = r[j]
<1>1. q \o r \in Seq(Block) /\ Len(q) \in Nat /\ Len(r) \in Nat
  OBVIOUS
<1>2. Len(q \o r) = Len(q) + Len(r)
  OBVIOUS
<1>3. \A j \in 1..Len(q) : (q \o r)[j] = q[j]
  OBVIOUS
<1>4. \A j \in 1..Len(r) : (q \o r)[Len(q) + j] = r[j]
  OBVIOUS
<1> QED
  BY Zenon, <1>1, <1>2, <1>3, <1>4

LEMMA LinkedJoins ==
    ASSUME NEW tip \in Block, NEW q \in Seq(Block), NEW bc \in Block, Linked(tip, q, bc), NEW k \in Nat,
           NEW config, NEW r, Behind(bc, k, config, r)
    PROVE  Linked(tip, q \o r, IF k = 0 THEN bc ELSE r[k])
<1> DEFINE s == q \o r
           last == IF k = 0 THEN bc ELSE r[k]
<1>1. r \in Seq(Block) /\ Len(r) = k
  BY Zenon DEF Behind
<1>2. /\ s \in Seq(Block) /\ Len(s) = Len(q) + k /\ Len(q) \in Nat
      /\ (\A j \in 1..Len(q) : s[j] = q[j]) /\ \A j \in 1..k : s[Len(q) + j] = r[j]
  BY Zenon, <1>1, JoinIs
<1>3. tip.num \in Nat /\ bc.num \in Nat
  BY Zenon DEF Block
<1>4. bc.num = tip.num + Len(q) /\ bc.id = IF q = <<>> THEN tip.id ELSE q[Len(q)].id
  BY Zenon DEF Linked
<1> HIDE DEF s
<1>5. ASSUME NEW j \in 1..Len(q)
      PROVE  s[j].num = tip.num + j /\ s[j].prev = IF j = 1 THEN tip.id ELSE s[j - 1].id
  <2>1. q[j].num = tip.num + j /\ q[j].prev = IF j = 1 THEN tip.id ELSE q[j - 1].id
    BY Zenon DEF Linked
  <2>2. s[j] = q[j]
    BY Zenon, <1>2
  <2>3. j # 1 => s[j - 1] = q[j - 1]
    BY <1>2
  <2> QED
    BY Zenon, <2>1, <2>2, <2>3
<1>6. ASSUME NEW x \in 1..k, NEW j \in Nat, j = Len(q) + x
      PROVE  s[j].num = tip.num + j /\ s[j].prev = IF j = 1 THEN tip.id ELSE s[j - 1].id
  <2>1. r[x].num = bc.num + x /\ r[x].prev = IF x = 1 THEN bc.id ELSE r[x - 1].id
    BY Zenon DEF Behind
  <2>2. s[j] = r[x]
    BY Zenon, <1>2, <1>6
  <2>3. x \in Nat
    OBVIOUS
  <2>4. (tip.num + Len(q)) + x = tip.num + j
    <3>1. Len(q) \in Nat
      OBVIOUS
    <3> QED
      BY <1>3, <1>6, <2>3, <3>1
  <2>5. s[j].num = tip.num + j
    BY Zenon, <1>4, <2>1, <2>2, <2>4
  <2>6. CASE x = 1 /\ q = <<>>
    <3>1. j = 1
      BY <1>6, <2>6
    <3> QED
      BY Zenon, <1>4, <2>1, <2>2, <2>5, <2>6, <3>1
  <2>7. CASE x = 1 /\ q # <<>>
    <3>1. j # 1 /\ j - 1 = Len(q) /\ Len(q) \in 1..Len(q)
      BY <1>2, <1>6, <2>7
    <3>2. s[j - 1] = q[Len(q)]
      BY Zenon, <1>2, <3>1
    <3> QED
      BY Zenon, <1>4, <2>1, <2>2, <2>5, <2>7, <3>1, <3>2
  <2>8. CASE x # 1
    <3>1. j # 1 /\ j - 1 = Len(q) + (x - 1) /\ x - 1 \in 1..k
      BY <1>2, <1>6, <2>8
    <3>2. s[j - 1] = r[x - 1]
      BY Zenon, <1>2, <3>1
    <3> QED
      BY Zenon, <2>1, <2>2, <2>5, <2>8, <3>1, <3>2
  <2> QED
    BY Zenon, <2>6, <2>7, <2>8
<1>7. ASSUME NEW j \in 1..Len(s)
      PROVE  s[j].num = tip.num + j /\ s[j].prev = IF j = 1 THEN tip.id ELSE s[j - 1].id
  <2>1. CASE j <= Len(q)
    <3>1. j \in 1..Len(q)
      BY <1>2, <2>1
    <3> QED
      BY Zenon, <1>5, <3>1
  <2>2. CASE ~(j <= Len(q))
    <3>1. PICK x \in 1..k : j = Len(q) + x /\ j \in Nat
      <4>1. j - Len(q) \in 1..k /\ j = Len(q) + (j - Len(q)) /\ j \in Nat
        BY <1>2, <2>2
      <4> QED
        BY Zenon, <4>1
    <3> QED
      BY Zenon, <1>6, <3>1
  <2> QED
    BY Zenon, <2>1, <2>2
<1>8. last.num = tip.num + Len(s) /\ last.id = IF s = <<>> THEN tip.id ELSE s[Len(s)].id
  <2>1. CASE k = 0
    <3>1. Len(s) = Len(q)
      BY <1>2, <2>1
    <3>2. CASE q = <<>>
      <4>1. s = <<>>
        BY <1>2, <3>1, <3>2
      <4> QED
        BY Zenon, <1>4, <2>1, <3>1, <3>2, <4>1
    <3>3. CASE q # <<>>
      <4>1. Len(q) \in 1..Len(q) /\ s # <<>>
        BY <1>2, <3>1, <3>3
      <4>2. s[Len(s)] = q[Len(q)]
        BY Zenon, <1>2, <3>1, <4>1
      <4> QED
        BY Zenon, <1>4, <2>1, <3>1, <3>3, <4>1, <4>2
    <3> QED
      BY Zenon, <3>2, <3>3
  <2>2. CASE k # 0
    <3>1. k \in 1..k /\ s # <<>>
      BY <1>2, <2>2
    <3>2. s[Len(s)] = r[k] /\ r[k].num = bc.num + k
      BY Zenon, <1>2, <3>1 DEF Behind
    <3>3. (tip.num + Len(q)) + k = tip.num + Len(s)
      <4>1. Len(s) = Len(q) + k /\ Len(q) \in Nat
        BY Zenon, <1>2
      <4> QED
        BY <1>3, <4>1
    <3>4. r[k].num = tip.num + Len(s)
      BY Zenon, <1>4, <3>2, <3>3
    <3> QED
      BY Zenon, <2>2, <3>1, <3>2, <3>4
  <2> QED
    BY Zenon, <2>1, <2>2
<1> QED
  BY Zenon, <1>7, <1>8 DEF Linked, s

(* What a serving leader has before it creates k blocks.                   *)
Orders(n, c, k, config) ==
    /\ c \in Run /\ k \in Nat /\ config \in BOOLEAN
    /\ c.leads /\ ~c.justElected /\ ~c.configInflight /\ (config => ~c.accepting /\ ~c.pending)
    /\ ch[n].leads /\ ~ch[n].justElected /\ ~ch[n].configInflight
    /\ c.propC = ch[n].propC /\ c.bc = ch[n].bc /\ c.blockInflight = ch[n].blockInflight
    /\ c.proposer = ch[n].proposer /\ c.delivered = ch[n].delivered
    /\ c.appliedIndex = ch[n].appliedIndex

(* The queue of a leader that has created blocks.                          *)
LEMMA QueueGrows ==
    ASSUME NEW l \in Seq(Entry), NEW c \in Run, QueueInv(c, l), c.leads, ~c.justElected,
           ~c.configInflight, NEW k \in Nat, NEW config \in BOOLEAN, NEW r, Behind(c.bc, k, config, r),
           NEW d, d.propC = c.propC \o r, d.bc = (IF k = 0 THEN c.bc ELSE r[k]),
           d.configInflight = config, d.proposer = c.proposer, d.appliedIndex = c.appliedIndex
    PROVE  QueueInv(d, l)
<1>1. c.propC \in Seq(Block) /\ c.bc \in Block
  BY Zenon DEF Run
<1>2. r \in Seq(Block) /\ Len(r) = k
  BY Zenon DEF Behind
<1>3. /\ Len(d.propC) = Len(c.propC) + k /\ Len(c.propC) \in Nat
      /\ (\A j \in 1..Len(c.propC) : d.propC[j] = c.propC[j])
      /\ \A j \in 1..k : d.propC[Len(c.propC) + j] = r[j]
  <2>1. /\ Len(c.propC \o r) = Len(c.propC) + Len(r) /\ Len(c.propC) \in Nat
        /\ \A j \in 1..Len(c.propC) : (c.propC \o r)[j] = c.propC[j]
        /\ \A j \in 1..Len(r) : (c.propC \o r)[Len(c.propC) + j] = r[j]
    BY Zenon, <1>1, <1>2, JoinIs
  <2> QED
    BY Zenon, <1>2, <2>1
<1>4. PICK j \in 0..Len(l) :
         /\ Tip(l, Len(l), j) /\ BlockOf(l, j).num <= c.bc.num
         /\ c.proposer = "runs" => Linked(BlockOf(l, j), c.propC, c.bc)
  BY Zenon DEF QueueInv
<1>5. BlockOf(l, j) \in Block /\ BlockOf(l, j).num \in Nat
  BY Zenon, BlockOfType
<1>6. d.bc.num >= c.bc.num /\ c.bc.num \in Nat /\ d.bc.num \in Nat
  <2>1. c.bc.num \in Nat
    BY Zenon, <1>1 DEF Block
  <2>2. CASE k = 0
    <3>1. d.bc = c.bc
      BY Zenon, <2>2
    <3> QED
      BY <2>1, <3>1
  <2>3. CASE k # 0
    <3>1. k \in 1..k
      BY <2>3
    <3>2. d.bc.num = c.bc.num + k
      BY Zenon, <2>3, <3>1 DEF Behind
    <3> QED
      BY <2>1, <3>2
  <2> QED
    BY Zenon, <2>2, <2>3
<1>7. BlockOf(l, j).num <= d.bc.num
  BY <1>4, <1>5, <1>6
<1>8. d.proposer = "runs" => Linked(BlockOf(l, j), d.propC, d.bc)
  BY Zenon, <1>1, <1>4, <1>5, LinkedJoins
<1>9. \A i \in (d.appliedIndex + 1)..Len(l) : ~l[i].block.config
  BY Zenon DEF QueueInv
<1>10. ASSUME NEW x \in 1..Len(d.propC), d.propC[x].config PROVE d.configInflight /\ x = Len(d.propC)
  <2>1. CASE x <= Len(c.propC)
    <3>1. x \in 1..Len(c.propC)
      BY <1>3, <2>1
    <3>2. c.propC[x].config
      BY Zenon, <1>3, <1>10, <3>1
    <3> QED
      BY Zenon, <3>1, <3>2 DEF QueueInv
  <2>2. CASE ~(x <= Len(c.propC))
    <3>1. PICK y \in 1..k : x = Len(c.propC) + y
      <4>1. x - Len(c.propC) \in 1..k /\ x = Len(c.propC) + (x - Len(c.propC))
        BY <1>3, <2>2
      <4> QED
        BY Zenon, <4>1
    <3>2. r[y].config /\ r[y].config = (config /\ y = k)
      BY Zenon, <1>3, <1>10, <3>1 DEF Behind
    <3> QED
      BY Zenon, <1>3, <3>1, <3>2
  <2> QED
    BY Zenon, <2>1, <2>2
<1> QED
  BY Zenon, <1>4, <1>7, <1>8, <1>9, <1>10 DEF QueueInv

LEMMA OrdersKeeps ==
    ASSUME Majorities, RInv, NEW n \in Electable, NEW c, NEW k, NEW config, Orders(n, c, k, config),
           propose(n, c, k, config)
    PROVE  RInv'
<1> DEFINE r == NewBlocks(c.bc, k, config)
           bc == IF k = 0 THEN c.bc ELSE r[k]
           d == [c EXCEPT !.propC = c.propC \o r, !.blockInflight = c.blockInflight + k,
                          !.configInflight = c.configInflight \/ config, !.bc = bc]
<1>1. TypeInv /\ RaftInv /\ ChainsInv /\ NodeInv(n) /\ "gap" \notin panics /\ made \in Nat
  BY Zenon DEF RInv, TypeInv
<1>2. /\ c \in Run /\ k \in Nat /\ config \in BOOLEAN
      /\ c.leads /\ ~c.justElected /\ ~c.configInflight /\ (config => ~c.accepting /\ ~c.pending)
      /\ ch[n].leads /\ ~ch[n].justElected /\ ~ch[n].configInflight
      /\ c.propC = ch[n].propC /\ c.bc = ch[n].bc /\ c.blockInflight = ch[n].blockInflight
      /\ c.proposer = ch[n].proposer /\ c.delivered = ch[n].delivered
      /\ c.appliedIndex = ch[n].appliedIndex
  BY Zenon DEF Orders
<1>3. made' = made + k
  BY Zenon DEF propose
<1>4. made' \in Nat
  BY <1>1, <1>2, <1>3
<1>5. CASE panics' = panics \cup {"full"} /\ Restart(n)
  <2>1. "gap" \notin panics'
    BY Zenon, <1>1, <1>5
  <2> QED
    BY Zenon, <1>4, <1>5, <2>1, RestartKeeps
<1>6. CASE /\ ch' = [ch EXCEPT ![n] =
                 [c EXCEPT !.propC = c.propC \o r, !.blockInflight = @ + k,
                           !.configInflight = @ \/ config, !.bc = IF k = 0 THEN @ ELSE r[k]]]
           /\ UNCHANGED <<raftVars, ledger, writing, panics>>
  <2>1. /\ term' = term /\ log' = log /\ leaders' = leaders /\ committed' = committed
        /\ ledger' = ledger /\ panics' = panics
    BY Zenon, <1>6 DEF raftVars
  <2>2. c.propC \in Seq(Block) /\ c.bc \in Block /\ c.blockInflight \in Nat
    BY Zenon, <1>2 DEF Run
  <2>3. Behind(c.bc, k, config, r)
    BY Zenon, <1>1, <1>2, <2>2, NewBlocksIs
  <2> HIDE DEF r
  <2>4. r \in Seq(Block) /\ Len(r) = k
    BY Zenon, <2>3 DEF Behind
  <2>5. c.propC \o r \in Seq(Block)
    BY Zenon, <2>2, <2>4, JoinIs
  <2>6. bc \in Block /\ bc.num = c.bc.num + k
    <3>1. c.bc.num \in Nat
      BY Zenon, <2>2 DEF Block
    <3>2. CASE k = 0
      BY <2>2, <3>1, <3>2
    <3>3. CASE k # 0
      <4>1. k \in 1..k
        BY <1>2, <3>3
      <4>2. r[k].num = c.bc.num + k
        BY Zenon, <2>3, <4>1 DEF Behind
      <4>3. r[k] \in Block
        BY <2>4, <4>1
      <4> QED
        BY Zenon, <3>3, <4>2, <4>3
    <3> QED
      BY Zenon, <3>2, <3>3
  <2>7. ch' = [ch EXCEPT ![n] = d]
    <3>1. [c EXCEPT !.propC = c.propC \o r, !.blockInflight = @ + k,
                    !.configInflight = @ \/ config, !.bc = IF k = 0 THEN @ ELSE r[k]] = d
      BY Zenon, <1>2 DEF Run
    <3> QED
      BY Zenon, <1>6, <3>1
  <2> HIDE DEF bc
  <2>8. /\ d \in Run /\ d.propC = c.propC \o r /\ d.blockInflight = c.blockInflight + k
        /\ d.configInflight = config /\ d.bc = bc /\ d.leads = c.leads /\ d.justElected = c.justElected
        /\ d.accepting = c.accepting /\ d.pending = c.pending /\ d.proposer = c.proposer
        /\ d.delivered = c.delivered /\ d.appliedIndex = c.appliedIndex
    <3> DEFINE q == c.propC \o r
               y == c.blockInflight + k
               z == c.configInflight \/ config
    <3>1. q \in Seq(Block) /\ y \in Nat /\ z \in BOOLEAN /\ z = config
      BY <1>2, <2>2, <2>5
    <3> HIDE DEF q, y, z
    <3>2. d = [c EXCEPT !.propC = q, !.blockInflight = y, !.configInflight = z, !.bc = bc]
      BY Zenon DEF q, y, z
    <3>3. /\ d \in Run /\ d.propC = q /\ d.blockInflight = y
          /\ d.configInflight = z /\ d.bc = bc /\ d.leads = c.leads /\ d.justElected = c.justElected
          /\ d.accepting = c.accepting /\ d.pending = c.pending /\ d.proposer = c.proposer
          /\ d.delivered = c.delivered /\ d.appliedIndex = c.appliedIndex
      <4> HIDE DEF d
      <4> QED
        BY Zenon, <1>2, <2>6, <3>1, <3>2 DEF Run
    <3> QED
      BY Zenon, <3>1, <3>3 DEF q, y
  <2> HIDE DEF d
  <2>9. ch' \in [Electable -> Run] /\ ch'[n] = d /\ \A j \in Electable \ {n} : ch'[j] = ch[j]
    BY Zenon, <1>1, <2>7, <2>8, ChainSet
  <2>10. TypeInv' /\ RaftInv' /\ ChainsInv'
    BY Zenon, <1>1, <1>4, <2>1, <2>9, ShrinkRaft DEF TypeInv, ChainsInv
  <2>11. AppliedInv(n)'
    BY Zenon, <1>1, <1>2, <2>1, <2>8, <2>9 DEF NodeInv, AppliedInv
  <2>12. RunInv(ch'[n], lastBlock(n)')
    <3>1. lastBlock(n)' = lastBlock(n)
      BY Zenon, <2>1 DEF lastBlock
    <3>2. c.blockInflight = c.bc.num - lastBlock(n).num
      BY Zenon, <1>1, <1>2 DEF NodeInv, RunInv
    <3>3. lastBlock(n).num \in Nat /\ c.bc.num \in Nat
      BY Zenon, <1>1, <1>2, LastBlockType, RunTypes
    <3>4. d.blockInflight = d.bc.num - lastBlock(n).num
      BY <1>2, <2>6, <2>8, <3>2, <3>3
    <3> QED
      <4>1. d.leads /\ ~d.justElected /\ (d.configInflight => ~d.accepting /\ ~d.pending)
        BY Zenon, <1>2, <2>8
      <4>2. RunInv(d, lastBlock(n))
        BY Zenon, <3>4, <4>1, RunOrders
      <4> QED
        BY Zenon, <2>9, <3>1, <4>2
  <2>13. ASSUME n \in leaders PROVE QueueInv(d, log[n])
    <3>1. QueueInv(ch[n], log[n])
      BY Zenon, <1>1, <2>13 DEF NodeInv
    <3>2. ch[n] \in Run /\ log[n] \in Seq(Entry)
      BY Zenon, <1>1, RunTypes, NodeTypes
    <3>3. d.bc = IF k = 0 THEN c.bc ELSE r[k]
      BY Zenon, <2>8 DEF bc
    <3>4. Behind(ch[n].bc, k, config, r) /\ d.propC = ch[n].propC \o r
          /\ d.bc = (IF k = 0 THEN ch[n].bc ELSE r[k])
          /\ d.proposer = ch[n].proposer /\ d.appliedIndex = ch[n].appliedIndex
      BY Zenon, <1>2, <2>3, <2>8, <3>3
    <3> QED
      BY Zenon, <1>2, <2>8, <3>1, <3>2, <3>4, QueueGrows
  <2>14. NodeInv(n)'
    BY Zenon, <2>1, <2>9, <2>11, <2>12, <2>13 DEF NodeInv
  <2> QED
    BY Zenon, <1>1, <2>1, <2>9, <2>10, <2>14, NodeMoves
<1> QED
  BY Zenon, <1>5, <1>6 DEF propose

-----------------------------------------------------------------------------
(* The cases of run that create blocks.                                    *)

(* A node that serves, or has messages pending, is a leader whose log is   *)
(* applied, and no config block is in flight.                              *)
LEMMA ServesIs ==
    ASSUME RInv, NEW n \in Electable, Serves(n) \/ ch[n].pending
    PROVE  ch[n] \in Run /\ ch[n].leads /\ ~ch[n].justElected /\ ~ch[n].configInflight
<1>1. ch[n] \in Run /\ RunInv(ch[n], lastBlock(n))
  BY Zenon, RunTypes DEF RInv, NodeInv
<1>2. ch[n].leads
  BY Zenon, <1>1 DEF RunInv, Serves
<1>3. ~ch[n].justElected
  BY Zenon, <1>1, <1>2 DEF RunInv, Serves
<1>4. ~ch[n].configInflight
  BY Zenon, <1>1, <1>2, <1>3 DEF RunInv, Serves
<1> QED
  BY Zenon, <1>1, <1>2, <1>3, <1>4

(* What the loop of run leaves alone of a leader when it orders.           *)
Alike(d, c) ==
    /\ d.leads = c.leads /\ d.justElected = c.justElected
    /\ d.configInflight = c.configInflight /\ d.blockInflight = c.blockInflight
    /\ d.bc = c.bc /\ d.propC = c.propC /\ d.proposer = c.proposer
    /\ d.delivered = c.delivered /\ d.appliedIndex = c.appliedIndex

LEMMA PendingIs ==
    ASSUME NEW c \in Run, NEW p \in BOOLEAN
    PROVE  LET d == [c EXCEPT !.pending = p] IN d \in Run /\ d.pending = p /\ Alike(d, c)
  BY Zenon DEF Run, Alike

LEMMA AfterSubmitIs ==
    ASSUME NEW c \in Run, NEW k, NEW config \in BOOLEAN
    PROVE  LET d == AfterSubmit(c, k, config) IN
           d \in Run /\ (config => ~d.accepting) /\ d.pending = c.pending /\ Alike(d, c)
<1> DEFINE a == ~(c.configInflight \/ config \/ c.blockInflight + k >= MaxInflightBlocks)
<1>1. a \in BOOLEAN /\ (config => ~a)
  BY Zenon
<1>2. AfterSubmit(c, k, config) = [c EXCEPT !.accepting = a]
  BY Zenon DEF AfterSubmit
<1> HIDE DEF a
<1> QED
  BY Zenon, <1>1, <1>2 DEF Run, Alike

LEMMA CutsAre ==
    ASSUME NEW pending, NEW cut \in Cuts(pending) PROVE cut[1] \in Nat /\ cut[2] \in BOOLEAN
<1>1. cut = <<0, TRUE>> \/ cut = <<1, FALSE>> \/ cut = <<1, TRUE>> \/ cut = <<2, FALSE>>
  BY Zenon DEF Cuts
<1>2. CASE cut = <<0, TRUE>>
  BY Zenon, <1>2
<1>3. CASE cut = <<1, FALSE>>
  BY Zenon, <1>3
<1>4. CASE cut = <<1, TRUE>>
  BY Zenon, <1>4
<1>5. CASE cut = <<2, FALSE>>
  BY Zenon, <1>5
<1> QED
  BY Zenon, <1>1, <1>2, <1>3, <1>4, <1>5

LEMMA SubmitKeeps ==
    ASSUME Majorities, RInv, NEW n \in Electable, Submit(n) PROVE RInv'
<1>1. PICK cut \in Cuts(ch[n].pending) :
         /\ Serves(n)
         /\ propose(n, AfterSubmit([ch[n] EXCEPT !.pending = cut[2]], cut[1], FALSE), cut[1], FALSE)
  BY Zenon DEF Submit
<1>2. cut[1] \in Nat /\ cut[2] \in BOOLEAN
  BY Zenon, CutsAre
<1>3. ch[n] \in Run /\ ch[n].leads /\ ~ch[n].justElected /\ ~ch[n].configInflight
  BY Zenon, <1>1, ServesIs
<1> DEFINE e == [ch[n] EXCEPT !.pending = cut[2]]
           c == AfterSubmit(e, cut[1], FALSE)
<1>4. e \in Run /\ Alike(e, ch[n])
  BY Zenon, <1>2, <1>3, PendingIs
<1> HIDE DEF e
<1>5. c \in Run /\ Alike(c, e)
  <2>1. FALSE \in BOOLEAN
    BY Zenon
  <2> QED
    BY Zenon, <1>4, <2>1, AfterSubmitIs
<1> HIDE DEF c
<1>6. Orders(n, c, cut[1], FALSE)
  BY Zenon, <1>2, <1>3, <1>4, <1>5 DEF Orders, Alike
<1> QED
  BY Zenon, <1>1, <1>6, OrdersKeeps DEF c, e

LEMMA SubmitConfigKeeps ==
    ASSUME Majorities, RInv, NEW n \in Electable, SubmitConfig(n) PROVE RInv'
<1> DEFINE k == IF ch[n].pending THEN 2 ELSE 1
           e == [ch[n] EXCEPT !.pending = FALSE]
           c == AfterSubmit(e, k, TRUE)
<1>1. Serves(n) /\ propose(n, c, k, TRUE)
  BY Zenon DEF SubmitConfig
<1>2. k \in Nat
  BY Zenon
<1>3. ch[n] \in Run /\ ch[n].leads /\ ~ch[n].justElected /\ ~ch[n].configInflight
  BY Zenon, <1>1, ServesIs
<1> HIDE DEF k
<1>4. e \in Run /\ ~e.pending /\ Alike(e, ch[n])
  BY Zenon, <1>3, PendingIs
<1> HIDE DEF e
<1>5. c \in Run /\ c.pending = e.pending /\ ~c.accepting /\ Alike(c, e)
  BY Zenon, <1>4, AfterSubmitIs
<1> HIDE DEF c
<1>6. Orders(n, c, k, TRUE)
  BY Zenon, <1>2, <1>3, <1>4, <1>5 DEF Orders, Alike
<1> QED
  BY Zenon, <1>1, <1>6, OrdersKeeps

LEMMA BatchTimerKeeps ==
    ASSUME Majorities, RInv, NEW n \in Electable, BatchTimer(n) PROVE RInv'
<1> DEFINE c == [ch[n] EXCEPT !.pending = FALSE]
<1>1. ch[n].pending /\ propose(n, c, 1, FALSE)
  BY Zenon DEF BatchTimer
<1>2. ch[n] \in Run /\ ch[n].leads /\ ~ch[n].justElected /\ ~ch[n].configInflight
  BY Zenon, <1>1, ServesIs
<1>3. c \in Run /\ Alike(c, ch[n])
  BY Zenon, <1>2, PendingIs
<1> HIDE DEF c
<1>4. 1 \in Nat
  BY Zenon
<1>5. Orders(n, c, 1, FALSE)
  BY Zenon, <1>2, <1>3, <1>4 DEF Orders, Alike
<1> QED
  BY Zenon, <1>1, <1>5, OrdersKeeps

-----------------------------------------------------------------------------
(* The invariant, and what follows from it.                                *)

LEMMA InitRInv == ASSUME Init PROVE RInv
<1>1. /\ term = [n \in Nodes |-> 0] /\ log = [n \in Nodes |-> <<>>] /\ leaders = {} /\ committed = <<>>
      /\ ch = [n \in Electable |-> NewChain(0)] /\ ledger = [n \in Electable |-> <<Genesis>>]
      /\ panics = {} /\ made = 0
  BY Zenon DEF Init
<1>2. /\ NewChain(0) \in Run /\ ~NewChain(0).leads /\ NewChain(0).propC = <<>>
      /\ NewChain(0).proposer = "none" /\ ~NewChain(0).pending
      /\ NewChain(0).delivered = 0 /\ NewChain(0).appliedIndex = 0
  BY Zenon, NewChainIs
<1>3. Genesis \in Written /\ Genesis.block = None /\ Genesis.index = 0
  BY Zenon, NoneType DEF Genesis, Written
<1>4. <<Genesis>> \in Seq(Written) /\ Len(<<Genesis>>) = 1 /\ <<Genesis>>[1] = Genesis
  BY <1>3
<1>5. TypeInv
  BY <1>1, <1>2, <1>4 DEF TypeInv
<1>6. \A m \in Nodes : term[m] = 0 /\ log[m] = <<>> /\ Len(log[m]) = 0 /\ 1..Len(log[m]) = {}
  BY <1>1
<1>7. RaftInv
  <2>1. LogsInv /\ ChainsInv
    BY Zenon, <1>6 DEF LogsInv, Ordered, Match, ChainsInv, Chained
  <2>2. LeadersInv /\ CommittedInv
    BY Zenon, <1>1 DEF LeadersInv, CommittedInv
  <2>3. TermsInv
    BY <1>6 DEF TermsInv
  <2> QED
    BY Zenon, <2>1, <2>2, <2>3 DEF RaftInv
<1>8. ChainsInv
  BY Zenon, <1>6 DEF ChainsInv, Chained
<1>9. ASSUME NEW n \in Electable PROVE NodeInv(n)
  <2>1. ch[n] = NewChain(0) /\ ledger[n] = <<Genesis>> /\ n \notin leaders
    BY Zenon, <1>1
  <2>2. LedgerIs(<<Genesis>>, committed, 0)
    <3>1. Tip(committed, 0, 0)
      BY DEF Tip
    <3>2. ASSUME NEW k \in 1..1
          PROVE  <<Genesis>>[k] = Genesis /\ 0 \in 0..0 /\ None.num = k - 1 /\ ~(k > 1)
      BY <1>4, NoneType
    <3>3. 1 >= 1 /\ BlockOf(committed, 0) = None
      BY DEF BlockOf
    <3> QED
      BY Zenon, <1>3, <1>4, <3>1, <3>2, <3>3 DEF LedgerIs
  <2>3. 0 <= 0 /\ 0 <= Len(committed)
    BY <1>1
  <2>4. AppliedInv(n)
    BY Zenon, <1>2, <2>1, <2>2, <2>3 DEF AppliedInv
  <2>5. RunInv(ch[n], lastBlock(n))
    BY Zenon, <1>2, <2>1 DEF RunInv
  <2> QED
    BY Zenon, <2>1, <2>4, <2>5 DEF NodeInv
<1> QED
  BY Zenon, <1>1, <1>5, <1>7, <1>8, <1>9 DEF RInv

LEMMA NextRInv == ASSUME Majorities, RInv, [Next]_vars PROVE RInv'
<1>1. ASSUME NEW n \in Electable, StepDown(n) \/ TransferEnds(n) \/ Abdicate(n) PROVE RInv'
  <2>1. /\ leaders' \subseteq leaders /\ term' = term /\ log' = log /\ committed' = committed
        /\ ch' = ch /\ ledger' = ledger /\ panics' = panics /\ made' = made
    BY Zenon, <1>1 DEF StepDown, TransferEnds, Abdicate, boundVars
  <2> QED
    BY Zenon, <2>1, LeaderKeeps
<1>2. ASSUME NEW n \in Electable, Crash(n) PROVE RInv'
  <2>1. Restart(n) /\ panics' = panics /\ made' = made
    BY Zenon, <1>2 DEF Crash
  <2>2. made \in Nat /\ "gap" \notin panics
    BY Zenon DEF RInv, TypeInv
  <2> QED
    BY Zenon, <2>1, <2>2, RestartKeeps
<1>3. ASSUME Raft PROVE RInv'
  BY Zenon, <1>1, <1>3, CommitKeeps, ReplicateKeeps, ElectKeeps DEF Raft
<1>4. ASSUME NEW n \in Electable, Chain(n) PROVE RInv'
  BY Zenon, <1>1, <1>2, <1>4, ApplySoftKeeps, ApplyKeeps, SubmitKeeps, SubmitConfigKeeps,
     BatchTimerKeeps, ProposeKeeps, ProposeDroppedKeeps DEF Chain
<1>5. ASSUME UNCHANGED vars PROVE RInv'
  <2>1. /\ leaders' = leaders /\ term' = term /\ log' = log /\ committed' = committed
        /\ ch' = ch /\ ledger' = ledger /\ panics' = panics /\ made' = made
    BY Zenon, <1>5 DEF vars, raftVars, boundVars
  <2> QED
    BY Zenon, <2>1, LeaderKeeps
<1> QED
  BY Zenon, <1>3, <1>4, <1>5, CatchUpKeeps DEF Next

LEMMA SpecRInv == Majorities => (Spec => []RInv)
<1> SUFFICES ASSUME Majorities PROVE Spec => []RInv
  BY Zenon
<1>1. Init => RInv
  BY Zenon, InitRInv
<1>2. RInv /\ [Next]_vars => RInv'
  BY Zenon, NextRInv
<1> QED
  BY <1>1, <1>2, PTL DEF Spec

(* Blocks that raft has applied on two nodes are the same.                 *)
LEMMA LedgersFollow == ASSUME Majorities, RInv PROVE LedgersAgree
<1>1. Chained(committed) /\ committed \in Seq(Entry)
  BY Zenon, CommittedChained DEF RInv
<1>2. ASSUME NEW n \in Electable
      PROVE  /\ ledger[n] \in Seq(Written) /\ ch[n].appliedIndex \in 0..Len(committed)
             /\ LedgerIs(ledger[n], committed, ch[n].appliedIndex)
  <2>1. /\ ledger[n] \in Seq(Written) /\ ch[n].appliedIndex \in Nat
        /\ ch[n].appliedIndex <= Len(committed) /\ LedgerIs(ledger[n], committed, ch[n].appliedIndex)
    BY Zenon, RunTypes DEF RInv, NodeInv, AppliedInv
  <2> QED
    BY <1>1, <2>1
<1>3. ASSUME NEW n \in Electable, NEW m \in Electable, NEW i \in 1..Len(ledger[n]), i <= Len(ledger[m])
      PROVE  ledger[n][i] = ledger[m][i]
  BY Zenon, <1>1, <1>2, <1>3, LedgersSame
<1>4. ASSUME NEW n \in Electable, NEW i \in 1..Len(ledger[n]), i > 1
      PROVE  ledger[n][i].block.prev = ledger[n][i - 1].block.id
  BY Zenon, <1>2, <1>4 DEF LedgerIs
<1> QED
  BY Zenon, <1>3, <1>4 DEF LedgersAgree

LEMMA InflightFollows == ASSUME RInv PROVE InflightExact
  BY Zenon DEF RInv, NodeInv, RunInv, InflightExact

(* What is in flight of a leader: the entries behind those applied, and    *)
(* the queue behind them.                                                  *)
Flight(l, a, q, s) ==
    /\ Len(s) = (Len(l) - a) + Len(q)
    /\ \A i \in 1..(Len(l) - a) : s[i] = l[a + i]
    /\ \A i \in 1..Len(q) : s[(Len(l) - a) + i].block = q[i]

LEMMA EntriesJoin ==
    ASSUME NEW u \in Seq(Entry), NEW r \in Seq(Entry)
    PROVE  /\ Len(u \o r) = Len(u) + Len(r) /\ (\A i \in 1..Len(u) : (u \o r)[i] = u[i])
           /\ \A i \in 1..Len(r) : (u \o r)[Len(u) + i] = r[i]
  OBVIOUS

LEMMA RestIs ==
    ASSUME NEW l \in Seq(Entry), NEW a \in Nat, a <= Len(l)
    PROVE  LET u == SubSeq(l, a + 1, Len(l)) IN
           u \in Seq(Entry) /\ Len(u) = Len(l) - a /\ \A i \in 1..(Len(l) - a) : u[i] = l[a + i]
<1>1. SubSeq(l, a + 1, Len(l)) \in Seq(Entry)
  OBVIOUS
<1>2. Len(SubSeq(l, a + 1, Len(l))) = Len(l) - a
  OBVIOUS
<1>3. \A i \in 1..(Len(l) - a) : SubSeq(l, a + 1, Len(l))[i] = l[a + i]
  OBVIOUS
<1> QED
  BY Zenon, <1>1, <1>2, <1>3

LEMMA InFlightIs ==
    ASSUME NEW l \in Seq(Entry), NEW a \in Nat, a <= Len(l), NEW q \in Seq(Block), NEW t \in Nat
    PROVE  Flight(l, a, q, SubSeq(l, a + 1, Len(l)) \o [i \in 1..Len(q) |-> [term |-> t, block |-> q[i]]])
<1> DEFINE r == [i \in 1..Len(q) |-> [term |-> t, block |-> q[i]]]
           u == SubSeq(l, a + 1, Len(l))
<1>1. u \in Seq(Entry) /\ Len(u) = Len(l) - a /\ \A i \in 1..(Len(l) - a) : u[i] = l[a + i]
  BY Zenon, RestIs
<1>2. ASSUME NEW i \in 1..Len(q) PROVE [term |-> t, block |-> q[i]] \in Entry
  BY DEF Entry
<1>3. r \in Seq(Entry) /\ Len(r) = Len(q) /\ \A i \in 1..Len(q) : r[i].block = q[i]
  <2>1. r \in Seq(Entry) /\ Len(r) = Len(q)
    BY <1>2
  <2> QED
    BY Zenon, <2>1
<1> HIDE DEF r, u
<1>4. /\ Len(u \o r) = Len(u) + Len(r) /\ (\A i \in 1..Len(u) : (u \o r)[i] = u[i])
      /\ \A i \in 1..Len(r) : (u \o r)[Len(u) + i] = r[i]
  BY Zenon, <1>1, <1>3, EntriesJoin
<1>5. Flight(l, a, q, u \o r)
  BY Zenon, <1>1, <1>3, <1>4 DEF Flight
<1> QED
  BY Zenon, <1>5 DEF r, u

LEMMA ConfigFollows == ASSUME RInv PROVE ConfigAlone
<1> SUFFICES ASSUME NEW n \in leaders, ch[n].leads, ~ch[n].justElected
             PROVE  LET c == ch[n]
                        queued == [i \in 1..Len(c.propC) |-> [term |-> term[n], block |-> c.propC[i]]]
                        inFlight == SubSeq(log[n], c.appliedIndex + 1, Len(log[n])) \o queued
                    IN  \A i \in 1..Len(inFlight) : inFlight[i].block.config => i = Len(inFlight)
  BY Zenon DEF ConfigAlone
<1> DEFINE c == ch[n]
           q == c.propC
           l == log[n]
           a == c.appliedIndex
           queued == [i \in 1..Len(q) |-> [term |-> term[n], block |-> q[i]]]
           s == SubSeq(l, a + 1, Len(l)) \o queued
<1>1. TypeInv /\ n \in Electable /\ NodeInv(n)
  BY Zenon DEF RInv, TypeInv
<1>2. /\ l \in Seq(Entry) /\ a \in Nat /\ a <= Len(l) /\ q \in Seq(Block) /\ term[n] \in Nat
      /\ QueueInv(c, l)
  BY Zenon, <1>1, RunTypes, NodeTypes DEF NodeInv, AppliedInv
<1>3. /\ Len(s) = (Len(l) - a) + Len(q)
      /\ \A i \in 1..(Len(l) - a) : s[i] = l[a + i]
      /\ \A i \in 1..Len(q) : s[(Len(l) - a) + i].block = q[i]
  <2>1. Flight(l, a, q, s)
    BY Zenon, <1>2, InFlightIs
  <2> QED
    BY Zenon, <2>1 DEF Flight
<1> HIDE DEF s, c, l, a, q
<1>4. /\ \A i \in (a + 1)..Len(l) : l[i].block.config => i = Len(l) /\ q = <<>>
      /\ \A j \in 1..Len(q) : q[j].config => j = Len(q)
  BY Zenon, <1>2 DEF QueueInv, c, q, a
<1>5. ASSUME NEW i \in 1..Len(s), s[i].block.config PROVE i = Len(s)
  <2>1. Len(l) \in Nat /\ Len(q) \in Nat
    BY <1>2
  <2>2. CASE i <= Len(l) - a
    <3>1. i \in 1..(Len(l) - a) /\ a + i \in (a + 1)..Len(l)
      BY <1>2, <2>1, <2>2
    <3>2. l[a + i].block.config
      BY Zenon, <1>3, <1>5, <3>1
    <3>3. a + i = Len(l) /\ q = <<>>
      BY Zenon, <1>4, <3>1, <3>2
    <3>4. Len(q) = 0 /\ Len(s) = (Len(l) - a) + Len(q)
      BY Zenon, <1>3, <3>3
    <3> QED
      BY <1>2, <2>1, <3>3, <3>4
  <2>3. CASE ~(i <= Len(l) - a)
    <3>1. PICK j \in 1..Len(q) : i = (Len(l) - a) + j
      <4>1. i - (Len(l) - a) \in 1..Len(q) /\ i = (Len(l) - a) + (i - (Len(l) - a))
        BY <1>2, <1>3, <2>1, <2>3
      <4> QED
        BY Zenon, <4>1
    <3>2. j = Len(q)
      BY Zenon, <1>3, <1>4, <1>5, <3>1
    <3> QED
      BY Zenon, <1>3, <3>1, <3>2
  <2> QED
    BY Zenon, <2>2, <2>3
<1> QED
  BY Zenon, <1>5 DEF s, c, l, a, q

(* The nodes are finite, so two majorities of them share a node: half the  *)
(* nodes, counted twice, are not more than all of them.                    *)
INSTANCE FiniteSetTheorems

LEMMA MajoritiesMeet == Majorities
<1> SUFFICES ASSUME NEW Q \in SUBSET Nodes, NEW M \in SUBSET Nodes, Quorum(Q), Quorum(M), Q \cap M = {}
             PROVE  FALSE
  BY Zenon DEF Majorities
<1>1. IsFiniteSet(Nodes) /\ IsFiniteSet(Q) /\ IsFiniteSet(M)
  BY Zenon, RaftAssumption, FS_Subset
<1>2. Cardinality(Nodes) \in Nat /\ Cardinality(Q) \in Nat /\ Cardinality(M) \in Nat
  BY Zenon, <1>1, FS_CardinalityType
<1>3. /\ IsFiniteSet(Q \cup M)
      /\ Cardinality(Q \cup M) = Cardinality(Q) + Cardinality(M) - Cardinality(Q \cap M)
  BY Zenon, <1>1, FS_Union
<1>4. Cardinality(Q \cap M) = 0
  BY Zenon, FS_EmptySet
<1>5. Cardinality(Q \cup M) <= Cardinality(Nodes)
  <2>1. Q \cup M \subseteq Nodes
    BY Zenon
  <2> QED
    BY Zenon, <1>1, <2>1, FS_Subset
<1>6. Cardinality(Q) * 2 > Cardinality(Nodes) /\ Cardinality(M) * 2 > Cardinality(Nodes)
  BY Zenon DEF Quorum
<1> QED
  BY <1>2, <1>3, <1>4, <1>5, <1>6

LEMMA SpecChains == Spec => []RInv
  BY Zenon, SpecRInv, MajoritiesMeet

(* Two nodes never write different blocks at one height: what Apply and    *)
(* CatchUp write is the block of the committed entry of that height,       *)
(* whatever elections, crashes and lost or late replication come between.  *)
THEOREM LedgersNeverDisagree == Spec => []LedgersAgree
<1>1. RInv => LedgersAgree
  BY Zenon, LedgersFollow, MajoritiesMeet
<1> QED
  BY <1>1, SpecChains, PTL

(* writeBlock never meets a block more than one above the last one it      *)
(* wrote: the entries a node applies are chained by number, and a block    *)
(* that is proposed twice is caught by the height it has already reached.  *)
THEOREM NoBlockSkipped == Spec => []NoGap
<1>1. RInv => NoGap
  BY Zenon DEF RInv, NoGap
<1> QED
  BY <1>1, SpecChains, PTL

(* A leader that orders counts its blocks in flight exactly: propose adds  *)
(* one for every block it creates and writeBlock takes one off for every   *)
(* block it writes, also when the leader was elected with entries of an    *)
(* earlier leader still to be applied.                                     *)
THEOREM InflightIsExact == Spec => []InflightExact
<1>1. RInv => InflightExact
  BY Zenon, InflightFollows
<1> QED
  BY <1>1, SpecChains, PTL

(* Behind a config block in flight a leader has no other block: submitC is *)
(* closed from the proposal of the config block until it is written.       *)
THEOREM ConfigBlockAlone == Spec => []ConfigAlone
<1>1. RInv => ConfigAlone
  BY Zenon, ConfigFollows
<1> QED
  BY <1>1, SpecChains, PTL
=============================================================================
