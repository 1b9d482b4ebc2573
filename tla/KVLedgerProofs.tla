--------------------------- MODULE KVLedgerProofs ---------------------------
(***************************************************************************)
(* Proofs about KVLedger for any chains, any validation, and any number of *)
(* faults and crashes, under the one assumption that the index is not      *)
(* refused a block whose private data was stored before the last start     *)
(* ("indexAhead"): then a block would be in the file twice.  First the     *)
(* inductive invariant; then what it gives: blocks are served as they were *)
(* stored, private data is there before its block, KVLedger implements     *)
(* BlockLedger, and the commit hash in a block chains it to the blocks     *)
(* before it.                                                              *)
(***************************************************************************)
EXTENDS KVLedger, TLAPS

-----------------------------------------------------------------------------
(* Sequences of whatever kind.                                             *)

IsSeq(s) == \E S : s \in Seq(S)

(* The length of a sequence is a natural number.                           *)
LEMMA LenOf == ASSUME NEW s, IsSeq(s) PROVE Len(s) \in Nat
BY DEF IsSeq

(* What Append gives.                                                      *)
LEMMA AppendOf ==
    ASSUME NEW s, NEW e, IsSeq(s)
    PROVE  /\ IsSeq(Append(s, e)) /\ Len(Append(s, e)) = Len(s) + 1
           /\ \A i \in 1..Len(s) : Append(s, e)[i] = s[i]
           /\ Append(s, e)[Len(s) + 1] = e
<1>1. PICK S : s \in Seq(S)
  BY Zenon DEF IsSeq
<1>2. s \in Seq(S \cup {e}) /\ e \in S \cup {e}
  BY <1>1
<1>3. Append(s, e) \in Seq(S \cup {e})
  BY <1>2
<1>4. QED
  BY <1>2, <1>3 DEF IsSeq

(* What a prefix is.                                                       *)
LEMMA PrefixOf ==
    ASSUME NEW s, IsSeq(s), NEW n \in 0..Len(s)
    PROVE  /\ IsSeq(SubSeq(s, 1, n)) /\ Len(SubSeq(s, 1, n)) = n
           /\ \A i \in 1..n : SubSeq(s, 1, n)[i] = s[i]
<1>1. PICK S : s \in Seq(S)
  BY Zenon DEF IsSeq
<1>2. SubSeq(s, 1, n) \in Seq(S)
  BY <1>1
<1>3. QED
  BY <1>1, <1>2 DEF IsSeq

-----------------------------------------------------------------------------
(* The inductive invariant.                                                *)

\* The entries that a scan of the file finds.
Whole == IF file[Len(file)] = Torn THEN Len(file) - 1 ELSE Len(file)

Sequential == IsSeq(file) /\ IsSeq(state) /\ IsSeq(history) /\ IsSeq(index)

\* Block n is entry n + 1, and only a crash leaves a torn entry behind.
InPlace ==
    /\ Len(chain) \in Nat /\ Whole \in 1..Len(chain)
    /\ \A i \in 1..Whole : file[i] # Torn /\ file[i].num = i - 1 /\ file[i].block = chain[i]
    /\ pc \notin {"down", "truncate"} => Whole = Len(file)

Indexed == Len(index) \in {Whole - 1, Whole} \ {0} /\ \A i \in 1..Len(index) : index[i] = i

Copies(db) == Len(db) \in 1..Whole /\ \A i \in 1..Len(db) : db[i] = Contents(file[i])

Infos ==
    /\ info.size \in 1..Whole /\ info.last = info.size - 1
    /\ infoSynced.size \in 1..info.size /\ infoSynced.last = infoSynced.size - 1

\* An index write has failed: the block is in the file, and the second call
\* of CommitLegacy will not get past the private data store.
Doomed ==
    /\ Len(file) = height + 1 /\ attempt = 2 /\ ~ahead /\ pvtHeight = height + 1

Serving ==
    pc \notin Starting =>
        /\ height = Len(index) /\ size = height
        /\ pc # "idle" =>
              /\ num = IF pc \in {"state", "history", "done"} THEN height - 1 ELSE height
              /\ num < Len(chain)
        /\ ahead => pvtHeight = height + 1
        /\ info.size = IF pc = "info" THEN height ELSE Len(file)

ServingAt ==
    /\ pc \in {"idle", "append"} => Len(file) = height
    /\ pc \in {"idle", "start", "prepare", "pvt"} => pvtHeight \in {height, height + 1}
    /\ pc \in {"start", "prepare", "pvt"} => Len(file) = height \/ Doomed
    /\ pc \in {"info", "index"} => Len(file) = height + 1
    /\ pc \in {"append", "info", "index"} => pvtHeight = height + 1
    /\ pc \in {"state", "history", "done"} => Len(file) = height /\ pvtHeight = height
    /\ pc \in {"idle", "start", "prepare", "pvt", "append", "info", "index", "done"} =>
          Len(state) = height /\ Len(history) = height
    /\ pc = "state" => Len(state) = height - 1 /\ Len(history) = height - 1
    /\ pc = "history" => Len(state) = height /\ Len(history) = height - 1
    /\ pc = "done" => height > 1

\* The codes of the block in hand.
Codes ==
    /\ pc \in {"pvt", "append", "info"} => flags = Validate(state, num, chain[num + 1])
    /\ pc \in {"info", "index", "state", "history"} => file[num + 1].flags = flags

\* pc has one of its values, and a start never fails for good.
Places ==
    pc \in {"idle", "start", "prepare", "pvt", "append", "info", "index", "state", "history",
            "done", "down", "truncate", "reindex", "open", "recover"}

StartingAt ==
    /\ pc \in Starting => infoSynced = info /\ pvtHeight \in {Whole, Whole + 1}
    /\ pc \in {"truncate", "reindex", "open", "recover"} => info.size = Whole
    /\ pc \in {"reindex", "open", "recover"} => size = Whole
    /\ pc \in {"open", "recover"} => height = Whole /\ Len(index) = Whole
    /\ pc = "recover" /\ ahead => pvtHeight = height + 1

LInv ==
    /\ Sequential /\ InPlace /\ Indexed /\ Copies(state) /\ Copies(history) /\ Infos
    /\ Serving /\ ServingAt /\ Codes /\ Places /\ StartingAt

\* What the parts of the invariant are made of.
USE DEF Starting

(* The entries that a scan finds, from wherever it begins.                 *)
LEMMA ScanFindsWhole ==
    ASSUME LInv, NEW p \in 0..Whole PROVE EndOfScan(p) = Whole
<1>1. Len(file) \in Nat /\ Whole \in 1..Len(file)
  BY LenOf DEF LInv, Sequential, InPlace, Whole
<1>2. Whole \in p..Len(file) /\ \A r \in (p + 1)..Whole : file[r] # Torn
  BY <1>1 DEF LInv, InPlace
<1>3. Whole < Len(file) => file[Whole + 1] = Torn
  BY <1>1 DEF Whole
<1>4. ASSUME NEW q \in p..Len(file), \A r \in (p + 1)..q : file[r] # Torn,
             q < Len(file) => file[q + 1] = Torn
      PROVE  q = Whole
  <2>1. CASE q < Whole
    BY <2>1, <1>1, <1>4 DEF LInv, InPlace
  <2>2. CASE q > Whole
    BY <2>2, <1>1, <1>4 DEF Whole
  <2>3. QED
    BY <2>1, <2>2, <1>1
<1>5. QED
  BY Zenon, <1>2, <1>3, <1>4 DEF EndOfScan

LEMMA InitLInv == ASSUME Init PROVE LInv
<1>1. chain \in Seq(Blocks) /\ Len(chain) >= 1
  BY ChainAssumption DEF Init
<1>2. IsSeq(file) /\ IsSeq(state) /\ IsSeq(history) /\ IsSeq(index)
  <2>1. ASSUME NEW e PROVE IsSeq(<<e>>)
    <3>1. <<e>> \in Seq({e})
      OBVIOUS
    <3>2. QED
      BY Zenon, <3>1 DEF IsSeq
  <2>2. QED
    BY Zenon, <2>1 DEF Init
<1>3. Len(file) = 1 /\ file[1] # Torn /\ Whole = 1
  BY Zenon DEF Init, Torn, Whole
<1>4. QED
  BY <1>1, <1>2, <1>3 DEF Init, LInv, Sequential, InPlace, Indexed, Copies, Infos, Serving,
     ServingAt, Codes, Places, StartingAt, Genesis, Contents

LEMMA ProceedKeeps == ASSUME LInv, Proceed PROVE LInv'
BY Zenon, LenOf DEF Proceed, CommitStep, LInv, Sequential, InPlace, Whole, Indexed, Copies, Infos, Serving, ServingAt, Doomed, Codes, Places, StartingAt,
   diskVars, fileVars, memVars, blockVars, boundVars

LEMMA PrepareKeeps == ASSUME LInv, Prepare PROVE LInv'
BY Zenon, LenOf DEF Prepare, CommitStep, LInv, Sequential, InPlace, Whole, Indexed, Copies, Infos, Serving, ServingAt, Doomed, Codes, Places, StartingAt,
   diskVars, fileVars, memVars, blockVars, boundVars

LEMMA SaveInfoKeeps == ASSUME LInv, SaveInfo PROVE LInv'
BY SMTT(30), LenOf DEF SaveInfo, CommitStep, LInv, Sequential, InPlace, Whole, Indexed, Copies, Infos, Serving, ServingAt, Doomed, Codes, Places, StartingAt,
   diskVars, fileVars, memVars, blockVars, boundVars

LEMMA FinishKeeps == ASSUME LInv, Finish PROVE LInv'
BY Zenon, LenOf DEF Finish, CommitStep, LInv, Sequential, InPlace, Whole, Indexed, Copies, Infos, Serving, ServingAt, Doomed, Codes, Places, StartingAt,
   diskVars, fileVars, memVars, blockVars, boundVars

LEMMA BeginKeeps == ASSUME LInv, Begin(height) PROVE LInv'
BY Zenon, LenOf DEF Begin, CommitStep, LInv, Sequential, InPlace, Whole, Indexed, Copies, Infos, Serving, ServingAt, Doomed, Codes, Places, StartingAt,
   diskVars, fileVars, memVars, blockVars, boundVars

\* The lengths that every step reckons with.
Counts ==
    /\ Len(file) \in Nat /\ Len(state) \in Nat /\ Len(history) \in Nat
    /\ Len(index) \in Nat \ {0} /\ Len(chain) \in Nat
    /\ Whole \in 1..Len(file) /\ Whole >= Len(file) - 1
    /\ info.size \in Nat /\ infoSynced.size \in Nat

(* The invariant bounds them.                                              *)
LEMMA Lengths == ASSUME LInv PROVE Counts
<1>1. Len(file) \in Nat /\ Len(state) \in Nat /\ Len(history) \in Nat /\ Len(index) \in Nat
  BY Zenon, LenOf DEF LInv, Sequential
<1>2. Len(chain) \in Nat /\ Whole \in 1..Len(chain)
  BY Zenon DEF LInv, InPlace
<1>3. Whole \in {Len(file) - 1, Len(file)}
  BY Zenon DEF Whole
<1>4. Len(index) # 0 /\ info.size \in Nat /\ infoSynced.size \in Nat
  BY <1>2 DEF LInv, Indexed, Infos
<1>5. QED
  BY <1>1, <1>2, <1>3, <1>4 DEF Counts

(* Every whole block of the file is in its place.                          *)
LEMMA InFile ==
    ASSUME LInv
    PROVE  \A i \in 1..Whole : file[i] # Torn /\ file[i].num = i - 1 /\ file[i].block = chain[i]
  BY Zenon DEF LInv, InPlace

(* The end of the process keeps the invariant, if at most the last entry   *)
(* goes with it and the databases do not hold that entry.                  *)
LEMMA DownKeeps ==
    ASSUME LInv, Down, UNCHANGED <<chain, index, pvtHeight, state, history>>,
           IsSeq(file'), Whole' \in 1..Whole, \A i \in 1..Whole' : file'[i] = file[i],
           Len(index) \in {Whole' - 1, Whole'}, Len(state) <= Whole', Len(history) <= Whole',
           info.size <= Whole', pvtHeight \in {Whole', Whole' + 1}
    PROVE  LInv'
<1>0. Counts
  BY Zenon, Lengths
<1> USE <1>0 DEF Counts
<1>1. Sequential'
  BY Zenon DEF LInv, Sequential
<1>2. InPlace' /\ Indexed'
  <2>1. Len(chain') \in Nat /\ Whole' \in 1..Len(chain')
    BY DEF LInv, InPlace
  <2>2. \A i \in 1..Whole' :
           file'[i] # Torn /\ file'[i].num = i - 1 /\ file'[i].block = chain'[i]
    <3>1. SUFFICES ASSUME NEW i \in 1..Whole'
                   PROVE  file[i] # Torn /\ file[i].num = i - 1 /\ file[i].block = chain[i]
      BY Zenon
    <3>2. i \in 1..Whole
      OBVIOUS
    <3>3. QED
      BY Zenon, <3>2 DEF LInv, InPlace
  <2>3. pc' = "down"
    BY Zenon DEF Down
  <2>4. Indexed'
    BY Zenon DEF LInv, Indexed
  <2>5. QED
    BY Zenon, <2>1, <2>2, <2>3, <2>4 DEF InPlace, Torn
<1>3. Copies(state)' /\ Copies(history)'
  BY SMTT(30) DEF LInv, Copies
<1>4. Infos' /\ StartingAt'
  <2>1. \A f \in {info, infoSynced} : f.size \in 1..Whole' /\ f.last = f.size - 1
    BY SMTT(30) DEF LInv, Infos
  <2>2. pc' = "down" /\ infoSynced' = info' /\ info' \in {info, infoSynced}
    BY Zenon DEF Down
  <2>3. Infos'
    BY SMTT(30), <2>1, <2>2 DEF Infos
  <2>4. StartingAt'
    BY Zenon, <2>2 DEF StartingAt
  <2>5. QED
    BY Zenon, <2>3, <2>4
<1>5. Serving' /\ ServingAt' /\ Codes' /\ Places'
  BY Zenon DEF Down, Serving, ServingAt, Codes, Places
<1>6. QED
  BY Zenon, <1>1, <1>2, <1>3, <1>4, <1>5 DEF LInv

(* A process that serves may end anywhere.                                 *)
LEMMA EndKeeps ==
    ASSUME LInv, Down, UNCHANGED <<chain, file, index, pvtHeight, state, history>>
    PROVE  LInv'
<1>0. Counts
  BY Zenon, Lengths
<1> USE <1>0 DEF Counts
<1>1. Whole' = Whole /\ IsSeq(file')
  BY Zenon DEF Whole, LInv, Sequential
<1>2. pvtHeight \in {Whole, Whole + 1}
  BY Zenon DEF LInv, InPlace, Serving, ServingAt, Doomed, StartingAt, Places
<1>3. /\ Len(index) \in {Whole - 1, Whole}
      /\ Len(state) <= Whole /\ Len(history) <= Whole /\ info.size <= Whole
  BY DEF LInv, Indexed, Copies, Infos
<1>4. \A i \in 1..Whole' : file'[i] = file[i]
  BY Zenon
<1>5. Whole' \in 1..Whole
  BY <1>1
<1>6. QED
  BY Zenon, <1>1, <1>2, <1>3, <1>4, <1>5, DownKeeps

(* The first call of CommitLegacy fails before the block is in the file.   *)
LEMMA ErrorKeeps ==
    ASSUME LInv, Error, UNCHANGED <<chain, file, index, pvtHeight, state, history>>,
           pc \in {"prepare", "pvt", "append"}
    PROVE  LInv'
<1>0. Counts
  BY Zenon, Lengths
<1> USE <1>0 DEF Counts
<1>1. CASE attempt = 1
  <2>1. Whole' = Whole /\ Sequential' /\ InPlace'
    BY Zenon, <1>1 DEF LInv, Sequential, InPlace, Whole, Error
  <2>2. Indexed' /\ Copies(state)' /\ Copies(history)'
    BY Zenon, <1>1, <2>1 DEF LInv, Indexed, Copies
  <2>3. Infos' /\ Serving'
    BY Zenon, <1>1, <2>1 DEF LInv, Infos, Serving, Error
  <2>4. ServingAt' /\ Codes' /\ Places' /\ StartingAt'
    BY Zenon, <1>1, <2>1 DEF LInv, Serving, ServingAt, Codes, Places, StartingAt, Error, Doomed
  <2>5. QED
    BY Zenon, <2>1, <2>2, <2>3, <2>4 DEF LInv
<1>2. CASE attempt # 1
  BY Zenon, <1>2, EndKeeps DEF Error
<1>3. QED
  BY Zenon, <1>1, <1>2

LEMMA PrepareFailsKeeps == ASSUME LInv, PrepareFails PROVE LInv'
BY Zenon, ErrorKeeps DEF PrepareFails

LEMMA StorePvtDataFailsKeeps == ASSUME LInv, StorePvtDataFails PROVE LInv'
BY Zenon, ErrorKeeps DEF StorePvtDataFails

LEMMA AppendBlockFailsKeeps == ASSUME LInv, AppendBlockFails PROVE LInv'
BY Zenon, ErrorKeeps DEF AppendBlockFails

LEMMA StorePvtDataKeeps == ASSUME LInv, StorePvtData PROVE LInv'
<1>0. Counts
  BY Zenon, Lengths
<1> USE <1>0 DEF Counts
<1>1. CASE ahead \/ pvtHeight = num
  <2>0. /\ pc = "pvt" /\ pc' = "append"
        /\ UNCHANGED <<chain, file, index, state, history, info, infoSynced, num, attempt,
                       flags, hash, commitHash, ahead, height, size>>
        /\ pvtHeight' = IF ahead THEN pvtHeight ELSE num + 1
    BY Zenon, <1>1 DEF StorePvtData, memVars, blockVars
  <2>1. Whole' = Whole /\ Sequential' /\ InPlace'
    BY Zenon, <2>0 DEF LInv, Sequential, InPlace, Whole, Torn
  <2>2. Indexed' /\ Copies(state)' /\ Copies(history)'
    BY Zenon, <2>0, <2>1 DEF LInv, Indexed, Copies, Contents
  <2>3. Infos' /\ Places' /\ StartingAt'
    BY Zenon, <2>0, <2>1 DEF LInv, Infos, Places, StartingAt
  <2>4. height \in Nat /\ num = height /\ pvtHeight' = height + 1 /\ Len(file) = height
    BY Zenon, <1>1, <2>0 DEF LInv, Serving, ServingAt, Doomed
  <2>5. Serving' /\ ServingAt'
    BY Zenon, <2>0, <2>4 DEF LInv, Serving, ServingAt
  <2>6. Codes'
    BY Zenon, <2>0 DEF LInv, Codes
  <2>7. QED
    BY Zenon, <2>1, <2>2, <2>3, <2>5, <2>6 DEF LInv
<1>2. CASE ~(ahead \/ pvtHeight = num)
  BY Zenon, <1>2, ErrorKeeps DEF StorePvtData
<1>3. QED
  BY Zenon, <1>1, <1>2

LEMMA AppendBlockKeeps == ASSUME LInv, AppendBlock PROVE LInv'
<1>0. Counts
  BY Zenon, Lengths
<1> USE <1>0 DEF Counts
<1> DEFINE e == [num |-> num, block |-> chain[num + 1], flags |-> flags, hash |-> hash]
<1>1. /\ pc = "append" /\ num = height /\ height \in Nat /\ num < Len(chain)
      /\ Len(file) = height /\ Whole = height /\ Len(index) = height
  BY Zenon DEF LInv, AppendBlock, Serving, ServingAt, InPlace
<1>2. /\ pc' = "info" /\ file' = Append(file, e)
      /\ UNCHANGED <<chain, index, state, history, pvtHeight, info, infoSynced, num, attempt,
                     flags, hash, commitHash, ahead, height, size>>
  BY Zenon, <1>1 DEF AppendBlock, memVars, blockVars
<1>3. /\ IsSeq(file') /\ Len(file') = height + 1
      /\ \A i \in 1..height : file'[i] = file[i]
      /\ file'[height + 1] = e
  <2>1. IsSeq(file)
    BY Zenon DEF LInv, Sequential
  <2>2. QED
    BY SMTT(30), <1>1, <1>2, <2>1, AppendOf
<1>4. e # Torn /\ e.num = height /\ e.block = chain[height + 1] /\ e.flags = flags
  BY Zenon, <1>1 DEF Torn
<1> HIDE DEF e
<1>5. Whole' = height + 1
  BY Zenon, <1>1, <1>3, <1>4 DEF Whole, Torn
<1>6. Sequential' /\ InPlace'
  <2>1. ASSUME NEW i \in 1..(height + 1)
        PROVE  file'[i] # Torn /\ file'[i].num = i - 1 /\ file'[i].block = chain[i]
    <3>1. CASE i \in 1..height
      BY Zenon, <3>1, <1>1, <1>3 DEF LInv, InPlace
    <3>2. CASE i = height + 1
      BY <3>2, <1>1, <1>3, <1>4
    <3>3. QED
      BY SMTT(30), <3>1, <3>2, <1>1
  <2>2. Sequential'
    BY Zenon, <1>2, <1>3 DEF LInv, Sequential
  <2>3. /\ Len(chain') \in Nat /\ Whole' \in 1..Len(chain') /\ Whole' = Len(file')
        /\ \A i \in 1..Whole' : /\ file'[i] # Torn /\ file'[i].num = i - 1
                               /\ file'[i].block = chain'[i]
    BY SMTT(30), <2>1, <1>1, <1>2, <1>3, <1>5
  <2>4. InPlace'
    BY Zenon, <2>3 DEF InPlace, Torn
  <2>5. QED
    BY Zenon, <2>2, <2>4
<1>7. Indexed' /\ Copies(state)' /\ Copies(history)'
  <2>1. Indexed'
    BY SMTT(30), <1>1, <1>2, <1>5 DEF LInv, Indexed
  <2>2. ASSUME NEW db, Copies(db), \A i \in 1..height : file'[i] = file[i]
        PROVE  /\ Len(db) \in 1..(height + 1)
               /\ \A i \in 1..Len(db) : db[i] = Contents(file'[i])
    <3>1. Len(db) \in 1..height /\ \A i \in 1..Len(db) : db[i] = Contents(file[i])
      BY Zenon, <1>1, <2>2 DEF Copies
    <3>2. \A i \in 1..Len(db) : i \in 1..height
      BY SMTT(30), <1>1, <3>1
    <3>3. Len(db) \in 1..(height + 1)
      BY SMTT(30), <1>1, <3>1
    <3> QED
      BY Zenon, <2>2, <3>1, <3>2, <3>3 DEF Contents
  <2>3. Copies(state)' /\ Copies(history)'
    <3>1. /\ Len(state) \in 1..(height + 1) /\ Len(history) \in 1..(height + 1)
          /\ \A i \in 1..Len(state) : state[i] = Contents(file'[i])
          /\ \A i \in 1..Len(history) : history[i] = Contents(file'[i])
      BY Zenon, <1>3, <2>2 DEF LInv
    <3> QED
      BY Zenon, <1>2, <1>5, <3>1 DEF Copies, Contents
  <2> QED
    BY Zenon, <2>1, <2>3
<1>8. Infos' /\ Places' /\ StartingAt'
  BY SMTT(30), <1>1, <1>2, <1>5 DEF LInv, Infos, Places, StartingAt
<1>9. Serving' /\ ServingAt'
  BY Zenon, <1>1, <1>2, <1>3 DEF LInv, Serving, ServingAt
<1>10. Codes'
  BY Zenon, <1>1, <1>2, <1>3, <1>4 DEF LInv, Codes
<1>11. QED
  BY Zenon, <1>6, <1>7, <1>8, <1>9, <1>10 DEF LInv

LEMMA IndexBlockKeeps == ASSUME LInv, IndexBlock PROVE LInv'
<1>0. Counts
  BY Zenon, Lengths
<1> USE <1>0 DEF Counts
<1>1. /\ pc = "index" /\ num = height /\ height = Len(index) /\ size = height
      /\ Len(file) = height + 1 /\ Whole = height + 1 /\ pvtHeight = height + 1
      /\ Len(state) = height /\ Len(history) = height
  BY Zenon DEF LInv, IndexBlock, CommitStep, Serving, ServingAt, InPlace
<1>2. /\ pc' = "state" /\ index' = Append(index, height + 1)
      /\ size' = height + 1 /\ height' = height + 1 /\ ~ahead' /\ infoSynced' = info
      /\ UNCHANGED <<chain, file, state, history, pvtHeight, info, num, attempt, flags>>
  <2>1. ~(num + 1 <= Len(index))
    BY <1>1
  <2>2. index' = Append(index, size + 1)
    BY Zenon, <2>1 DEF IndexBlock
  <2>3. ~ahead'
    BY Zenon, <1>1 DEF IndexBlock
  <2>4. QED
    BY Zenon, <1>1, <2>2, <2>3 DEF IndexBlock, CommitStep, blockVars
<1>3. /\ IsSeq(index') /\ Len(index') = height + 1
      /\ \A i \in 1..height : index'[i] = index[i]
      /\ index'[height + 1] = height + 1
  <2>1. IsSeq(index)
    BY Zenon DEF LInv, Sequential
  <2>2. QED
    BY <1>1, <1>2, <2>1, AppendOf
<1>4. Whole' = Whole /\ Sequential' /\ InPlace'
  BY Zenon, <1>1, <1>2, <1>3 DEF LInv, Sequential, InPlace, Whole, Torn
<1>5. Indexed' /\ Copies(state)' /\ Copies(history)'
  BY SMTT(30), <1>1, <1>2, <1>3, <1>4 DEF LInv, Indexed, Copies, Contents
<1>6. Infos' /\ Places' /\ StartingAt'
  BY SMTT(30), <1>1, <1>2, <1>4 DEF LInv, Infos, Places, StartingAt
<1>7. Serving' /\ ServingAt'
  BY <1>1, <1>2, <1>3 DEF LInv, Serving, ServingAt
<1>8. Codes'
  BY Zenon, <1>1, <1>2 DEF LInv, Codes
<1>9. QED
  BY Zenon, <1>4, <1>5, <1>6, <1>7, <1>8 DEF LInv

LEMMA CommitStateKeeps == ASSUME LInv, CommitState PROVE LInv'
<1>0. Counts
  BY Zenon, Lengths
<1> USE <1>0 DEF Counts
<1> DEFINE e == [num |-> num, block |-> chain[num + 1], flags |-> flags]
<1>1. /\ pc = "state" /\ num = height - 1 /\ height = Len(index) /\ Len(file) = height
      /\ Whole = height /\ Len(state) = height - 1
  BY Zenon DEF LInv, CommitState, CommitStep, Serving, ServingAt, InPlace
<1>2. /\ pc' = "history" /\ state' = Append(state, e)
      /\ UNCHANGED <<chain, file, index, history, pvtHeight, info, infoSynced, num, attempt,
                     flags, ahead, height, size>>
  BY Zenon DEF CommitState, CommitStep, memVars, blockVars, fileVars
<1>3. e = Contents(file[height])
  <2>1. file[height].num = height - 1 /\ file[height].block = chain[height]
    BY Zenon, <1>1 DEF LInv, InPlace
  <2>2. file[height].flags = flags
    BY SMTT(30), <1>1 DEF LInv, Codes
  <2>3. QED
    BY SMTT(30), <2>1, <2>2, <1>1 DEF Contents
<1> HIDE DEF e
<1>4. /\ IsSeq(state') /\ Len(state') = height
      /\ \A i \in 1..(height - 1) : state'[i] = state[i]
      /\ state'[height] = e
  <2>1. IsSeq(state)
    BY Zenon DEF LInv, Sequential
  <2>2. QED
    BY SMTT(30), <1>1, <1>2, <2>1, AppendOf
<1>5. Whole' = Whole /\ Sequential' /\ InPlace'
  BY Zenon, <1>1, <1>2, <1>4 DEF LInv, Sequential, InPlace, Whole, Torn
<1>6. Indexed' /\ Copies(history)'
  BY Zenon, <1>1, <1>2, <1>5 DEF LInv, Indexed, Copies, Contents
<1>7. Copies(state)'
  <2>1. ASSUME NEW i \in 1..height PROVE state'[i] = Contents(file[i])
    <3>1. CASE i \in 1..(height - 1)
      BY Zenon, <3>1, <1>1, <1>4 DEF LInv, Copies
    <3>2. CASE i = height
      BY Zenon, <3>2, <1>3, <1>4
    <3>3. QED
      BY <3>1, <3>2, <1>1
  <2>2. QED
    BY Zenon, <2>1, <1>1, <1>2, <1>4, <1>5 DEF Copies, Contents
<1>8. Infos' /\ Places' /\ StartingAt'
  BY Zenon, <1>1, <1>2, <1>5 DEF LInv, Infos, Places, StartingAt
<1>9. Serving' /\ ServingAt' /\ Codes'
  BY Zenon, <1>1, <1>2, <1>4 DEF LInv, Serving, ServingAt, Codes
<1>10. QED
  BY Zenon, <1>5, <1>6, <1>7, <1>8, <1>9 DEF LInv

LEMMA CommitHistoryKeeps == ASSUME LInv, CommitHistory PROVE LInv'
<1>0. Counts
  BY Zenon, Lengths
<1> USE <1>0 DEF Counts
<1> DEFINE e == [num |-> num, block |-> chain[num + 1], flags |-> flags]
<1>1. /\ pc = "history" /\ num = height - 1 /\ height = Len(index) /\ Len(file) = height
      /\ Whole = height /\ Len(history) = height - 1 /\ height > 1
  BY DEF LInv, CommitHistory, CommitStep, Serving, ServingAt, InPlace, Copies
<1>2. /\ pc' = "done" /\ history' = Append(history, e)
      /\ UNCHANGED <<chain, file, index, state, pvtHeight, info, infoSynced, num, attempt,
                     flags, ahead, height, size>>
  BY Zenon DEF CommitHistory, CommitStep, memVars, blockVars, fileVars
<1>3. e = Contents(file[height])
  <2>1. file[height].num = height - 1 /\ file[height].block = chain[height]
    BY Zenon, <1>1 DEF LInv, InPlace
  <2>2. file[height].flags = flags
    BY <1>1 DEF LInv, Codes
  <2>3. QED
    BY SMTT(30), <2>1, <2>2, <1>1 DEF Contents
<1> HIDE DEF e
<1>4. /\ IsSeq(history') /\ Len(history') = height
      /\ \A i \in 1..(height - 1) : history'[i] = history[i]
      /\ history'[height] = e
  <2>1. IsSeq(history)
    BY Zenon DEF LInv, Sequential
  <2>2. QED
    BY SMTT(30), <1>1, <1>2, <2>1, AppendOf
<1>5. Whole' = Whole /\ Sequential' /\ InPlace'
  BY Zenon, <1>1, <1>2, <1>4 DEF LInv, Sequential, InPlace, Whole, Torn
<1>6. Indexed' /\ Copies(state)'
  BY Zenon, <1>1, <1>2, <1>5 DEF LInv, Indexed, Copies, Contents
<1>7. Copies(history)'
  <2>1. ASSUME NEW i \in 1..height PROVE history'[i] = Contents(file[i])
    <3>1. CASE i \in 1..(height - 1)
      BY Zenon, <3>1, <1>1, <1>4 DEF LInv, Copies
    <3>2. CASE i = height
      BY Zenon, <3>2, <1>3, <1>4
    <3>3. QED
      BY <3>1, <3>2, <1>1
  <2>2. QED
    BY Zenon, <2>1, <1>1, <1>2, <1>4, <1>5 DEF Copies, Contents
<1>8. Infos' /\ Places' /\ StartingAt'
  BY Zenon, <1>1, <1>2, <1>5 DEF LInv, Infos, Places, StartingAt
<1>9. Serving' /\ ServingAt' /\ Codes'
  BY Zenon, <1>1, <1>2, <1>4 DEF LInv, Serving, ServingAt, Codes
<1>10. QED
  BY Zenon, <1>5, <1>6, <1>7, <1>8, <1>9 DEF LInv

(* A failed write of the index leaves the block in the file, and the       *)
(* second call doomed.                                                     *)
LEMMA IndexBlockFailsKeeps ==
    ASSUME LInv, IndexBlockFails, "indexAhead" \notin Faults PROVE LInv'
<1>0. Counts
  BY Zenon, Lengths
<1> USE <1>0 DEF Counts
<1>1. /\ pc = "index" /\ ~ahead /\ Error
      /\ UNCHANGED <<chain, file, index, pvtHeight, state, history>>
  BY Zenon DEF IndexBlockFails, Fails
<1>2. CASE attempt = 1
  <2>0. /\ pc' = "start" /\ attempt' = 2
        /\ UNCHANGED <<num, flags, ahead, height, size, info, infoSynced>>
    BY Zenon, <1>1, <1>2 DEF Error
  <2>1. Whole' = Whole /\ Sequential' /\ InPlace'
    BY Zenon, <1>1, <2>0 DEF LInv, Sequential, InPlace, Whole, Torn
  <2>2. Indexed' /\ Copies(state)' /\ Copies(history)'
    BY Zenon, <1>1, <2>1 DEF LInv, Indexed, Copies, Contents
  <2>3. Infos' /\ Serving'
    BY Zenon, <1>1, <2>0, <2>1 DEF LInv, Infos, Serving
  <2>4. ServingAt' /\ Codes' /\ Places' /\ StartingAt'
    BY Zenon, <1>1, <2>0, <2>1 DEF LInv, Serving, ServingAt, Codes, Places, StartingAt, Doomed
  <2>5. QED
    BY Zenon, <2>1, <2>2, <2>3, <2>4 DEF LInv
<1>3. CASE attempt # 1
  BY Zenon, <1>1, <1>3, EndKeeps DEF Error
<1>4. QED
  BY Zenon, <1>2, <1>3

LEMMA SaveInfoFailsKeeps == ASSUME LInv, SaveInfoFails PROVE LInv'
<1>0. Counts
  BY Zenon, Lengths
<1> USE <1>0 DEF Counts
<1>1. /\ pc = "info" /\ num = height /\ height = Len(index) /\ size = height
      /\ Len(file) = height + 1 /\ Whole = height + 1 /\ pvtHeight = height + 1
      /\ Len(state) = height /\ Len(history) = height /\ info.size = height
  BY Zenon DEF LInv, SaveInfoFails, Serving, ServingAt, InPlace
<1>2. /\ Error /\ file' = SubSeq(file, 1, height)
      /\ UNCHANGED <<chain, index, pvtHeight, state, history>>
  BY Zenon, <1>1 DEF SaveInfoFails
<1>3. /\ IsSeq(file') /\ Len(file') = height /\ \A i \in 1..height : file'[i] = file[i]
  <2>1. IsSeq(file)
    BY Zenon DEF LInv, Sequential
  <2>2. QED
    BY SMTT(30), <1>1, <1>2, <2>1, PrefixOf
<1>4. Whole' = height
  <2>1. file[height] # Torn
    BY <1>1 DEF LInv, InPlace
  <2>2. QED
    BY SMTT(30), <1>1, <1>3, <2>1 DEF Whole, Torn
<1>5. CASE attempt = 1
  <2>0. /\ pc' = "start" /\ attempt' = 2
        /\ UNCHANGED <<num, flags, ahead, height, size, info, infoSynced>>
    BY Zenon, <1>2, <1>5 DEF Error
  <2>1. Sequential' /\ InPlace'
    BY SMTT(30), <1>1, <1>2, <1>3, <1>4 DEF LInv, Sequential, InPlace, Torn
  <2>2. Indexed' /\ Copies(state)' /\ Copies(history)'
    BY SMTT(30), <1>1, <1>2, <1>3, <1>4 DEF LInv, Indexed, Copies, Contents
  <2>3. Infos' /\ Serving'
    BY SMTT(30), <1>1, <1>2, <1>3, <1>4, <2>0 DEF LInv, Infos, Serving
  <2>4. ServingAt' /\ Codes' /\ Places' /\ StartingAt'
    BY Zenon, <1>1, <1>2, <1>3, <1>4, <2>0 DEF ServingAt, Codes, Places, StartingAt
  <2>5. QED
    BY Zenon, <2>1, <2>2, <2>3, <2>4 DEF LInv
<1>6. CASE attempt # 1
  BY <1>1, <1>2, <1>3, <1>4, <1>6, DownKeeps DEF Error
<1>7. QED
  BY Zenon, <1>5, <1>6

LEMMA CrashKeeps == ASSUME LInv, Crash PROVE LInv'
<1>0. Counts
  BY Zenon, Lengths
<1> USE <1>0 DEF Counts
<1>1. CASE file' = file
  BY Zenon, <1>1, EndKeeps DEF Crash
<1>2. CASE pc = "append" /\ file' = Append(file, Torn)
  <2>1. /\ IsSeq(file') /\ Len(file') = Len(file) + 1
        /\ \A i \in 1..Len(file) : file'[i] = file[i]
        /\ file'[Len(file) + 1] = Torn
    <3>1. IsSeq(file)
      BY Zenon DEF LInv, Sequential
    <3>2. QED
      BY SMTT(30), <1>2, <3>1, AppendOf
  <2>2. Whole' = Whole /\ Whole = Len(file) /\ pvtHeight = Whole + 1
    BY <1>2, <2>1 DEF LInv, InPlace, ServingAt, Whole, Torn
  <2>3. /\ Len(index) \in {Whole - 1, Whole}
        /\ Len(state) <= Whole /\ Len(history) <= Whole /\ info.size <= Whole
    BY DEF LInv, Indexed, Copies, Infos
  <2>4. Down /\ UNCHANGED <<chain, index, pvtHeight, state, history>>
    BY Zenon DEF Crash
  <2>5. QED
    BY Zenon, <2>1, <2>2, <2>3, <2>4, DownKeeps
<1>3. QED
  BY Zenon, <1>1, <1>2 DEF Crash

-----------------------------------------------------------------------------
(* The steps of a start.                                                   *)

LEMMA SyncInfoKeeps == ASSUME LInv, SyncInfo PROVE LInv'
<1>0. Counts
  BY Zenon, Lengths
<1> USE <1>0 DEF Counts
<1>1. info.size \in 0..Whole /\ info.last = info.size - 1
  BY DEF LInv, Infos
<1>2. EndOfScan(info.size) = Whole
  BY Zenon, <1>1, ScanFindsWhole
<1>3. /\ pc = "down" /\ pc' = "truncate" /\ info' = [size |-> Whole, last |-> Whole - 1]
      /\ infoSynced' = info'
      /\ UNCHANGED <<chain, file, index, pvtHeight, state, history>>
  BY SMTT(30), <1>1, <1>2 DEF SyncInfo, StartStep
<1>4. Whole' = Whole /\ Sequential' /\ InPlace'
  BY Zenon, <1>3 DEF LInv, Sequential, InPlace, Whole, Torn
<1>5. Indexed' /\ Copies(state)' /\ Copies(history)'
  BY Zenon, <1>3, <1>4 DEF LInv, Indexed, Copies, Contents
<1>6. Infos'
  BY SMTT(30), <1>3, <1>4 DEF Infos
<1>7. StartingAt' /\ Serving' /\ ServingAt' /\ Codes' /\ Places'
  BY Zenon, <1>3, <1>4 DEF LInv, StartingAt, Serving, ServingAt, Codes, Places
<1>8. QED
  BY Zenon, <1>4, <1>5, <1>6, <1>7 DEF LInv

LEMMA TruncateKeeps == ASSUME LInv, Truncate PROVE LInv'
<1>0. Counts
  BY Zenon, Lengths
<1> USE <1>0 DEF Counts
<1>1. /\ pc = "truncate" /\ pc' = "reindex" /\ info.size = Whole
      /\ file' = SubSeq(file, 1, Whole) /\ size' = Whole
      /\ UNCHANGED <<chain, info, infoSynced, index, pvtHeight, state, history>>
  BY Zenon DEF Truncate, StartStep, LInv, StartingAt
<1>2. IsSeq(file') /\ Len(file') = Whole /\ \A i \in 1..Whole : file'[i] = file[i]
  <2>1. IsSeq(file)
    BY Zenon DEF LInv, Sequential
  <2>2. QED
    <3>1. Whole \in 0..Len(file)
      OBVIOUS
    <3>2. QED
      BY Zenon, <1>1, <2>1, <3>1, PrefixOf
<1>3. Whole' = Whole
  <2>1. file[Whole] # Torn
    BY DEF LInv, InPlace
  <2>2. file'[Len(file')] # Torn
    BY SMTT(30), <1>2, <2>1
  <2>3. Whole' = Len(file')
    BY Zenon, <2>2 DEF Whole, Torn
  <2>4. QED
    BY Zenon, <1>2, <2>3
<1>4. Sequential' /\ InPlace'
  BY Zenon, <1>1, <1>2, <1>3 DEF LInv, Sequential, InPlace, Torn
<1>5. Indexed' /\ Copies(state)' /\ Copies(history)'
  <2>1. Indexed'
    BY Zenon, <1>1, <1>3 DEF LInv, Indexed
  <2>2. Copies(state)' /\ Copies(history)'
    BY SMTT(30), <1>1, <1>2, <1>3 DEF LInv, Copies
  <2>3. QED
    BY Zenon, <2>1, <2>2
<1>6. Infos' /\ StartingAt'
  BY Zenon, <1>1, <1>3 DEF LInv, Infos, StartingAt
<1>7. Serving' /\ ServingAt' /\ Codes' /\ Places'
  BY Zenon, <1>1 DEF Serving, ServingAt, Codes, Places
<1>8. QED
  BY Zenon, <1>4, <1>5, <1>6, <1>7 DEF LInv

(* At most the last block is missing in the index, and it is found.        *)
LEMMA IndexComplete ==
    ASSUME LInv, pc = "reindex", Len(index) # Whole
    PROVE  SyncedIndex = [i \in 1..Whole |-> i]
<1>0. Counts
  BY Zenon, Lengths
<1> USE <1>0 DEF Counts
<1>1. Len(index) = Whole - 1 /\ Len(file) = Whole /\ index[Len(index)] = Whole - 1
  <2>1. Len(index) = Whole - 1
    BY Zenon DEF LInv, Indexed
  <2>2. index[Len(index)] = Len(index)
    BY SMTT(30) DEF LInv, Indexed
  <2>3. Len(file) = Whole
    BY Zenon DEF LInv, InPlace
  <2>4. QED
    BY Zenon, <2>1, <2>2, <2>3
<1>2. Unindexed = {Whole}
  <2>1. Unindexed = Whole..Whole
    BY <1>1 DEF Unindexed
  <2>2. QED
    BY <2>1
<1>3. file[Whole].num = Whole - 1
  BY Zenon DEF LInv, InPlace
<1> DEFINE at(n) == {p \in Unindexed : file[p].num = n}
           last(n) == CHOOSE p \in at(n) : \A q \in at(n) : q <= p
           top == IF at(Len(index)) = {} THEN Len(index) ELSE Len(index) + 1
<1>4. at(Whole - 1) = {Whole} /\ \A n : n # Whole - 1 => at(n) = {}
  BY Zenon, <1>2, <1>3
<1>5. top = Whole
  <2>1. at(Len(index)) # {}
    BY Zenon, <1>1, <1>4
  <2>2. QED
    BY <1>1, <2>1
<1>6. last(Whole - 1) = Whole
  <2>1. \E p \in {Whole} : \A q \in {Whole} : q <= p
    OBVIOUS
  <2>2. last(Whole - 1) \in {Whole}
    BY <1>4, <2>1
  <2>3. QED
    BY Zenon, <2>2
<1>7. ASSUME NEW i \in 1..Whole
      PROVE  (IF at(i - 1) = {} THEN index[i] ELSE last(i - 1)) = i
  <2>1. CASE i = Whole
    BY Zenon, <2>1, <1>4, <1>6
  <2>2. CASE i # Whole
    <3>1. i \in 1..Len(index) /\ i - 1 # Whole - 1
      BY <2>2, <1>1
    <3>2. at(i - 1) = {} /\ index[i] = i
      BY Zenon, <3>1, <1>4 DEF LInv, Indexed
    <3>3. QED
      BY Zenon, <3>2
  <2>3. QED
    BY Zenon, <2>1, <2>2
<1>8. SyncedIndex = [i \in 1..top |-> IF at(i - 1) = {} THEN index[i] ELSE last(i - 1)]
  BY Zenon DEF SyncedIndex
<1> HIDE DEF at, last, top
<1>9. QED
  BY Zenon, <1>5, <1>7, <1>8

LEMMA SyncIndexKeeps == ASSUME LInv, SyncIndex PROVE LInv'
<1>0. Counts
  BY Zenon, Lengths
<1> USE <1>0 DEF Counts
<1>1. pc = "reindex" /\ info.last + 1 = Whole /\ size = Whole /\ info.size = Whole
  <2>1. pc = "reindex"
    BY Zenon DEF SyncIndex
  <2>2. size = Whole /\ info.size = Whole
    BY Zenon, <2>1 DEF LInv, StartingAt
  <2>3. info.last = info.size - 1
    BY Zenon DEF LInv, Infos
  <2>4. QED
    BY <2>1, <2>2, <2>3
<1>2. IsSeq(index') /\ Len(index') = Whole /\ \A i \in 1..Whole : index'[i] = i
  <2>1. CASE Len(index) = Whole
    BY Zenon, <1>1, <2>1 DEF SyncIndex, LInv, Indexed, Sequential
  <2>2. CASE Len(index) # Whole
    <3>1. index' = [i \in 1..Whole |-> i]
      BY Zenon, <1>1, <2>2, IndexComplete DEF SyncIndex
    <3>2. index' \in Seq(Nat)
      BY SMTT(30), <3>1
    <3>3. QED
      <4>1. IsSeq(index')
        BY Zenon, <3>2 DEF IsSeq
      <4>2. Len(index') = Whole
        BY <3>1
      <4>3. QED
        BY Zenon, <3>1, <4>1, <4>2
  <2>3. QED
    BY Zenon, <2>1, <2>2
<1>3. /\ pc' = "open" /\ height' = Whole
      /\ UNCHANGED <<chain, file, info, infoSynced, pvtHeight, state, history, size>>
  <2>1. info.last + 1 <= Len(index')
    BY SMTT(30), <1>1, <1>2
  <2>2. QED
    BY Zenon, <1>1, <2>1 DEF SyncIndex
<1>4. Whole' = Whole /\ Sequential' /\ InPlace'
  BY Zenon, <1>1, <1>2, <1>3 DEF LInv, Sequential, InPlace, Whole, Torn
<1>5. Indexed' /\ Copies(state)' /\ Copies(history)'
  BY SMTT(30), <1>2, <1>3, <1>4 DEF LInv, Indexed, Copies, Contents
<1>6. Infos' /\ StartingAt'
  BY Zenon, <1>1, <1>2, <1>3, <1>4 DEF LInv, Infos, StartingAt
<1>7. Serving' /\ ServingAt' /\ Codes' /\ Places'
  BY Zenon, <1>3 DEF Serving, ServingAt, Codes, Places
<1>8. QED
  BY Zenon, <1>4, <1>5, <1>6, <1>7 DEF LInv

LEMMA OpenLedgerKeeps == ASSUME LInv, OpenLedger PROVE LInv'
<1>0. Counts
  BY Zenon, Lengths
<1> USE <1>0 DEF Counts
<1>1. /\ pc = "open" /\ pc' = "recover"
      /\ UNCHANGED <<chain, file, index, info, infoSynced, pvtHeight, state, history, size, height>>
  BY Zenon DEF OpenLedger, StartStep, diskVars, fileVars
<1>2. ahead' => pvtHeight > height
  BY Zenon DEF OpenLedger
<1>3. Whole' = Whole /\ Sequential' /\ InPlace'
  BY Zenon, <1>1 DEF LInv, Sequential, InPlace, Whole, Torn
<1>4. Indexed' /\ Copies(state)' /\ Copies(history)'
  BY Zenon, <1>1, <1>3 DEF LInv, Indexed, Copies, Contents
<1>5. Infos'
  BY Zenon, <1>1, <1>3 DEF LInv, Infos
<1>6. StartingAt'
  BY SMTT(30), <1>1, <1>2, <1>3 DEF LInv, StartingAt
<1>7. Serving' /\ ServingAt' /\ Codes' /\ Places'
  BY Zenon, <1>1 DEF Serving, ServingAt, Codes, Places
<1>8. QED
  BY Zenon, <1>3, <1>4, <1>5, <1>6, <1>7 DEF LInv

(* The next block a database asks for is the one behind those it has.      *)
LEMMA NextIsLength ==
    ASSUME LInv, NEW db, Copies(db) PROVE NextRequired(db) = Len(db)
<1>0. Counts
  BY Zenon, Lengths
<1> USE <1>0 DEF Counts
<1>1. Len(db) \in 1..Whole /\ db[Len(db)] = Contents(file[Len(db)])
  BY SMTT(30) DEF Copies
<1>2. file[Len(db)].num = Len(db) - 1
  BY Zenon, <1>1 DEF LInv, InPlace
<1>3. Contents(file[Len(db)]).num = file[Len(db)].num
  BY Zenon DEF Contents
<1>4. QED
  BY SMTT(30), <1>1, <1>2, <1>3 DEF NextRequired

(* While the databases are brought up, block n is entry n + 1.             *)
LEMMA EntryOf ==
    ASSUME LInv, pc = "recover", NEW n \in 0..(height - 1) PROVE BlockAt(n) = file[n + 1]
<1>0. Counts
  BY Zenon, Lengths
<1> USE <1>0 DEF Counts
<1>1. height = Whole /\ Len(index) = Whole
  BY Zenon DEF LInv, StartingAt
<1>2. index[n + 1] = n + 1
  BY <1>1 DEF LInv, Indexed
<1>3. QED
  BY Zenon, <1>2 DEF BlockAt

LEMMA RecommitStateKeeps == ASSUME LInv, RecommitState PROVE LInv'
<1>0. Counts
  BY Zenon, Lengths
<1> USE <1>0 DEF Counts
<1>1. /\ pc = "recover" /\ pc' = "recover" /\ height = Whole
      /\ UNCHANGED <<chain, file, index, history, pvtHeight, info, infoSynced, ahead, height, size>>
  BY Zenon DEF RecommitState, StartStep, fileVars, LInv, StartingAt
<1>2. Len(state) \in 1..(height - 1) /\ state' = Append(state, Contents(file[Len(state) + 1]))
  <2>1. Copies(state) /\ Copies(history)
    BY Zenon DEF LInv
  <2>2. NextRequired(state) = Len(state) /\ Len(state) \in 1..Whole
    BY Zenon, <2>1, NextIsLength DEF Copies
  <2>3. Len(state) \in 1..(height - 1)
    BY <1>1, <2>2 DEF RecommitState
  <2>4. BlockAt(Len(state)) = file[Len(state) + 1]
    BY SMTT(30), <1>1, <2>3, EntryOf
  <2>5. QED
    BY Zenon, <2>2, <2>3, <2>4 DEF RecommitState
<1>3. /\ IsSeq(state') /\ Len(state') = Len(state) + 1
      /\ \A i \in 1..Len(state) : state'[i] = state[i]
      /\ state'[Len(state) + 1] = Contents(file[Len(state) + 1])
  <2>1. IsSeq(state)
    BY Zenon DEF LInv, Sequential
  <2>2. QED
    BY SMTT(30), <1>2, <2>1, AppendOf
<1>4. Whole' = Whole /\ Sequential' /\ InPlace'
  BY Zenon, <1>1, <1>3 DEF LInv, Sequential, InPlace, Whole, Torn
<1>5. Indexed' /\ Copies(history)'
  BY Zenon, <1>1, <1>4 DEF LInv, Indexed, Copies
<1>6. Copies(state)'
  <2>1. ASSUME NEW i \in 1..(Len(state) + 1) PROVE state'[i] = Contents(file[i])
    <3>1. CASE i \in 1..Len(state)
      BY Zenon, <3>1, <1>3 DEF LInv, Copies
    <3>2. CASE i = Len(state) + 1
      BY Zenon, <3>2, <1>3
    <3>3. QED
      BY SMTT(30), <3>1, <3>2
  <2>2. QED
    BY SMTT(30), <2>1, <1>1, <1>2, <1>3, <1>4 DEF Copies
<1>7. Infos'
  BY Zenon, <1>1, <1>4 DEF LInv, Infos
<1>8. StartingAt'
  BY Zenon, <1>1, <1>4 DEF LInv, StartingAt
<1>9. Serving' /\ ServingAt' /\ Codes' /\ Places'
  BY Zenon, <1>1 DEF Serving, ServingAt, Codes, Places
<1>10. QED
  BY Zenon, <1>4, <1>5, <1>6, <1>7, <1>8, <1>9 DEF LInv

LEMMA RecommitHistoryKeeps == ASSUME LInv, RecommitHistory PROVE LInv'
<1>0. Counts
  BY Zenon, Lengths
<1> USE <1>0 DEF Counts
<1>1. /\ pc = "recover" /\ pc' = "recover" /\ height = Whole
      /\ UNCHANGED <<chain, file, index, state, pvtHeight, info, infoSynced, ahead, height, size>>
  BY Zenon DEF RecommitHistory, StartStep, fileVars, LInv, StartingAt
<1>2. Len(history) \in 1..(height - 1) /\ history' = Append(history, Contents(file[Len(history) + 1]))
  <2>1. Copies(history) /\ Copies(state)
    BY Zenon DEF LInv
  <2>2. NextRequired(history) = Len(history) /\ Len(history) \in 1..Whole
    BY Zenon, <2>1, NextIsLength DEF Copies
  <2>3. Len(history) \in 1..(height - 1)
    BY <1>1, <2>2 DEF RecommitHistory
  <2>4. BlockAt(Len(history)) = file[Len(history) + 1]
    BY SMTT(30), <1>1, <2>3, EntryOf
  <2>5. QED
    BY Zenon, <2>2, <2>3, <2>4 DEF RecommitHistory
<1>3. /\ IsSeq(history') /\ Len(history') = Len(history) + 1
      /\ \A i \in 1..Len(history) : history'[i] = history[i]
      /\ history'[Len(history) + 1] = Contents(file[Len(history) + 1])
  <2>1. IsSeq(history)
    BY Zenon DEF LInv, Sequential
  <2>2. QED
    BY SMTT(30), <1>2, <2>1, AppendOf
<1>4. Whole' = Whole /\ Sequential' /\ InPlace'
  <2>1. Whole' = Whole
    BY Zenon, <1>1 DEF Whole
  <2>2. Sequential'
    BY Zenon, <1>1, <1>3 DEF LInv, Sequential
  <2>3. InPlace
    BY Zenon DEF LInv
  <2>4. InPlace'
    BY Zenon, <1>1, <2>1, <2>3 DEF InPlace
  <2>5. QED
    BY Zenon, <2>1, <2>2, <2>4
<1>5. Indexed' /\ Copies(state)'
  BY Zenon, <1>1, <1>4 DEF LInv, Indexed, Copies
<1>6. Copies(history)'
  <2>1. ASSUME NEW i \in 1..(Len(history) + 1) PROVE history'[i] = Contents(file[i])
    <3>1. CASE i \in 1..Len(history)
      BY Zenon, <3>1, <1>3 DEF LInv, Copies
    <3>2. CASE i = Len(history) + 1
      BY Zenon, <3>2, <1>3
    <3>3. QED
      BY SMTT(30), <3>1, <3>2
  <2>2. QED
    BY SMTT(30), <2>1, <1>1, <1>2, <1>3, <1>4 DEF Copies
<1>7. Infos'
  BY Zenon, <1>1, <1>4 DEF LInv, Infos
<1>8. StartingAt'
  BY Zenon, <1>1, <1>4 DEF LInv, StartingAt
<1>9. Serving' /\ ServingAt' /\ Codes' /\ Places'
  BY Zenon, <1>1 DEF Serving, ServingAt, Codes, Places
<1>10. QED
  BY Zenon, <1>4, <1>5, <1>6, <1>7, <1>8, <1>9 DEF LInv

(* A start ends with both databases at the height; a database ahead of the *)
(* blocks, which would end it for good, does not happen.                   *)
LEMMA OpenedWhole ==
    ASSUME LInv, Opened
    PROVE  /\ pc = "recover" /\ pc' = "idle" /\ height = Whole
           /\ Len(state) = height /\ Len(history) = height
<1>0. Counts
  BY Zenon, Lengths
<1> USE <1>0 DEF Counts
<1>1. pc = "recover"
  BY Zenon DEF Opened, StartStep
<1>2. height = Whole
  BY Zenon, <1>1 DEF LInv, StartingAt
<1>3. Copies(state) /\ Copies(history)
  BY Zenon DEF LInv
<1>4. NextRequired(state) = Len(state) /\ Len(state) \in 1..Whole
  BY Zenon, <1>3, NextIsLength DEF Copies
<1>5. NextRequired(history) = Len(history) /\ Len(history) \in 1..Whole
  BY Zenon, <1>3, NextIsLength DEF Copies
<1>6. NextRequired(state) = height /\ NextRequired(history) = height
  BY SMTT(30), <1>2, <1>4, <1>5 DEF Opened
<1>7. pc' = "idle"
  BY Zenon, <1>6 DEF Opened, StartStep
<1>8. QED
  BY Zenon, <1>1, <1>2, <1>4, <1>5, <1>6, <1>7

LEMMA OpenedKeeps == ASSUME LInv, Opened PROVE LInv'
<1>0. Counts
  BY Zenon, Lengths
<1> USE <1>0 DEF Counts
<1>1. /\ pc = "recover" /\ pc' = "idle" /\ height = Whole
      /\ Len(state) = height /\ Len(history) = height
  BY Zenon, OpenedWhole
<1>2. UNCHANGED <<chain, file, index, state, history, pvtHeight, info, infoSynced, ahead, height, size>>
  BY Zenon DEF Opened, StartStep, diskVars, fileVars
<1>3. size = Whole /\ info.size = Whole /\ Len(index) = Whole /\ pvtHeight \in {Whole, Whole + 1}
  BY Zenon, <1>1 DEF LInv, StartingAt
<1>4. ahead => pvtHeight = height + 1
  BY Zenon, <1>1, <1>3 DEF LInv, StartingAt
<1>5. Whole' = Whole /\ Sequential' /\ InPlace' /\ Len(file) = Whole
  BY Zenon, <1>1, <1>2 DEF LInv, Sequential, InPlace, Whole, Torn
<1>6. Indexed' /\ Copies(state)' /\ Copies(history)'
  BY Zenon, <1>2, <1>5 DEF LInv, Indexed, Copies
<1>7. Infos'
  BY Zenon, <1>2, <1>5 DEF LInv, Infos
<1>8. Serving'
  BY Zenon, <1>1, <1>2, <1>3, <1>4, <1>5 DEF Serving
<1>9. ServingAt' /\ Codes' /\ Places' /\ StartingAt'
  BY Zenon, <1>1, <1>2, <1>3, <1>5 DEF ServingAt, Codes, Places, StartingAt
<1>10. QED
  BY Zenon, <1>5, <1>6, <1>7, <1>8, <1>9 DEF LInv

-----------------------------------------------------------------------------
(* Without a failing write every step keeps the invariant.                 *)
LEMMA StepKeeps == ASSUME LInv, Commit \/ Start \/ Crash PROVE LInv'
<1>1. CASE Commit
  BY Zenon, <1>1, BeginKeeps, ProceedKeeps, PrepareKeeps, StorePvtDataKeeps, AppendBlockKeeps,
     SaveInfoKeeps, IndexBlockKeeps, CommitStateKeeps, CommitHistoryKeeps, FinishKeeps DEF Commit
<1>2. CASE Start
  BY Zenon, <1>2, SyncInfoKeeps, TruncateKeeps, SyncIndexKeeps, OpenLedgerKeeps, RecommitStateKeeps,
     RecommitHistoryKeeps, OpenedKeeps DEF Start
<1>3. CASE Crash
  BY Zenon, <1>3, CrashKeeps
<1>4. QED
  BY Zenon, <1>1, <1>2, <1>3

\* What the invariant speaks of.
ledgerVars == <<chain, diskVars, pc, num, attempt, flags, ahead, height, size>>

(* A step that leaves the ledger alone keeps it.                           *)
LEMMA UnchangedKeeps == ASSUME LInv, UNCHANGED ledgerVars PROVE LInv'
<1>1. UNCHANGED <<chain, file, info, infoSynced, index, pvtHeight, state, history, pc, num,
                  attempt, flags, ahead, height, size>>
  BY Zenon DEF ledgerVars, diskVars, fileVars
<1>2. Whole' = Whole /\ Sequential' /\ InPlace'
  BY Zenon, <1>1 DEF LInv, Sequential, InPlace, Whole, Torn
<1>3. Indexed' /\ Copies(state)' /\ Copies(history)' /\ Infos'
  BY Zenon, <1>1, <1>2 DEF LInv, Indexed, Copies, Infos
<1>4. Serving' /\ StartingAt'
  BY Zenon, <1>1, <1>2 DEF LInv, Serving, StartingAt
<1>5. ServingAt'
  BY Zenon, <1>1 DEF LInv, ServingAt, Doomed
<1>6. Codes' /\ Places'
  BY Zenon, <1>1 DEF LInv, Codes, Places
<1>7. QED
  BY Zenon, <1>2, <1>3, <1>4, <1>5, <1>6 DEF LInv

(* Nor does a failing write harm it, with the one exception.               *)
LEMMA NextKeeps ==
    ASSUME "indexAhead" \notin Faults, LInv, [Next]_vars PROVE LInv'
<1>1. CASE Commit \/ Start \/ Crash
  BY Zenon, <1>1, StepKeeps
<1>2. CASE WriteFails
  BY Zenon, <1>2, PrepareFailsKeeps, StorePvtDataFailsKeeps, AppendBlockFailsKeeps,
     SaveInfoFailsKeeps, IndexBlockFailsKeeps DEF WriteFails
<1>3. CASE UNCHANGED vars
  BY Zenon, <1>3, UnchangedKeeps DEF vars, ledgerVars, memVars, blockVars
<1>4. QED
  BY Zenon, <1>1, <1>2, <1>3 DEF Next

(* The invariant of the ledger, however many writes fail and however often *)
(* the process ends: in particular no start fails for good.                *)
THEOREM LedgerInvariant == ASSUME "indexAhead" \notin Faults PROVE Spec => []LInv
<1>1. Init => LInv
  BY Zenon, InitLInv
<1>2. LInv /\ [Next]_vars => LInv'
  BY Zenon, NextKeeps
<1>3. QED
  BY <1>1, <1>2, PTL DEF Spec

USE DEF Starting

-----------------------------------------------------------------------------
(* What follows from the invariant.                                        *)

(* Sequences with the same elements are the same.                          *)
LEMMA SameElements ==
    ASSUME NEW s, NEW t, IsSeq(s), IsSeq(t), Len(s) = Len(t), \A i \in 1..Len(s) : s[i] = t[i]
    PROVE  s = t
<1>1. PICK S : s \in Seq(S)
  BY Zenon DEF IsSeq
<1>2. PICK T : t \in Seq(T)
  BY Zenon DEF IsSeq
<1>3. s \in Seq(S \cup T) /\ t \in Seq(S \cup T)
  BY <1>1, <1>2
<1>4. QED
  BY <1>3

(* A prefix of the file, in terms of its entries.                          *)
LEMMA ContentsSeq ==
    ASSUME NEW f, NEW k \in Nat, NEW s, s = [i \in 1..k |-> Contents(f[i])]
    PROVE  IsSeq(s) /\ Len(s) = k /\ \A i \in 1..k : s[i] = Contents(f[i])
<1>1. s \in Seq({Contents(f[i]) : i \in 1..k})
  OBVIOUS
<1>2. Len(s) = k
  OBVIOUS
<1>3. QED
  BY Zenon, <1>1, <1>2 DEF IsSeq

\* HashUpTo, of the entries f.
HashOf(f, n) == [i \in 1..n |-> [num |-> i, flags |-> f[i + 1].flags]]

(* A hash depends on the entries it covers only.                           *)
LEMMA HashKept ==
    ASSUME NEW f, NEW g, NEW n \in Nat, \A i \in 1..n : g[i + 1] = f[i + 1]
    PROVE  HashOf(g, n) = HashOf(f, n)
  BY Zenon DEF HashOf

(* addBlockCommitHash adds the block to what is hashed.                    *)
LEMMA HashExtends ==
    ASSUME NEW f, NEW n \in Nat
    PROVE  HashOf(f, n + 1) = Append(HashOf(f, n), [num |-> n + 1, flags |-> f[n + 2].flags])
<1> DEFINE e == [num |-> n + 1, flags |-> f[n + 2].flags]
           at(i) == [num |-> i, flags |-> f[i + 1].flags]
           S == {at(i) : i \in 1..(n + 1)}
<1>1. /\ HashOf(f, n) \in Seq(S) /\ Len(HashOf(f, n)) = n
      /\ \A i \in 1..n : HashOf(f, n)[i] = at(i)
  BY DEF HashOf
<1>2. /\ HashOf(f, n + 1) \in Seq(S) /\ Len(HashOf(f, n + 1)) = n + 1
      /\ \A i \in 1..(n + 1) : HashOf(f, n + 1)[i] = at(i)
  BY DEF HashOf
<1>3. e = at(n + 1)
  OBVIOUS
<1> HIDE DEF e, at
<1>4. IsSeq(HashOf(f, n)) /\ IsSeq(HashOf(f, n + 1))
  BY Zenon, <1>1, <1>2 DEF IsSeq
<1> HIDE DEF S
<1>5. /\ IsSeq(Append(HashOf(f, n), e)) /\ Len(Append(HashOf(f, n), e)) = n + 1
      /\ \A i \in 1..n : Append(HashOf(f, n), e)[i] = at(i)
      /\ Append(HashOf(f, n), e)[n + 1] = at(n + 1)
  BY <1>1, <1>3, <1>4, AppendOf
<1>6. \A i \in 1..(n + 1) : Append(HashOf(f, n), e)[i] = HashOf(f, n + 1)[i]
  BY <1>2, <1>5
<1>7. Append(HashOf(f, n), e) = HashOf(f, n + 1)
  BY Zenon, <1>2, <1>4, <1>5, <1>6, SameElements
<1> QED
  BY Zenon, <1>7 DEF e

(* Steps without an error leave alone whether a write has failed; the      *)
(* others record it.                                                       *)
LEMMA CommitFailed == Commit => UNCHANGED boundVars
<1>1. CASE Begin(height) \/ Proceed \/ Prepare \/ SaveInfo
  BY Zenon, <1>1 DEF Begin, Proceed, Prepare, SaveInfo, CommitStep
<1>2. CASE StorePvtData \/ AppendBlock
  BY Zenon, <1>2 DEF StorePvtData, AppendBlock
<1>3. CASE IndexBlock \/ CommitState \/ CommitHistory \/ Finish
  BY Zenon, <1>3 DEF IndexBlock, CommitState, CommitHistory, Finish, CommitStep
<1> QED
  BY Zenon, <1>1, <1>2, <1>3 DEF Commit

LEMMA StartFailed == Start => UNCHANGED boundVars
  BY Zenon DEF Start, SyncInfo, Truncate, SyncIndex, OpenLedger, RecommitState, RecommitHistory,
     Opened, StartStep

LEMMA FailsFailed == WriteFails => failed'
  BY Zenon DEF WriteFails, PrepareFails, StorePvtDataFails, AppendBlockFails, SaveInfoFails,
     IndexBlockFails, Fails

\* How many blocks survive a crash.
StoredLen == IF pc \in Starting THEN Whole ELSE info.size

StoredFacts ==
    /\ StoredLen \in 1..Whole /\ IsSeq(Stored) /\ Len(Stored) = StoredLen
    /\ \A i \in 1..StoredLen : Stored[i] = Contents(file[i])

(* The blocks that survive a crash are the first entries of the file.      *)
LEMMA StoredIs == LInv => StoredFacts
<1>1. SUFFICES ASSUME LInv PROVE StoredFacts
  BY Zenon
<1>0. Counts
  BY Zenon, <1>1, Lengths
<1> USE <1>0 DEF Counts
<1>2. StoredLen \in 1..Whole
  BY <1>1 DEF StoredLen, LInv, Infos
<1>3. EndOfScan(0) = Whole
  BY <1>1, ScanFindsWhole
<1>4. Stored = [i \in 1..StoredLen |-> Contents(file[i])]
  BY Zenon, <1>3 DEF Stored, StoredLen
<1>5. QED
  BY <1>2, <1>4, ContentsSeq DEF StoredFacts

LEMMA StoredIsNext == LInv' => StoredFacts'
BY StoredIs, PTL

LEMMA WholeServed == LInv => ServesWhole
<1>1. SUFFICES ASSUME LInv, Unlocked PROVE ServesWhole
  BY Zenon DEF ServesWhole
<1>0. Counts
  BY Zenon, <1>1, Lengths
<1> USE <1>0 DEF Counts
<1>2. /\ pc \in {"idle", "start", "prepare", "done"} /\ height = Len(index)
      /\ Len(state) = height /\ Len(history) = height
  BY Zenon, <1>1 DEF Unlocked, LInv, Serving, ServingAt
<1>3. history = state
  <2>1. IsSeq(history) /\ IsSeq(state)
    BY Zenon, <1>1 DEF LInv, Sequential
  <2>2. \A i \in 1..Len(history) : history[i] = state[i]
    BY Zenon, <1>1, <1>2 DEF LInv, Copies
  <2>3. QED
    BY Zenon, <1>2, <2>1, <2>2, SameElements
<1>4. ASSUME NEW n \in 0..(height - 1)
      PROVE  /\ BlockAt(n).num = n /\ BlockAt(n).block = chain[n + 1]
             /\ state[n + 1] = Contents(BlockAt(n))
  <2>1. n + 1 \in 1..Len(index) /\ n + 1 \in 1..Whole /\ n + 1 \in 1..Len(state)
    BY <1>1, <1>2 DEF LInv, Copies
  <2>2. BlockAt(n) = file[n + 1]
    BY Zenon, <1>1, <2>1 DEF LInv, Indexed, BlockAt
  <2>3. file[n + 1].num = n /\ file[n + 1].block = chain[n + 1]
    BY SMTT(30), <1>1, <2>1, InFile
  <2>4. state[n + 1] = Contents(file[n + 1])
    BY Zenon, <1>1, <2>1 DEF LInv, Copies
  <2>5. QED
    BY Zenon, <2>2, <2>3, <2>4
<1>5. QED
  BY Zenon, <1>2, <1>3, <1>4 DEF ServesWhole

LEMMA PvtDataAhead == LInv => PvtDataFirst
<1>1. SUFFICES ASSUME LInv PROVE PvtDataFirst
  BY Zenon
<1>0. Counts
  BY Zenon, <1>1, Lengths
<1> USE <1>0 DEF Counts
<1>2. Len(Stored) = StoredLen
  BY Zenon, <1>1, StoredIs DEF StoredFacts
<1>3. CASE pc \in Starting
  BY Zenon, <1>1, <1>2, <1>3 DEF LInv, StartingAt, StoredLen, PvtDataFirst
<1>4. CASE pc \notin Starting
  <2>1. StoredLen = info.size /\ info.size = IF pc = "info" THEN height ELSE Len(file)
    BY Zenon, <1>1, <1>4 DEF StoredLen, LInv, Serving
  <2>2. height \in Nat
    BY Zenon, <1>1, <1>4 DEF LInv, Serving
  <2>3. pvtHeight \in {info.size, info.size + 1}
    BY Zenon, <1>1, <1>4, <2>1, <2>2 DEF LInv, ServingAt, Doomed, Places
  <2>4. QED
    BY Zenon, <1>2, <2>1, <2>3 DEF PvtDataFirst
<1>5. QED
  BY Zenon, <1>3, <1>4

(* Whenever blocks can be read, the index and both databases agree with    *)
(* the file, whatever failed before (kvLedger.commit, recoverDBs).         *)
THEOREM LedgerServesWhole == ASSUME "indexAhead" \notin Faults PROVE Spec => []ServesWhole
BY LedgerInvariant, WholeServed, PTL

(* The private data of a block is stored before the block is               *)
(* (commitToPvtAndBlockStore).                                             *)
THEOREM LedgerPvtDataFirst == ASSUME "indexAhead" \notin Faults PROVE Spec => []PvtDataFirst
BY LedgerInvariant, PvtDataAhead, PTL

-----------------------------------------------------------------------------
(* KVLedger implements BlockLedger.                                        *)

(* The stored blocks stay what they are when their entries do.             *)
LEMMA StoredKept ==
    ASSUME LInv, LInv', StoredLen' = StoredLen, \A i \in 1..StoredLen : file'[i] = file[i]
    PROVE  Stored' = Stored
<1>1. StoredFacts /\ StoredFacts'
  BY Zenon, StoredIs, StoredIsNext
<1>2. IsSeq(Stored) /\ IsSeq(Stored') /\ Len(Stored) = Len(Stored')
  BY Zenon, <1>1 DEF StoredFacts
<1>3. \A i \in 1..Len(Stored) : Stored[i] = Stored'[i]
  BY Zenon, <1>1 DEF StoredFacts
<1>4. QED
  BY Zenon, <1>2, <1>3, SameElements

(* With the block in the file and the info saved, or a crash that finds    *)
(* it, the stored blocks are one more: the next of the chain, with the     *)
(* codes it was given on top of the others.                                *)
LEMMA StoredGrows ==
    ASSUME LInv, LInv', pc = "info", UNCHANGED <<chain, file>>, StoredLen' = StoredLen + 1
    PROVE  Ledger!StoreNext
<1>0. Counts
  BY Zenon, Lengths
<1> USE <1>0 DEF Counts
<1>1. /\ height \in Nat /\ info.size = height /\ StoredLen = height /\ num = height
      /\ num < Len(chain) /\ Len(state) = height /\ Whole = height + 1
  BY Zenon DEF LInv, Serving, ServingAt, StoredLen, InPlace
<1>2. StoredFacts /\ StoredFacts'
  BY Zenon, StoredIs, StoredIsNext
<1>3. Stored = state
  <2>1. IsSeq(state) /\ IsSeq(Stored) /\ Len(Stored) = Len(state)
    BY Zenon, <1>1, <1>2 DEF LInv, Sequential, StoredFacts
  <2>2. \A i \in 1..Len(Stored) : Stored[i] = state[i]
    BY <1>1, <1>2 DEF LInv, Copies, StoredFacts
  <2>3. QED
    BY Zenon, <2>1, <2>2, SameElements
<1> DEFINE e == [num |-> height, block |-> chain[height + 1],
                 flags |-> Validate(state, height, chain[height + 1])]
<1>4. Contents(file[height + 1]) = e
  <2>1. file[height + 1].num = height /\ file[height + 1].block = chain[height + 1]
    BY SMTT(30), <1>1, InFile
  <2>2. file[height + 1].flags = Validate(state, height, chain[height + 1])
    BY Zenon, <1>1 DEF LInv, Codes
  <2>3. QED
    BY Zenon, <2>1, <2>2 DEF Contents
<1>5. Ledger!NextEntry = e
  BY Zenon, <1>1, <1>2, <1>3 DEF Ledger!NextEntry, StoredFacts
<1> HIDE DEF e
<1>6. Stored' = Append(Stored, e)
  <2>1. /\ IsSeq(Append(Stored, e)) /\ Len(Append(Stored, e)) = height + 1
        /\ \A i \in 1..height : Append(Stored, e)[i] = Stored[i]
        /\ Append(Stored, e)[height + 1] = e
    <3>1. IsSeq(Stored) /\ Len(Stored) = height
      BY Zenon, <1>1, <1>2 DEF StoredFacts
    <3>2. QED
      BY <3>1, AppendOf
  <2>2. IsSeq(Stored') /\ Len(Stored') = height + 1
    BY Zenon, <1>1, <1>2 DEF StoredFacts
  <2>3. ASSUME NEW i \in 1..(height + 1) PROVE Stored'[i] = Append(Stored, e)[i]
    <3>1. Stored'[i] = Contents(file[i])
      <4>1. StoredLen' = height + 1 /\ file' = file
        BY Zenon, <1>1
      <4>2. \A j \in 1..StoredLen' : Stored'[j] = Contents(file'[j])
        BY Zenon, <1>2 DEF StoredFacts
      <4>3. QED
        BY Zenon, <4>1, <4>2
    <3>2. CASE i \in 1..height
      BY Zenon, <1>1, <1>2, <2>1, <3>1, <3>2 DEF StoredFacts
    <3>3. CASE i = height + 1
      BY Zenon, <1>4, <2>1, <3>1, <3>3
    <3>4. i \in 1..height \/ i = height + 1
      BY <1>1
    <3>5. QED
      BY Zenon, <3>2, <3>3, <3>4
  <2>4. QED
    BY Zenon, <2>1, <2>2, <2>3, SameElements
<1>7. QED
  BY Zenon, <1>1, <1>2, <1>3, <1>5, <1>6 DEF Ledger!StoreNext, StoredFacts

(* Steps that leave the entries, the stored length and the databases       *)
(* alone are no steps of BlockLedger.                                      *)
LEMMA Stutters ==
    ASSUME LInv, LInv', UNCHANGED <<chain, state>>, StoredLen' = StoredLen,
           \A i \in 1..StoredLen : file'[i] = file[i], (pc' \in Starting) <=> (pc \in Starting)
    PROVE  UNCHANGED Ledger!vars
<1>1. Stored' = Stored
  BY Zenon, StoredKept
<1>2. (pc' \notin Starting) = (pc \notin Starting)
  BY Zenon
<1>3. QED
  BY Zenon, <1>1, <1>2 DEF Ledger!vars

(* The end of a process that serves, and of one that starts.               *)
LEMMA EndImplements ==
    ASSUME LInv, LInv', Down, UNCHANGED <<chain, state>>, Whole' \in {StoredLen, StoredLen + 1},
           \A i \in 1..StoredLen : file'[i] = file[i],
           Whole' = StoredLen + 1 => pc = "info" /\ file' = file
    PROVE  [Ledger!Next]_(Ledger!vars)
<1>1. StoredLen' = Whole'
  BY Zenon DEF Down, StoredLen
<1>2. CASE pc \in Starting
  <2>1. StoredLen' = StoredLen
    BY Zenon, <1>1, <1>2
  <2>2. QED
    BY Zenon, <1>2, <2>1, Stutters DEF Down
<1>3. CASE pc \notin Starting
  <2>1. Ledger!StoreNext \/ Stored' = Stored
    BY Zenon, <1>1, StoredGrows, StoredKept
  <2>2. Ledger!Crash
    BY Zenon, <1>3, <2>1 DEF Ledger!Crash, Down
  <2>3. QED
    BY Zenon, <2>2 DEF Ledger!Next
<1>4. QED
  BY Zenon, <1>2, <1>3

(* What a crash would leave is every whole entry, except the one whose     *)
(* info is not yet saved.                                                  *)
AllButUnsaved == StoredLen = IF pc = "info" THEN Whole - 1 ELSE Whole

LEMMA StoredLenIs == LInv => AllButUnsaved
<1>1. SUFFICES ASSUME LInv PROVE StoredLen = IF pc = "info" THEN Whole - 1 ELSE Whole
  BY Zenon DEF AllButUnsaved
<1>0. Counts
  BY Zenon, <1>1, Lengths
<1> USE <1>0 DEF Counts
<1>2. CASE pc \in Starting
  BY Zenon, <1>2 DEF StoredLen
<1>3. CASE pc \notin Starting
  <2>1. Whole = Len(file)
    BY Zenon, <1>1, <1>3 DEF LInv, InPlace
  <2>2. CASE pc = "info"
    BY <1>1, <1>3, <2>1, <2>2 DEF LInv, Serving, ServingAt, StoredLen
  <2>3. CASE pc # "info"
    BY Zenon, <1>1, <1>3, <2>1, <2>3 DEF LInv, Serving, StoredLen
  <2>4. QED
    BY Zenon, <2>2, <2>3
<1>4. QED
  BY Zenon, <1>2, <1>3

LEMMA StoredLenNext == LInv' => AllButUnsaved'
BY StoredLenIs, PTL

(* Steps that write neither the file nor the state database.               *)
LEMMA QuietImplements ==
    ASSUME LInv, LInv', UNCHANGED <<chain, file, state>>, pc # "info", pc' # "info",
           (pc' \in Starting) <=> (pc \in Starting)
    PROVE  UNCHANGED Ledger!vars
<1>1. Whole' = Whole
  BY Zenon DEF Whole, Torn
<1>2. StoredLen' = StoredLen
  BY Zenon, <1>1, StoredLenIs, StoredLenNext DEF AllButUnsaved
<1>3. \A i \in 1..StoredLen : file'[i] = file[i]
  BY Zenon
<1>4. QED
  BY Zenon, <1>2, <1>3, Stutters

(* A block goes from the file to the state database.                       *)
LEMMA ApplyImplements ==
    ASSUME LInv, LInv', UNCHANGED <<chain, file>>, pc # "info", pc' # "info",
           (pc' \in Starting) <=> (pc \in Starting), Len(state) < Whole,
           state' = Append(state, Contents(file[Len(state) + 1]))
    PROVE  Ledger!Apply
<1>0. Counts
  BY Zenon, Lengths
<1> USE <1>0 DEF Counts
<1>1. Whole' = Whole
  BY Zenon DEF Whole, Torn
<1>2. StoredLen' = StoredLen /\ StoredLen = Whole
  BY Zenon, <1>1, StoredLenIs, StoredLenNext DEF AllButUnsaved
<1>3. Stored' = Stored
  BY Zenon, <1>2, StoredKept
<1>4. StoredFacts
  BY Zenon, StoredIs
<1>5. Len(Stored) = Whole /\ Stored[Len(state) + 1] = Contents(file[Len(state) + 1])
  BY <1>2, <1>4 DEF StoredFacts
<1>6. (pc' \notin Starting) = (pc \notin Starting)
  BY Zenon
<1>7. QED
  BY Zenon, <1>3, <1>5, <1>6 DEF Ledger!Apply

(* An error ends the process, or nothing but the first call.               *)
LEMMA ErrorImplements ==
    ASSUME LInv, LInv', Error, UNCHANGED <<chain, state>>, pc \notin Starting,
           Whole' = StoredLen, \A i \in 1..StoredLen : file'[i] = file[i]
    PROVE  [Ledger!Next]_(Ledger!vars)
<1>1. CASE attempt = 1
  <2>1. pc' = "start"
    BY Zenon, <1>1 DEF Error
  <2>2. StoredLen' = StoredLen
    BY Zenon, <2>1, StoredLenNext DEF AllButUnsaved
  <2>3. QED
    BY Zenon, <2>1, <2>2, Stutters
<1>2. CASE attempt # 1
  <2>0. StoredLen \in Nat
    BY StoredLenIs, Lengths, StoredIs DEF StoredFacts, Counts, AllButUnsaved
  <2>1. Down
    BY Zenon, <1>2 DEF Error
  <2>2. QED
    BY <2>0, <2>1, EndImplements
<1>3. QED
  BY Zenon, <1>1, <1>2

(* The same, when the file is left alone.                                  *)
LEMMA PlainErrorImplements ==
    ASSUME LInv, LInv', Error, UNCHANGED <<chain, file, state>>, pc \notin Starting, pc # "info"
    PROVE  [Ledger!Next]_(Ledger!vars)
<1>1. Whole' = Whole
  BY Zenon DEF Whole, Torn
<1>2. Whole' = StoredLen /\ \A i \in 1..StoredLen : file'[i] = file[i]
  BY Zenon, <1>1, StoredLenIs DEF AllButUnsaved
<1>3. QED
  BY Zenon, <1>2, ErrorImplements

LEMMA CommitImplements == ASSUME LInv, LInv', Commit PROVE [Ledger!Next]_(Ledger!vars)
<1>0. Counts
  BY Zenon, Lengths
<1> USE <1>0 DEF Counts
<1>1. CASE Begin(height) \/ Proceed \/ Prepare \/ IndexBlock \/ CommitHistory \/ Finish
  <2>1. /\ UNCHANGED <<chain, file, state>>
        /\ pc \in {"idle", "start", "prepare", "index", "history", "done"}
        /\ pc' \in {"start", "prepare", "pvt", "state", "done", "idle"}
    BY Zenon, <1>1 DEF Begin, Proceed, Prepare, IndexBlock, CommitHistory, Finish, CommitStep, diskVars,
       fileVars
  <2>2. QED
    BY Zenon, <2>1, QuietImplements
<1>2. CASE StorePvtData
  <2>1. CASE ahead \/ pvtHeight = num
    BY Zenon, <1>2, <2>1, QuietImplements DEF StorePvtData
  <2>2. CASE ~(ahead \/ pvtHeight = num)
    BY Zenon, <1>2, <2>2, PlainErrorImplements DEF StorePvtData
  <2>3. QED
    BY Zenon, <2>1, <2>2
<1>3. CASE AppendBlock
  <2>1. /\ pc = "append" /\ num = height /\ Len(file) = height
    BY Zenon, <1>3 DEF LInv, AppendBlock, Serving, ServingAt
  <2>2. /\ pc' = "info" /\ UNCHANGED <<chain, state, info>>
        /\ file' = Append(file, [num |-> num, block |-> chain[num + 1],
                                 flags |-> flags, hash |-> hash])
    BY Zenon, <1>3, <2>1 DEF AppendBlock
  <2>3. StoredLen' = StoredLen /\ StoredLen \in 1..Len(file)
    BY SMTT(30), <2>1, <2>2 DEF StoredLen, LInv, Infos
  <2>4. \A i \in 1..StoredLen : file'[i] = file[i]
    <3>1. IsSeq(file)
      BY Zenon DEF LInv, Sequential
    <3>2. \A i \in 1..Len(file) : file'[i] = file[i]
      BY <2>2, <3>1, AppendOf
    <3>3. QED
      BY <2>3, <3>2
  <2>5. QED
    BY Zenon, <2>1, <2>2, <2>3, <2>4, Stutters
<1>4. CASE SaveInfo
  <2>1. /\ pc = "info" /\ pc' = "index" /\ UNCHANGED <<chain, file, state>>
    BY Zenon, <1>4 DEF SaveInfo, CommitStep
  <2>2. Whole' = Whole
    BY Zenon, <2>1 DEF Whole, Torn
  <2>3. StoredLen' = StoredLen + 1
    BY <2>1, <2>2, StoredLenIs, StoredLenNext DEF AllButUnsaved
  <2>4. Ledger!StoreNext
    BY Zenon, <2>1, <2>3, StoredGrows
  <2>5. (pc' \notin Starting) = (pc \notin Starting)
    BY Zenon, <2>1
  <2>6. Ledger!Store
    BY Zenon, <2>1, <2>4, <2>5 DEF Ledger!Store
  <2>7. QED
    BY Zenon, <2>6 DEF Ledger!Next
<1>5. CASE CommitState
  <2>1. /\ pc = "state" /\ pc' = "history" /\ UNCHANGED <<chain, file>>
        /\ state' = Append(state, [num |-> num, block |-> chain[num + 1], flags |-> flags])
    BY Zenon, <1>5 DEF CommitState, CommitStep, fileVars
  <2>2. /\ num = height - 1 /\ height = Whole /\ Len(state) = height - 1
    BY Zenon, <2>1 DEF LInv, Serving, ServingAt, InPlace
  <2>3. [num |-> num, block |-> chain[num + 1], flags |-> flags] = Contents(file[height])
    <3>1. file[height].num = height - 1 /\ file[height].block = chain[height]
      BY SMTT(30), <2>2, InFile
    <3>2. file[num + 1].flags = flags
      BY Zenon, <2>1 DEF LInv, Codes
    <3>3. QED
      BY <2>2, <3>1, <3>2 DEF Contents
  <2>4. Len(state) < Whole /\ state' = Append(state, Contents(file[Len(state) + 1]))
    BY <2>1, <2>2, <2>3
  <2>5. QED
    BY Zenon, <2>1, <2>4, ApplyImplements DEF Ledger!Next
<1>6. QED
  BY Zenon, <1>1, <1>2, <1>3, <1>4, <1>5 DEF Commit

LEMMA StartImplements == ASSUME LInv, LInv', Start PROVE [Ledger!Next]_(Ledger!vars)
<1>0. Counts
  BY Zenon, Lengths
<1> USE <1>0 DEF Counts
<1>1. CASE SyncInfo \/ SyncIndex \/ OpenLedger \/ RecommitHistory
  <2>1. UNCHANGED <<chain, file, state>>
    BY Zenon, <1>1 DEF SyncInfo, SyncIndex, OpenLedger, RecommitHistory, StartStep, diskVars, fileVars
  <2>2. pc \in Starting /\ pc # "info" /\ pc' \in Starting /\ pc' # "info"
    BY Zenon, <1>1 DEF SyncInfo, SyncIndex, OpenLedger, RecommitHistory, StartStep
  <2>3. QED
    BY Zenon, <2>1, <2>2, QuietImplements
<1>2. CASE Truncate
  <2>1. /\ pc = "truncate" /\ pc' = "reindex" /\ info.size = Whole
        /\ file' = SubSeq(file, 1, Whole) /\ UNCHANGED <<chain, info, state>>
    BY Zenon, <1>2 DEF Truncate, StartStep, LInv, StartingAt
  <2>2. StoredLen = Whole /\ StoredLen' = Whole'
    BY Zenon, <2>1 DEF StoredLen
  <2>3. Whole' = Whole
    BY Zenon, <2>1 DEF LInv, StartingAt
  <2>4. \A i \in 1..StoredLen : file'[i] = file[i]
    <3>1. IsSeq(file) /\ Whole \in 0..Len(file)
      BY DEF LInv, Sequential
    <3>2. QED
      BY Zenon, <2>1, <2>2, <3>1, PrefixOf
  <2>5. QED
    BY Zenon, <2>1, <2>2, <2>3, <2>4, Stutters
<1>3. CASE RecommitState
  <2>1. /\ pc = "recover" /\ pc' = "recover" /\ UNCHANGED <<chain, file>> /\ height = Whole
    BY Zenon, <1>3 DEF RecommitState, StartStep, fileVars, LInv, StartingAt
  <2>2. NextRequired(state) = Len(state) /\ Len(state) \in 1..Whole
    BY Zenon, NextIsLength DEF LInv, Copies
  <2>3. Len(state) < Whole
    BY Zenon, <1>3, <2>1, <2>2 DEF RecommitState
  <2>4. BlockAt(Len(state)) = file[Len(state) + 1]
    BY <2>1, <2>2, <2>3, EntryOf
  <2>5. state' = Append(state, Contents(file[Len(state) + 1]))
    BY Zenon, <1>3, <2>2, <2>4 DEF RecommitState
  <2>6. QED
    BY Zenon, <2>1, <2>3, <2>5, ApplyImplements DEF Ledger!Next
<1>4. CASE Opened
  <2>1. /\ pc = "recover" /\ pc' = "idle" /\ height = Whole /\ Len(state) = height
    BY Zenon, <1>4, OpenedWhole
  <2>2. UNCHANGED <<chain, file, state>>
    BY Zenon, <1>4 DEF Opened, StartStep, diskVars, fileVars
  <2>3. Whole' = Whole
    BY Zenon, <2>2 DEF Whole, Torn
  <2>4. StoredLen' = StoredLen /\ StoredLen = Whole
    BY Zenon, <2>1, <2>3, StoredLenIs, StoredLenNext DEF AllButUnsaved
  <2>5. Stored' = Stored
    BY Zenon, <2>2, <2>4, StoredKept
  <2>6. state = Stored
    <3>1. StoredFacts
      BY Zenon, StoredIs
    <3>2. IsSeq(state) /\ IsSeq(Stored) /\ Len(Stored) = Len(state)
      BY Zenon, <2>1, <2>4, <3>1 DEF LInv, Sequential, StoredFacts
    <3>3. \A i \in 1..Len(Stored) : Stored[i] = state[i]
      BY Zenon, <2>1, <2>4, <3>1 DEF LInv, Copies, StoredFacts
    <3>4. QED
      BY Zenon, <3>2, <3>3, SameElements
  <2>7. Ledger!Restart
    BY Zenon, <2>1, <2>2, <2>5, <2>6 DEF Ledger!Restart
  <2>8. QED
    BY Zenon, <2>7 DEF Ledger!Next
<1>5. QED
  BY Zenon, <1>1, <1>2, <1>3, <1>4 DEF Start

LEMMA FailureImplements == ASSUME LInv, LInv', WriteFails PROVE [Ledger!Next]_(Ledger!vars)
<1>0. Counts
  BY Zenon, Lengths
<1> USE <1>0 DEF Counts
<1>1. CASE PrepareFails \/ StorePvtDataFails \/ AppendBlockFails \/ IndexBlockFails
  <2>1. /\ Error /\ UNCHANGED <<chain, file, state>>
        /\ pc \in {"prepare", "pvt", "append", "index"}
    BY Zenon, <1>1 DEF PrepareFails, StorePvtDataFails, AppendBlockFails, IndexBlockFails
  <2>2. QED
    BY Zenon, <2>1, PlainErrorImplements
<1>2. CASE SaveInfoFails
  <2>1. /\ pc = "info" /\ height = Len(index) /\ size = height /\ Whole = height + 1
    BY Zenon, <1>2 DEF SaveInfoFails, LInv, Serving, ServingAt, InPlace
  <2>2. StoredLen = height
    BY <2>1, StoredLenIs DEF AllButUnsaved
  <2>3. Error /\ file' = SubSeq(file, 1, height) /\ UNCHANGED <<chain, state>>
    BY Zenon, <1>2, <2>1 DEF SaveInfoFails
  <2>4. Len(file') = height /\ \A i \in 1..height : file'[i] = file[i]
    <3>1. IsSeq(file) /\ height \in 0..Len(file)
      BY <2>1 DEF LInv, Sequential
    <3>2. QED
      BY Zenon, <2>3, <3>1, PrefixOf
  <2>5. Whole' = height
    <3>1. file[height] # Torn
      BY SMTT(30), <2>1, InFile
    <3>2. file'[height] = file[height]
      BY <2>1, <2>4
    <3>3. QED
      BY Zenon, <2>4, <3>1, <3>2 DEF Whole, Torn
  <2>6. QED
    BY Zenon, <2>1, <2>2, <2>3, <2>4, <2>5, ErrorImplements
<1>3. QED
  BY Zenon, <1>1, <1>2 DEF WriteFails

LEMMA CrashImplements == ASSUME LInv, LInv', Crash PROVE [Ledger!Next]_(Ledger!vars)
<1>0. Counts
  BY Zenon, Lengths
<1> USE <1>0 DEF Counts
<1>1. Down /\ UNCHANGED <<chain, state>>
  BY Zenon DEF Crash
<1>2. StoredLen = IF pc = "info" THEN Whole - 1 ELSE Whole
  BY Zenon, StoredLenIs DEF AllButUnsaved
<1>3. CASE file' = file
  <2>1. Whole' = Whole
    BY Zenon, <1>3 DEF Whole, Torn
  <2>2. QED
    BY <1>1, <1>2, <1>3, <2>1, EndImplements
<1>4. CASE pc = "append" /\ file' = Append(file, Torn)
  <2>1. /\ Len(file') = Len(file) + 1 /\ file'[Len(file) + 1] = Torn
        /\ \A i \in 1..Len(file) : file'[i] = file[i]
    <3>1. IsSeq(file)
      BY Zenon DEF LInv, Sequential
    <3>2. QED
      BY <1>4, <3>1, AppendOf
  <2>2. Whole' = Whole
    <3>1. Whole = Len(file)
      BY Zenon, <1>4 DEF LInv, InPlace
    <3>2. Whole' = Len(file') - 1
      BY Zenon, <2>1 DEF Whole, Torn
    <3>3. QED
      BY <2>1, <3>1, <3>2
  <2>3. QED
    BY <1>1, <1>2, <1>4, <2>1, <2>2, EndImplements
<1>5. QED
  BY Zenon, <1>3, <1>4 DEF Crash

(* Every step of the ledger is a step of BlockLedger, or none: whatever    *)
(* fails and whenever the process ends, blocks are stored in the order of  *)
(* the chain with the codes that the blocks before them call for, none is  *)
(* lost, and the state grows by whole blocks.                              *)
THEOREM LedgerImplements == ASSUME "indexAhead" \notin Faults PROVE Spec => ImplementsLedger
<1>1. Init => Ledger!Init
  <2>1. SUFFICES ASSUME Init PROVE Ledger!Init
    BY Zenon
  <2>2. LInv
    BY Zenon, <2>1, InitLInv
  <2>3. StoredFacts /\ StoredLen = 1
    BY Zenon, <2>1, <2>2, StoredIs DEF StoredLen, Init
  <2>4. Len(Stored) = 1 /\ Stored[1] = Genesis /\ IsSeq(Stored)
    <3>1. Stored[1] = Contents(file[1]) /\ Len(Stored) = 1 /\ IsSeq(Stored)
      BY <2>3 DEF StoredFacts
    <3>2. Contents(file[1]) = Genesis
      BY Zenon, <2>1 DEF Init, Contents, Genesis
    <3>3. QED
      BY Zenon, <3>1, <3>2
  <2>5. IsSeq(state) /\ Len(state) = 1 /\ state[1] = Genesis
    BY Zenon, <2>1, <2>2 DEF LInv, Sequential, Init
  <2>6. Stored = state
    BY <2>4, <2>5, SameElements
  <2>7. QED
    BY Zenon, <2>1, <2>6 DEF Init, Ledger!Init, Ledger!Genesis, Genesis
<1>2. LInv /\ LInv' /\ [Next]_vars => [Ledger!Next]_(Ledger!vars)
  <2>1. ASSUME LInv, LInv', UNCHANGED vars PROVE UNCHANGED Ledger!vars
    BY Zenon, <2>1 DEF vars, diskVars, fileVars, Ledger!vars, Stored, EndOfScan, Torn, Contents
  <2>2. QED
    BY Zenon, <2>1, CommitImplements, StartImplements, FailureImplements, CrashImplements DEF Next
<1>3. QED
  BY <1>1, <1>2, LedgerInvariant, PTL DEF Spec, ImplementsLedger, Ledger!Spec

-----------------------------------------------------------------------------
(* The commit hash.                                                        *)

(* l.commitHash is the hash in the last block, except while a block is on  *)
(* its way to the file or a call of CommitLegacy is repeated: the first    *)
(* call may have hashed the block already.                                 *)
LastHash ==
    /\ \/ pc \in {"idle", "state", "history", "done", "recover"}
       \/ pc \in {"start", "prepare"} /\ attempt = 1
       => commitHash = file[height].hash
    /\ pc \in {"pvt", "append", "info", "index"} => hash = commitHash
    /\ pc \in {"info", "index"} => file[height + 1].hash = commitHash

(* An error leaves nothing to show.                                        *)
LEMMA ErrorLastHash == ASSUME Error PROVE LastHash'
  BY DEF Error, Down, LastHash

LEMMA CommitLastHash == ASSUME LInv, LInv', LastHash, Commit PROVE LastHash'
<1>1. CASE Begin(height) \/ Proceed \/ SaveInfo \/ Finish
  BY Zenon, <1>1 DEF Begin, Proceed, SaveInfo, Finish, CommitStep, LastHash, diskVars, fileVars, memVars,
     blockVars
<1>2. CASE CommitState \/ CommitHistory
  BY Zenon, <1>2 DEF CommitState, CommitHistory, CommitStep, LastHash, fileVars, memVars, blockVars
<1>3. CASE Prepare
  BY Zenon, <1>3 DEF Prepare, CommitStep, LastHash
<1>4. CASE StorePvtData
  BY Zenon, <1>4, ErrorLastHash DEF StorePvtData, LastHash, memVars, blockVars
<1>5. CASE AppendBlock
  <2>1. pc = "append" /\ num = height /\ Len(file) = height /\ IsSeq(file)
    BY Zenon, <1>5 DEF AppendBlock, LInv, Serving, ServingAt, Sequential
  <2>2. /\ pc' = "info" /\ UNCHANGED <<hash, commitHash, height>>
        /\ file' = Append(file, [num |-> num, block |-> chain[num + 1],
                                 flags |-> flags, hash |-> hash])
    BY Zenon, <1>5, <2>1 DEF AppendBlock, memVars, blockVars
  <2>3. file'[height + 1].hash = hash
    BY <2>1, <2>2, AppendOf
  <2> QED
    BY Zenon, <2>1, <2>2, <2>3 DEF LastHash
<1>6. CASE IndexBlock
  BY Zenon, <1>6 DEF IndexBlock, CommitStep, LastHash, blockVars
<1> QED
  BY Zenon, <1>1, <1>2, <1>3, <1>4, <1>5, <1>6 DEF Commit

LEMMA StartLastHash == ASSUME LInv, LInv', LastHash, Start PROVE LastHash'
<1>1. CASE SyncInfo \/ Truncate \/ SyncIndex
  BY Zenon, <1>1 DEF SyncInfo, Truncate, SyncIndex, StartStep, LastHash
<1>2. CASE OpenLedger
  <2>1. pc = "open" /\ height = Whole /\ Len(index) = Whole /\ Whole \in Nat \ {0}
    BY <1>2 DEF OpenLedger, StartStep, LInv, StartingAt, InPlace
  <2>2. BlockAt(height - 1) = file[height]
    BY <2>1 DEF BlockAt, LInv, Indexed
  <2>3. /\ pc' = "recover" /\ commitHash' = BlockAt(height - 1).hash
        /\ height' = height /\ file' = file
    BY Zenon, <1>2 DEF OpenLedger, StartStep, diskVars, fileVars
  <2> QED
    BY Zenon, <2>2, <2>3 DEF LastHash
<1>3. CASE RecommitState \/ RecommitHistory \/ Opened
  <2>1. pc = "recover" /\ pc' \in {"recover", "idle", "broken"} /\ UNCHANGED <<commitHash, height, file>>
    BY Zenon, <1>3 DEF RecommitState, RecommitHistory, Opened, StartStep, fileVars, diskVars
  <2> QED
    BY Zenon, <2>1 DEF LastHash
<1> QED
  BY Zenon, <1>1, <1>2, <1>3 DEF Start

LEMMA EndLastHash == ASSUME WriteFails \/ Crash PROVE LastHash'
<1>1. CASE WriteFails
  BY Zenon, <1>1, ErrorLastHash DEF WriteFails, PrepareFails, StorePvtDataFails, AppendBlockFails,
     SaveInfoFails, IndexBlockFails
<1>2. CASE Crash
  BY Zenon, <1>2 DEF Crash, Down, LastHash
<1> QED
  BY Zenon, <1>1, <1>2

-----------------------------------------------------------------------------
(* As long as no write has failed.                                         *)

(* The hashes are chained, also that of the block on its way; no call is   *)
(* repeated, and a private data store that is ahead is known to be.        *)
Chained ==
    /\ \A i \in 1..Whole : file[i].hash = HashOf(file, i - 1)
    /\ pc \in {"pvt", "append"} =>
          hash = Append(HashOf(file, height - 1), [num |-> num, flags |-> flags])
    /\ pc \in {"start", "prepare", "pvt", "append", "info", "index"} => attempt = 1
    /\ pc \in {"recover", "idle", "start", "prepare", "pvt"} /\ pvtHeight > height => ahead

(* Entries that stay where they are keep their hashes chained.             *)
LEMMA EntriesChained ==
    ASSUME LInv, Chained, Whole' \in 1..Whole, \A i \in 1..Whole' : file'[i] = file[i]
    PROVE  \A i \in 1..Whole' : file'[i].hash = HashOf(file', i - 1)
<1> SUFFICES ASSUME NEW i \in 1..Whole' PROVE file'[i].hash = HashOf(file', i - 1)
  BY Zenon
<1>1. Whole \in Nat
  BY Lengths DEF Counts
<1>2. HashOf(file', i - 1) = HashOf(file, i - 1)
  BY <1>1, HashKept
<1>3. file[i].hash = HashOf(file, i - 1)
  BY <1>1 DEF Chained
<1> QED
  BY Zenon, <1>2, <1>3

LEMMA CommitChained ==
    ASSUME LInv, LInv', LastHash, Chained, Commit
    PROVE  Chained'
<1>0. Counts
  BY Zenon, Lengths
<1>1. Whole' = Whole /\ file' = file => \A i \in 1..Whole' : file'[i].hash = HashOf(file', i - 1)
  BY <1>0, EntriesChained DEF Counts
<1>2. UNCHANGED <<file, height>> => HashOf(file', height - 1) = HashOf(file, height - 1)
  BY Zenon DEF HashOf
<1>3. CASE Begin(height) \/ Proceed
  <2>1. /\ pc \in {"idle", "start"} /\ pc' \in {"start", "prepare"}
        /\ UNCHANGED <<file, height, pvtHeight, ahead>>
        /\ attempt' = 1 \/ (pc = "start" /\ attempt' = attempt)
    BY Zenon, <1>3 DEF Begin, Proceed, CommitStep, diskVars, fileVars, memVars, blockVars
  <2> QED
    BY Zenon, <1>1, <2>1 DEF Chained, Whole
<1>4. CASE Prepare
  <2>1. /\ pc = "prepare" /\ pc' = "pvt" /\ UNCHANGED <<file, height, pvtHeight, ahead, num, attempt>>
        /\ hash' = IF num = 1 \/ commitHash # <<>>
                   THEN Append(commitHash, [num |-> num, flags |-> flags']) ELSE commitHash
    BY Zenon, <1>4 DEF Prepare, CommitStep, diskVars, fileVars
  <2>2. num = height /\ height \in Nat \ {0} /\ height <= Whole
    BY <1>0, <2>1 DEF LInv, Serving, Indexed, Counts
  <2>3. commitHash = HashOf(file, height - 1)
    BY <2>1, <2>2 DEF LastHash, Chained
  <2>4. num = 1 \/ commitHash # <<>>
    <3>1. Len(HashOf(file, height - 1)) = height - 1
      BY <2>2 DEF HashOf
    <3> QED
      BY <2>2, <2>3, <3>1
  <2>5. hash' = Append(HashOf(file', height - 1), [num |-> num', flags |-> flags'])
    BY Zenon, <1>2, <2>1, <2>3, <2>4
  <2> QED
    BY Zenon, <1>1, <2>1, <2>5 DEF Chained, Whole
<1>5. CASE StorePvtData
  <2>1. pc = "pvt" /\ num = height /\ height \in Nat /\ pvtHeight \in {height, height + 1}
    BY Zenon, <1>0, <1>5 DEF StorePvtData, LInv, Serving, ServingAt, Counts
  <2>2. ahead \/ pvtHeight = num
    BY <2>1 DEF Chained
  <2>3. pc' = "append" /\ UNCHANGED <<file, height, hash, flags, num, attempt>>
    BY Zenon, <1>5, <2>2 DEF StorePvtData, memVars, blockVars
  <2> QED
    BY Zenon, <1>1, <1>2, <2>1, <2>3 DEF Chained, Whole
<1>6. CASE AppendBlock
  <2>1. /\ pc = "append" /\ num = height /\ Len(file) = height /\ IsSeq(file) /\ Whole = height
        /\ height \in Nat \ {0}
    <3>1. pc = "append" /\ num = height
      BY Zenon, <1>6 DEF AppendBlock, LInv, Serving
    <3>2. Len(file) = height /\ Whole = height
      BY Zenon, <3>1 DEF LInv, Serving, ServingAt, InPlace
    <3>3. IsSeq(file) /\ height \in Nat \ {0}
      BY <1>0, <3>2 DEF LInv, Sequential, Counts
    <3> QED
      BY Zenon, <3>1, <3>2, <3>3
  <2>2. /\ pc' = "info" /\ UNCHANGED <<height, attempt>>
        /\ file' = Append(file, [num |-> num, block |-> chain[num + 1],
                                 flags |-> flags, hash |-> hash])
    BY Zenon, <1>6, <2>1 DEF AppendBlock, memVars, blockVars
  <2>3. /\ \A i \in 1..height : file'[i] = file[i]
        /\ file'[height + 1].hash = hash /\ file'[height + 1].flags = flags
        /\ Len(file') = height + 1
    BY SMTT(30), <2>1, <2>2, AppendOf
  <2>4. Whole' = height + 1
    BY Zenon, <2>2, <2>3 DEF LInv, InPlace
  <2>5. \A n \in 0..(height - 1) : HashOf(file', n) = HashOf(file, n)
    BY <2>1, <2>3, HashKept
  <2>6. hash = HashOf(file', height)
    <3>1. hash = Append(HashOf(file, height - 1), [num |-> height, flags |-> flags])
      BY Zenon, <2>1 DEF Chained
    <3>2. HashOf(file', height)
             = Append(HashOf(file', height - 1), [num |-> height, flags |-> file'[height + 1].flags])
      BY <2>1, HashExtends
    <3> QED
      BY <2>1, <2>3, <2>5, <3>1, <3>2
  <2>7. ASSUME NEW i \in 1..Whole' PROVE file'[i].hash = HashOf(file', i - 1)
    <3>1. CASE i = height + 1
      BY <2>1, <2>3, <2>6, <3>1
    <3>2. CASE i \in 1..height
      BY <2>1, <2>3, <2>5, <3>2 DEF Chained
    <3> QED
      BY <2>1, <2>4, <3>1, <3>2
  <2> QED
    BY Zenon, <2>1, <2>2, <2>7 DEF Chained
<1>7. CASE SaveInfo
  <2>1. pc = "info" /\ pc' = "index" /\ file' = file /\ attempt' = attempt
    BY Zenon, <1>7 DEF SaveInfo, CommitStep, memVars, blockVars
  <2> QED
    BY Zenon, <1>1, <2>1 DEF Chained, Whole
<1>8. CASE IndexBlock \/ CommitState \/ CommitHistory
  <2>1. pc' \in {"state", "history", "done"} /\ file' = file
    BY Zenon, <1>8 DEF IndexBlock, CommitState, CommitHistory, CommitStep, fileVars
  <2> QED
    BY Zenon, <1>1, <2>1 DEF Chained, Whole
<1>9. CASE Finish
  <2>1. /\ pc = "done" /\ pc' = "idle" /\ UNCHANGED <<file, pvtHeight, height>>
        /\ pvtHeight = height /\ height \in Nat
    BY Zenon, <1>0, <1>9 DEF Finish, CommitStep, diskVars, fileVars, memVars, LInv, Serving, ServingAt, Counts
  <2> QED
    BY <1>1, <2>1 DEF Chained, Whole
<1> QED
  BY Zenon, <1>3, <1>4, <1>5, <1>6, <1>7, <1>8, <1>9 DEF Commit

LEMMA StartChained ==
    ASSUME LInv, LInv', LastHash, Chained, Start
    PROVE  Chained'
<1>0. Counts
  BY Zenon, Lengths
<1>1. ASSUME Whole' = Whole, \A i \in 1..Whole : file'[i] = file[i]
      PROVE  \A i \in 1..Whole' : file'[i].hash = HashOf(file', i - 1)
  BY <1>0, <1>1, EntriesChained DEF Counts
<1>2. CASE SyncInfo \/ SyncIndex
  <2>1. pc' \in {"truncate", "open", "broken"} /\ file' = file
    BY Zenon, <1>2 DEF SyncInfo, SyncIndex, StartStep
  <2> QED
    BY Zenon, <1>1, <2>1 DEF Chained, Whole
<1>3. CASE Truncate
  <2>1. /\ pc = "truncate" /\ pc' = "reindex" /\ info.size = Whole
        /\ file' = SubSeq(file, 1, info.size) /\ IsSeq(file)
    BY Zenon, <1>3 DEF Truncate, StartStep, LInv, StartingAt, Sequential
  <2>2. Len(file') = Whole /\ \A i \in 1..Whole : file'[i] = file[i]
    BY SMTT(30), <1>0, <2>1, PrefixOf DEF Counts
  <2>3. Whole' = Whole
    BY Zenon, <2>1, <2>2 DEF LInv, InPlace
  <2> QED
    BY Zenon, <1>1, <2>1, <2>2, <2>3 DEF Chained
<1>4. CASE OpenLedger
  <2>1. pc' = "recover" /\ file' = file /\ UNCHANGED <<pvtHeight, height>> /\ ahead' = (pvtHeight > height)
    BY Zenon, <1>4 DEF OpenLedger, StartStep, diskVars, fileVars
  <2> QED
    BY Zenon, <1>1, <2>1 DEF Chained, Whole
<1>5. CASE RecommitState \/ RecommitHistory \/ Opened
  <2>1. /\ pc = "recover" /\ pc' \in {"recover", "idle", "broken"}
        /\ UNCHANGED <<pvtHeight, height, file, ahead>>
    BY Zenon, <1>5 DEF RecommitState, RecommitHistory, Opened, StartStep, fileVars, diskVars
  <2> QED
    BY Zenon, <1>1, <2>1 DEF Chained, Whole
<1> QED
  BY Zenon, <1>2, <1>3, <1>4, <1>5 DEF Start

LEMMA CrashChained == ASSUME LInv, Chained, Crash PROVE Chained'
<1>0. Counts
  BY Zenon, Lengths
<1>1. pc' = "down" /\ pc # "down" /\ file' \in IF pc = "append" THEN {file, Append(file, Torn)} ELSE {file}
  BY Zenon, <1>0 DEF Crash, Down
<1>2. Whole' = Whole /\ \A i \in 1..Whole : file'[i] = file[i]
  <2>1. CASE file' = file
    BY Zenon, <2>1 DEF Whole
  <2>2. CASE pc = "append" /\ file' = Append(file, Torn)
    <3>1. IsSeq(file) /\ Whole = Len(file)
      BY Zenon, <2>2 DEF LInv, Sequential, InPlace
    <3>2. Len(file') = Len(file) + 1 /\ file'[Len(file) + 1] = Torn /\ \A i \in 1..Len(file) : file'[i] = file[i]
      BY <2>2, <3>1, AppendOf
    <3> QED
      BY <1>0, <3>1, <3>2 DEF Whole, Counts
  <2> QED
    BY Zenon, <1>1, <2>1, <2>2
<1>3. \A i \in 1..Whole' : file'[i].hash = HashOf(file', i - 1)
  BY <1>0, <1>2, EntriesChained DEF Counts
<1> QED
  BY Zenon, <1>1, <1>3 DEF Chained

(* No assumption on the faults: with the first failing write the property  *)
(* has nothing left to say.                                                *)
HashInv == failed \/ (LInv /\ LastHash /\ Chained)

(* Whatever step of the ledger.                                            *)
LEMMA NextHashes == ASSUME HashInv, Next PROVE HashInv'
<1>1. CASE failed
  <2>1. failed'
    <3>1. CASE Commit
      BY Zenon, <1>1, <3>1, CommitFailed DEF boundVars
    <3>2. CASE Start
      BY Zenon, <1>1, <3>2, StartFailed DEF boundVars
    <3>3. CASE WriteFails
      BY Zenon, <3>3, FailsFailed
    <3>4. CASE Crash
      BY Zenon, <1>1, <3>4 DEF Crash
    <3> QED
      BY Zenon, <3>1, <3>2, <3>3, <3>4 DEF Next
  <2> QED
    BY Zenon, <2>1 DEF HashInv
<1>2. CASE WriteFails
  BY Zenon, <1>2 DEF HashInv, WriteFails, PrepareFails, StorePvtDataFails,
     AppendBlockFails, SaveInfoFails, IndexBlockFails, Fails
<1>3. CASE ~failed /\ (Commit \/ Start \/ Crash)
  <2>1. LInv'
    BY Zenon, <1>3, StepKeeps DEF HashInv
  <2> QED
    BY Zenon, <1>3, <2>1, CommitLastHash, StartLastHash, EndLastHash, CommitChained, StartChained,
       CrashChained DEF HashInv
<1> QED
  BY Zenon, <1>1, <1>2, <1>3 DEF Next

LEMMA InitHashes == ASSUME Init PROVE HashInv
<1>1. /\ pc = "idle" /\ height = 1 /\ commitHash = <<>> /\ pvtHeight = 1 /\ Len(file) = 1
      /\ file[1].hash = <<>>
  BY Zenon DEF Init
<1>2. HashOf(file, 0) = <<>>
  BY DEF HashOf
<1>3. LInv /\ Whole = 1
  BY Zenon, <1>1, InitLInv DEF LInv, InPlace
<1> QED
  BY <1>1, <1>2, <1>3 DEF HashInv, LastHash, Chained

LEMMA HashesFollow == HashInv => HashesSurvive
<1> SUFFICES ASSUME HashInv, ~failed PROVE HashesAgree
  BY Zenon DEF HashesSurvive
<1>1. LInv /\ Chained
  BY Zenon DEF HashInv
<1>2. Len(Stored) \in 1..Whole /\ Whole \in Nat
  BY <1>1, StoredIs, Lengths DEF StoredFacts, Counts
<1> SUFFICES ASSUME NEW i \in 1..Len(Stored) PROVE file[i].hash = HashUpTo(i - 1)
  BY Zenon DEF HashesAgree
<1>3. file[i].hash = HashOf(file, i - 1)
  BY <1>1, <1>2 DEF Chained
<1> QED
  BY Zenon, <1>3 DEF HashOf, HashUpTo

(* As long as no write has failed, the commit hash in every block that     *)
(* survives a crash is the chained hash of the blocks up to it             *)
(* (addBlockCommitHash, lastPersistedCommitHash), for any chains, any      *)
(* validation and any number of crashes.                                   *)
THEOREM LedgerHashesSurvive == Spec => []HashesSurvive
<1>1. HashInv /\ [Next]_vars => HashInv'
  <2> SUFFICES ASSUME HashInv, UNCHANGED vars PROVE HashInv'
    BY Zenon, NextHashes
  <2> QED
    <3>1. UNCHANGED <<ledgerVars, failed, hash, commitHash>>
      BY Zenon DEF vars, ledgerVars, memVars, blockVars, boundVars
    <3>2. UNCHANGED <<file, pc, num, attempt, flags, pvtHeight, ahead, height>>
      BY Zenon, <3>1 DEF ledgerVars, diskVars, fileVars
    <3>3. LInv => LInv'
      BY Zenon, <3>1, UnchangedKeeps
    <3> QED
      BY Zenon, <3>1, <3>2, <3>3 DEF HashInv, LastHash, Chained, Whole
<1>2. Init => HashInv
  BY Zenon, InitHashes
<1> QED
  BY <1>1, <1>2, HashesFollow, PTL DEF Spec

-----------------------------------------------------------------------------
(* What the modules on top of the ledger use of it.                        *)

\* The last block whose commit is done, and the last one that the ledger has
\* or will have once it is open.
Last == IF pc \in {"state", "history", "done"} THEN height - 2 ELSE height - 1
Sure == IF pc \in Starting THEN Whole - 1 ELSE Last

SureFacts ==
    /\ Sure \in Nat /\ Sure + 1 <= StoredLen /\ Sure < Len(chain)
    /\ pc \notin Starting => height \in 1..Len(chain) /\ Whole \in {Last + 1, Last + 2}

LEMMA SureIs == LInv => SureFacts
<1> SUFFICES ASSUME LInv PROVE SureFacts
  BY Zenon
<1>0. Counts /\ Whole <= Len(chain)
  BY Lengths DEF LInv, InPlace
<1> USE <1>0 DEF Counts
<1>1. CASE pc \in Starting
  BY <1>1 DEF SureFacts, Sure, StoredLen
<1>2. CASE pc \notin Starting
  <2>1. Whole = Len(file) /\ height = Len(index) /\ height \in 1..Len(file)
    BY <1>2 DEF LInv, InPlace, Serving, Indexed
  <2>2. StoredLen = IF pc = "info" THEN Whole - 1 ELSE Whole
    BY Zenon, StoredLenIs DEF AllButUnsaved
  <2>3. CASE pc \in {"state", "history", "done"}
    <3>1. Len(file) = height /\ height >= 2
      BY <2>1, <2>3 DEF LInv, ServingAt, Serving, Copies
    <3> QED
      BY SMTT(30), <1>2, <2>1, <2>2, <2>3, <3>1 DEF SureFacts, Sure, Last
  <2>4. CASE pc \notin {"state", "history", "done"}
    <3>1. Len(file) \in {height, height + 1} /\ (pc = "info" => Len(file) = height + 1)
      BY Zenon, <1>2, <2>1, <2>4 DEF LInv, ServingAt, Places, Doomed
    <3> QED
      BY <1>2, <2>1, <2>2, <2>4, <3>1 DEF SureFacts, Sure, Last
  <2> QED
    BY Zenon, <2>3, <2>4
<1> QED
  BY Zenon, <1>1, <1>2

LEMMA SureNext == LInv' => SureFacts'
BY SureIs, PTL

\* Before the first call of CommitLegacy has begun to write.
Early == pc = "idle" \/ (pc = "start" /\ attempt = 1)

LEMMA EarlyWhole ==
    ASSUME LInv, Early
    PROVE  /\ pc \notin Starting /\ height = Last + 1 /\ Whole = height /\ Len(state) = height
<1>1. Len(file) = height /\ Len(state) = height /\ Whole = Len(file)
  BY DEF Early, LInv, InPlace, ServingAt, Doomed
<1>2. height \in Nat
  BY Zenon, <1>1, Lengths DEF Counts
<1> QED
  BY <1>1, <1>2 DEF Early, Last

LEMMA EarlyIs ==
    ASSUME LInv, LastHash, Early
    PROVE  /\ pc \notin Starting /\ height = Last + 1 /\ Whole = height /\ Len(state) = height
           /\ commitHash = file[height].hash
<1>1. commitHash = file[height].hash
  BY Zenon DEF Early, LastHash
<1> QED
  BY Zenon, <1>1, EarlyWhole

\* A step that does not end a commit: the blocks counted on stay as they are,
\* and at most the end of the process during a commit adds one.
Moves ==
    /\ chain' = chain /\ \A i \in 1..(Sure + 1) : file'[i] = file[i]
    /\ Sure' = Sure \/ (pc \notin Starting /\ ~Early /\ pc' = "down" /\ Sure' = Sure + 1)

LEMMA FinishMoves ==
    ASSUME LInv, Finish
    PROVE  /\ UNCHANGED <<chain, file>> /\ pc \notin Starting /\ pc' = "idle"
           /\ Sure' = Sure + 1 /\ num = Sure + 1
<1>1. /\ pc = "done" /\ pc' = "idle" /\ UNCHANGED <<chain, file, height>>
      /\ num = height - 1 /\ height \in Nat
  BY SureIs DEF Finish, CommitStep, diskVars, fileVars, memVars, LInv, Serving, SureFacts
<1> QED
  BY <1>1 DEF Sure, Last

(* Without a write to the file.                                            *)
LEMMA QuietMoves ==
    ASSUME LInv, LInv', UNCHANGED <<chain, file>>,
           \/ pc \notin Starting /\ pc' \notin Starting /\ Last' = Last
           \/ pc \in Starting /\ pc' \in Starting
           \/ pc \notin Starting /\ pc' = "down"
    PROVE  Moves
<1>1. Whole' = Whole
  BY Zenon DEF Whole, Torn
<1>2. SureFacts
  BY Zenon, SureIs
<1>3. Early => Whole = Last + 1
  BY Zenon, EarlyWhole
<1> QED
  BY <1>1, <1>2, <1>3 DEF Moves, Sure, SureFacts

LEMMA ErrorMoves ==
    ASSUME LInv, LInv', Error, UNCHANGED <<chain, file>>,
           pc \in {"prepare", "pvt", "append", "index"}
    PROVE  Moves
<1>1. pc' = "down" \/ (pc' = "start" /\ height' = height)
  BY Zenon DEF Error, Down
<1> QED
  BY Zenon, <1>1, QuietMoves DEF Last

LEMMA CommitMoves == ASSUME LInv, LInv', Commit, ~Finish PROVE Moves
<1>1. CASE Begin(height) \/ Proceed \/ Prepare \/ SaveInfo
  <2>1. /\ pc \in {"idle", "start", "prepare", "info"} /\ pc' \in {"start", "prepare", "pvt", "index"}
        /\ UNCHANGED <<chain, file, height>>
    BY Zenon, <1>1 DEF Begin, Proceed, Prepare, SaveInfo, CommitStep, diskVars, fileVars, memVars
  <2> QED
    BY Zenon, <2>1, QuietMoves DEF Last
<1>2. CASE StorePvtData
  <2>1. CASE ahead \/ pvtHeight = num
    <3>1. pc = "pvt" /\ pc' = "append" /\ UNCHANGED <<chain, file, height>>
      BY Zenon, <1>2, <2>1 DEF StorePvtData, memVars
    <3> QED
      BY Zenon, <3>1, QuietMoves DEF Last
  <2>2. CASE ~(ahead \/ pvtHeight = num)
    BY Zenon, <1>2, <2>2, ErrorMoves DEF StorePvtData
  <2> QED
    BY Zenon, <2>1, <2>2
<1>3. CASE AppendBlock
  <2>1. pc = "append" /\ num = height /\ Len(file) = height /\ IsSeq(file)
    BY Zenon, <1>3 DEF AppendBlock, LInv, Serving, ServingAt, Sequential
  <2>2. /\ pc' = "info" /\ UNCHANGED <<chain, height>>
        /\ file' = Append(file, [num |-> num, block |-> chain[num + 1],
                                 flags |-> flags, hash |-> hash])
    BY Zenon, <1>3, <2>1 DEF AppendBlock, memVars
  <2>3. \A i \in 1..height : file'[i] = file[i]
    BY <2>1, <2>2, AppendOf
  <2>4. Sure = height - 1 /\ Sure' = Sure /\ height \in Nat
    BY Zenon, <2>1, <2>2, Lengths DEF Sure, Last, Counts
  <2>5. Sure + 1 = height /\ chain' = chain
    BY <2>2, <2>4
  <2> QED
    BY Zenon, <2>3, <2>4, <2>5 DEF Moves
<1>4. CASE IndexBlock
  <2>1. /\ pc = "index" /\ pc' = "state" /\ height' = height + 1 /\ UNCHANGED <<chain, file>>
        /\ height \in Nat
    BY <1>4, SureIs DEF IndexBlock, CommitStep, SureFacts
  <2> QED
    BY <2>1, QuietMoves DEF Last
<1>5. CASE CommitState \/ CommitHistory
  <2>1. /\ pc \in {"state", "history"} /\ pc' \in {"history", "done"}
        /\ UNCHANGED <<chain, file, height>>
    BY Zenon, <1>5 DEF CommitState, CommitHistory, CommitStep, fileVars, memVars
  <2> QED
    BY Zenon, <2>1, QuietMoves DEF Last
<1> QED
  BY Zenon, <1>1, <1>2, <1>3, <1>4, <1>5 DEF Commit

LEMMA StartMoves == ASSUME LInv, LInv', Start PROVE Moves
<1>1. CASE SyncInfo \/ SyncIndex \/ OpenLedger \/ RecommitState \/ RecommitHistory
  <2>1. pc \in Starting /\ pc' \in Starting /\ UNCHANGED <<chain, file>>
    BY Zenon, <1>1 DEF SyncInfo, SyncIndex, OpenLedger, RecommitState, RecommitHistory, StartStep,
       diskVars, fileVars
  <2> QED
    BY Zenon, <2>1, QuietMoves
<1>2. CASE Truncate
  <2>1. /\ pc = "truncate" /\ pc' = "reindex" /\ info.size = Whole /\ info' = info
        /\ file' = SubSeq(file, 1, Whole) /\ chain' = chain /\ IsSeq(file)
    BY Zenon, <1>2 DEF Truncate, StartStep, LInv, StartingAt, Sequential
  <2>2. Whole' = Whole
    BY Zenon, <2>1 DEF LInv, StartingAt
  <2>3. Whole \in 1..Len(file) /\ Len(file) \in Nat
    BY Zenon, Lengths DEF Counts
  <2>4. \A i \in 1..Whole : file'[i] = file[i]
    BY <2>1, <2>3, PrefixOf
  <2> QED
    BY <2>1, <2>2, <2>3, <2>4 DEF Moves, Sure
<1>3. CASE Opened
  <2>1. pc = "recover" /\ pc' = "idle" /\ height = Whole
    BY Zenon, <1>3, OpenedWhole
  <2>2. UNCHANGED <<chain, file, height>>
    BY Zenon, <1>3 DEF Opened, StartStep, diskVars, fileVars
  <2> QED
    BY Zenon, <2>1, <2>2 DEF Moves, Sure, Last
<1> QED
  BY Zenon, <1>1, <1>2, <1>3 DEF Start

LEMMA CrashMoves == ASSUME LInv, LInv', Crash PROVE Moves
<1>1. Down /\ chain' = chain /\ pc' = "down"
  BY Zenon DEF Crash, Down
<1>2. CASE file' = file
  BY Zenon, <1>1, <1>2, QuietMoves
<1>3. CASE pc = "append" /\ file' = Append(file, Torn)
  <2>1. IsSeq(file) /\ Len(file) = height /\ Whole = height /\ height \in Nat
    BY Zenon, <1>3, Lengths DEF LInv, Sequential, ServingAt, InPlace, Counts
  <2>2. /\ Len(file') = height + 1 /\ file'[height + 1] = Torn
        /\ \A i \in 1..height : file'[i] = file[i]
    BY <1>3, <2>1, AppendOf
  <2>3. Whole' = height
    BY <2>1, <2>2 DEF Whole, Torn
  <2> QED
    BY SMTT(30), <1>1, <1>3, <2>1, <2>2, <2>3 DEF Moves, Sure, Last
<1> QED
  BY Zenon, <1>2, <1>3 DEF Crash

LEMMA FailureMoves == ASSUME LInv, LInv', WriteFails PROVE Moves
<1>1. CASE PrepareFails \/ StorePvtDataFails \/ AppendBlockFails \/ IndexBlockFails
  <2>1. /\ Error /\ UNCHANGED <<chain, file>> /\ pc \in {"prepare", "pvt", "append", "index"}
    BY Zenon, <1>1 DEF PrepareFails, StorePvtDataFails, AppendBlockFails, IndexBlockFails
  <2> QED
    BY Zenon, <2>1, ErrorMoves
<1>2. CASE SaveInfoFails
  <2>1. pc = "info" /\ size = height /\ Len(file) = height + 1 /\ IsSeq(file)
    BY Zenon, <1>2 DEF SaveInfoFails, LInv, Serving, ServingAt, Sequential
  <2>2. Error /\ file' = SubSeq(file, 1, height) /\ chain' = chain
    BY Zenon, <1>2, <2>1 DEF SaveInfoFails
  <2>3. height \in 1..Len(file)
    BY <2>1, SureIs DEF SureFacts
  <2>4. Len(file') = height /\ \A i \in 1..height : file'[i] = file[i]
    BY <2>1, <2>2, <2>3, PrefixOf
  <2>5. Whole' = height
    <3>1. Whole = height + 1 /\ file[height] # Torn
      BY Zenon, <2>1, <2>3 DEF LInv, InPlace
    <3> QED
      BY <2>3, <2>4, <3>1 DEF Whole, Torn
  <2>6. Sure = height - 1 /\ Sure' = height - 1
    BY Zenon, <2>1, <2>2, <2>5 DEF Sure, Last, Error, Down
  <2> QED
    BY SMTT(30), <2>2, <2>3, <2>4, <2>6 DEF Moves
<1> QED
  BY Zenon, <1>1, <1>2 DEF WriteFails
=============================================================================
