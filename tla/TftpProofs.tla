------------------------------- MODULE TftpProofs -------------------------------
(***************************************************************************)
(* What the tftp command stores is the file, for files of every length and *)
(* block numbers of every width, but for what other hosts put in place of  *)
(* its blocks.  The server is never more than one block ahead of the       *)
(* client, and a block number never exceeds the block it stands for: the   *)
(* block that is accepted is therefore the next one, and none whose number *)
(* has wrapped round to it.                                                *)
(***************************************************************************)
EXTENDS TftpClient, TLAPS

(* Every block of the file is in its place. *)
Placed == artifact \in Seq(Nat) /\ \A i \in 1 .. Len(artifact) : artifact[i] \in {i, Foreign}
Ended == Len(artifact) > 0 /\ (artifact[Len(artifact)] = Foreign \/ Len(artifact) = blocks)

TftpInv ==
  /\ blocks \in Nat /\ current_block \in Nat
  /\ acks \subseteq 0 .. current_block
  /\ data \subseteq 1 .. current_block + 1
  /\ port = "open" => deferred = "pending"
  /\ Placed
  /\ deferred = "pending" => Len(artifact) = current_block
  /\ deferred = "done" => Ended

(* A block number is at most the number of its block. *)
LEMMA NumberBelow ==
  ASSUME NEW b \in Nat PROVE Number(b) \in Nat /\ Number(b) <= b
<1>1. Wide \in Nat /\ Wide > 0
  BY TftpAssumption
<1>2. b % Wide \in 0 .. Wide - 1
  BY <1>1
<1>3. CASE b >= Wide
  BY <1>1, <1>2, <1>3 DEF Number
<1>4. CASE b < Wide
  <2>1. b % Wide = b
    BY <1>1, <1>4
  <2> QED BY <2>1, <1>2 DEF Number
<1> QED BY <1>1, <1>3, <1>4

(* Of the file, only the block after the current one is accepted as the next. *)
LEMMA OnlyTheNext ==
  ASSUME TftpInv, NEW d \in DATA, d.number = current_block + 1
  PROVE  /\ d.block \in {current_block + 1, Foreign}
         /\ d.block \in Nat
         /\ d.short => d.block \in {blocks, Foreign}
<1>1. CASE d \in FromServer
  <2>1. PICK b \in data : d = [from |-> "server", number |-> Number(b), block |-> b, short |-> Last(b)]
    BY <1>1 DEF FromServer
  <2>2. b \in Nat /\ b <= current_block + 1 /\ Number(b) = current_block + 1
    BY <2>1 DEF TftpInv
  <2>3. b = current_block + 1
    BY <2>2, NumberBelow DEF TftpInv
  <2> QED BY <2>1, <2>2, <2>3 DEF Last
<1>2. CASE d \in FromOthers
  BY <1>2 DEF FromOthers, Foreign
<1> QED BY <1>1, <1>2 DEF DATA

(* What every step but that of a new block does: it leaves the artifact, and may end the download. *)
LEMMA Undisturbed ==
  ASSUME TftpInv, UNCHANGED <<blocks, current_block, artifact>>,
         acks' \subseteq 0 .. current_block, data' \subseteq 1 .. current_block + 1,
         deferred' = deferred \/ (deferred = "pending" /\ deferred' \notin {"pending", "done"}),
         port' = "open" => port = "open" /\ deferred' = deferred
  PROVE  TftpInv'
<1>1. Placed' /\ (Ended <=> Ended')
  BY DEF TftpInv, Placed, Ended
<1>2. CASE deferred' = deferred
  BY <1>1, <1>2 DEF TftpInv
<1>3. CASE deferred = "pending" /\ deferred' \notin {"pending", "done"}
  BY <1>1, <1>3 DEF TftpInv
<1> QED BY <1>2, <1>3

(* The acknowledgements, and one more of the current block. *)
LEMMA CurrentIn ==
  ASSUME TftpInv
  PROVE  /\ acks \subseteq 0 .. current_block
         /\ acks \cup {current_block} \subseteq 0 .. current_block
BY DEF TftpInv

(* One more block, of the file in its place or of another host, keeps every block in its place. *)
LEMMA OneMore ==
  ASSUME NEW old \in Seq(Nat), NEW n \in Nat, Len(old) = n,
         \A i \in 1 .. n : old[i] \in {i, Foreign},
         NEW b \in Nat, b \in {n + 1, Foreign}
  PROVE  /\ Append(old, b) \in Seq(Nat) /\ Len(Append(old, b)) = n + 1
         /\ \A i \in 1 .. n + 1 : Append(old, b)[i] \in {i, Foreign}
         /\ Append(old, b)[n + 1] = b
OBVIOUS

LEMMA TftpInvInit == Init => TftpInv
BY TftpAssumption DEF Init, TftpInv, Placed

(* The one step that writes to the artifact. *)
LEMMA NextBlockKeeps ==
  ASSUME TftpInv, NEW d \in DATA, NextBlock(d) PROVE TftpInv'
<1>1. /\ d.block \in {current_block + 1, Foreign} /\ d.block \in Nat
      /\ d.short => d.block \in {blocks, Foreign}
  BY OnlyTheNext DEF NextBlock
<1>2. d.number = current_block + 1 /\ current_block' = current_block + 1
  BY DEF NextBlock
<1>3. blocks' = blocks /\ data' = data
  BY DEF NextBlock, Arrives
<1>4. /\ blocks' \in Nat /\ current_block' \in Nat
      /\ data' \subseteq 1 .. current_block' + 1
  BY <1>2, <1>3 DEF TftpInv
<1>5. CASE deferred # "pending"
  <2>1. artifact' = artifact /\ acks' = acks /\ deferred' = deferred /\ port' = port
    BY <1>5 DEF NextBlock, Takes
  <2>2. acks' \subseteq 0 .. current_block'
    BY <1>2, <2>1 DEF TftpInv
  <2>3. Placed' /\ (Ended <=> Ended')
    BY <1>3, <2>1 DEF TftpInv, Placed, Ended
  <2> QED BY <1>4, <1>5, <2>1, <2>2, <2>3 DEF TftpInv
<1>6. CASE deferred = "pending"
  <2>1. artifact' = Append(artifact, d.block)
    BY <1>6 DEF NextBlock, Takes
  <2>2. acks' = acks \/ acks' = acks \cup {current_block'}
    BY <1>2, <1>6 DEF NextBlock, Takes, sendACK, Acknowledged
  <2>3. acks' \subseteq 0 .. current_block'
    <3>1. acks \subseteq 0 .. current_block + 1 /\ current_block + 1 \in 0 .. current_block + 1
      BY DEF TftpInv
    <3>2. acks' \subseteq 0 .. current_block + 1
      BY <1>2, <2>2, <3>1
    <3> QED BY <1>2, <3>2
  <2>4. /\ artifact' \in Seq(Nat) /\ Len(artifact') = current_block + 1
        /\ \A i \in 1 .. current_block + 1 : artifact'[i] \in {i, Foreign}
        /\ artifact'[current_block + 1] = d.block
    BY <1>1, <1>6, <2>1, OneMore DEF TftpInv, Placed
  <2>5. Placed' /\ Len(artifact') = current_block'
    BY <1>2, <2>4 DEF Placed
  <2>6. CASE d.short
    <3>1. deferred' = "done" /\ port' # "open"
      BY <1>6, <2>6 DEF NextBlock, Takes, Fire
    <3>2. artifact'[Len(artifact')] = Foreign \/ Len(artifact') = blocks'
      BY <1>1, <1>3, <2>4, <2>6
    <3>3. Len(artifact') > 0
      BY <2>4 DEF TftpInv
    <3> QED BY <1>4, <2>3, <2>5, <3>1, <3>2, <3>3 DEF TftpInv, Ended
  <2>7. CASE ~d.short
    <3>1. deferred' = "pending"
      BY <1>6, <2>7 DEF NextBlock, Takes
    <3> QED BY <1>4, <2>3, <2>5, <3>1 DEF TftpInv
  <2> QED BY <2>6, <2>7
<1> QED BY <1>5, <1>6

(* The invariant holds at first, is kept, and implies the property. *)
LEMMA TftpInvNext == TftpInv /\ [Next]_vars => TftpInv'
<1> SUFFICES ASSUME TftpInv, [Next]_vars PROVE TftpInv'
  OBVIOUS
<1>1. CASE Answer
  <2>1. data' \subseteq 1 .. current_block + 1
    <3>1. CASE data' = data \cup {1}
      BY <3>1 DEF TftpInv
    <3>2. CASE \E ack \in acks : data' = data \cup {ack + 1}
      BY <3>2 DEF TftpInv
    <3> QED BY <1>1, <3>1, <3>2 DEF Answer
  <2> QED BY <1>1, <2>1, Undisturbed DEF Answer, TftpInv, clientVars
<1>2. CASE GoesSilent
  BY <1>2, Undisturbed DEF GoesSilent, TftpInv, clientVars
<1>3. ASSUME NEW d \in DATA, NextBlock(d) PROVE TftpInv'
  BY <1>3, NextBlockKeeps
<1>4. ASSUME NEW d \in DATA, Duplicate(d) \/ OutOfOrder(d) PROVE TftpInv'
  <2>1. acks' = acks \/ acks' = acks \cup {current_block}
    BY <1>4 DEF Duplicate, OutOfOrder, sendACK, Acknowledged
  <2>2. acks' \subseteq 0 .. current_block
    BY <2>1, CurrentIn
  <2> QED BY <1>4, <2>2, Undisturbed DEF Duplicate, OutOfOrder, Arrives, TftpInv
<1>5. ASSUME NEW from \in {"server", "other"}, Noise(from) \/ handleERROR(from) PROVE TftpInv'
  <2>1. CASE Noise(from)
    BY <2>1, Undisturbed DEF Noise, Arrives, TftpInv
  <2>2. CASE handleERROR(from)
    BY <2>2, Undisturbed DEF handleERROR, Arrives, Fire, TftpInv
  <2> QED BY <1>5, <2>1, <2>2
<1>6. CASE handleTimeout
  <2>1. acks' = acks \/ acks' = acks \cup {current_block}
    BY <1>6 DEF handleTimeout, sendACK, Acknowledged
  <2>2. acks' \subseteq 0 .. current_block
    BY <2>1, CurrentIn
  <2>3. deferred' = deferred \/ (deferred = "pending" /\ deferred' \notin {"pending", "done"})
    BY <1>6 DEF handleTimeout, TftpInv
  <2>4. port' = "open" => port = "open" /\ deferred' = deferred
    BY <1>6 DEF handleTimeout
  <2> QED BY <1>6, <2>2, <2>3, <2>4, Undisturbed DEF handleTimeout, TftpInv
<1>7. CASE handle_CTRL_C
  BY <1>7, Undisturbed DEF handle_CTRL_C, TftpInv
<1>8. CASE stopProtocol
  BY <1>8, Undisturbed DEF stopProtocol, TftpInv
<1>9. CASE UNCHANGED vars
  BY <1>9, Undisturbed DEF vars, clientVars, TftpInv
<1> QED BY <1>1, <1>2, <1>3, <1>4, <1>5, <1>6, <1>7, <1>8, <1>9 DEF Next

LEMMA TftpInvStores == TftpInv => StoresTheFile
BY DEF TftpInv, Placed, Ended, StoresTheFile

(* StoresTheFile, for every file and width of the block numbers: handleDATA writes the blocks *)
(* of the file in their places, each once, however the network treats the datagrams and       *)
(* whatever other hosts send.                                                                 *)
THEOREM TftpStoresTheFile == Spec => []StoresTheFile
<1>1. Spec => []TftpInv
  BY TftpInvInit, TftpInvNext, PTL DEF Spec
<1> QED BY <1>1, TftpInvStores, PTL
=============================================================================
