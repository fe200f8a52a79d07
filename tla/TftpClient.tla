------------------------------ MODULE TftpClient ------------------------------
(***************************************************************************)
(* One download of the tftp command: TFTPClient of cowrie/commands/tftp.py,*)
(* the callbacks its Deferred has from Command_tftp, and a server across a *)
(* network that loses, doubles and reorders datagrams.                     *)
(*                                                                         *)
(* The blocks of the file are numbers, and the file is 1 .. blocks, of     *)
(* which the last is the short one.  A datagram carries the number of its  *)
(* block in 16 bits: Wide is what they count to.  Hosts other than the     *)
(* server may send, too, and whatever they like: the code does not compare *)
(* addresses, and sends its acknowledgements to whoever was first.         *)
(***************************************************************************)
EXTENDS Integers, Sequences

CONSTANTS
  MaxBlocks,        \* bound: the longest file
  Wide,             \* 2^16
  TFTP_MAX_RETRIES

ASSUME TftpAssumption == MaxBlocks \in Nat /\ Wide \in Nat \ {0} /\ TFTP_MAX_RETRIES \in Nat \ {0}

VARIABLES
  blocks,         \* the length of the file
  current_block,
  retry_count,
  timer,          \* timeout_call is active
  deferred,       \* "pending", or how it was fired
  port,           \* "open"; "draining": stopListening was called by a datagram,
                  \* and those that were read with it still come; "closed"
  artifact,       \* the blocks written to artifactFile
  server_tid,     \* "none", or whose address it is: of the "server", or an "other" host
  rrqs, acks,     \* what the client has sent to the server,
  data,           \* and the server to the client
  silent          \* nothing arrives any more

clientVars == <<current_block, retry_count, timer, deferred, port, artifact, server_tid>>
vars == <<blocks, clientVars, rrqs, acks, data, silent>>

Number(block) == block % Wide
Last(block) == block = blocks

(* DATA of the server, and of others: a block that is not of the file. *)
Foreign == 0
FromServer ==
  {[from |-> "server", number |-> Number(b), block |-> b, short |-> Last(b)] : b \in data}
FromOthers == [from : {"other"}, number : 0 .. Wide - 1, block : {Foreign}, short : BOOLEAN]
DATA == FromServer \cup FromOthers

(* sendRRQ, called by startProtocol, sets the first timeout. *)
Init ==
  /\ blocks \in 1 .. MaxBlocks
  /\ current_block = 0 /\ retry_count = 0
  /\ timer = TRUE
  /\ deferred = "pending" /\ port = "open"
  /\ artifact = <<>> /\ server_tid = "none"
  /\ rrqs = TRUE /\ acks = {} /\ data = {}
  /\ silent = FALSE

-----------------------------------------------------------------------------
(* The server: it answers a request with the first block, and the          *)
(* acknowledgement of a block with the next one, as often as they arrive.  *)

Answer ==
  /\ \/ rrqs /\ data' = data \cup {1}
     \/ \E ack \in acks : ack < blocks /\ data' = data \cup {ack + 1}
  /\ UNCHANGED <<blocks, clientVars, rrqs, acks, silent>>

GoesSilent ==
  /\ ~silent /\ silent' = TRUE
  /\ UNCHANGED <<blocks, clientVars, rrqs, acks, data>>

-----------------------------------------------------------------------------
(* TFTPClient                                                              *)

\* What datagramReceived does before it looks at the opcode.
Arrives(from) ==
  /\ ~silent /\ port # "closed"
  /\ server_tid' = IF server_tid = "none" THEN from ELSE server_tid
  /\ retry_count' = 0
  /\ UNCHANGED <<blocks, rrqs, data, silent>>

\* An acknowledgement, which reaches the server if it is sent there.
Acknowledged(block) == acks' = IF server_tid' = "other" THEN acks ELSE acks \cup {block}
sendACK(block) == Acknowledged(block) /\ timer' = TRUE

\* cleanup and _ensure_artifact_closed follow the first call of the Deferred.
\* Another one raises AlreadyCalledError, which the port logs.
Fire(result) ==
  IF deferred = "pending" THEN deferred' = result /\ port' = "draining"
  ELSE UNCHANGED <<deferred, port>>

\* The block is written, acknowledged and, if it is short, the last one.  The
\* artifact is closed once the Deferred was called: writing to it raises.
Takes(d) ==
  IF deferred # "pending" THEN timer' = FALSE /\ UNCHANGED <<artifact, acks, deferred, port>>
  ELSE /\ artifact' = Append(artifact, d.block)
       /\ IF d.short THEN Acknowledged(d.number) /\ timer' = FALSE /\ Fire("done")
          ELSE sendACK(d.number) /\ UNCHANGED <<deferred, port>>

\* Mutant: a block that comes again is written again.
NextBlockAgain(d) ==
  /\ Arrives(d.from)
  /\ d.number \in {current_block, current_block + 1}
  /\ current_block' = d.number
  /\ Takes(d)

\* handleDATA for the block that is expected.
NextBlock(d) ==
  /\ Arrives(d.from)
  /\ d.number = current_block + 1
  /\ current_block' = d.number
  /\ Takes(d)

Duplicate(d) ==
  /\ Arrives(d.from)
  /\ d.number = current_block
  /\ sendACK(d.number)
  /\ UNCHANGED <<current_block, deferred, port, artifact>>

\* Out of order, or a datagram that says nothing: the timeout is cancelled all
\* the same.
OutOfOrder(d) ==
  /\ Arrives(d.from)
  /\ d.number \notin {current_block, current_block + 1}
  /\ timer' = FALSE
  /\ UNCHANGED <<current_block, deferred, port, artifact, acks>>

Noise(from) ==
  /\ Arrives(from)
  /\ timer' = FALSE
  /\ UNCHANGED <<current_block, deferred, port, artifact, acks>>

\* The server fails, or another host says that it did.
handleERROR(from) ==
  /\ Arrives(from)
  /\ timer' = FALSE
  /\ Fire("failed")
  /\ UNCHANGED <<current_block, artifact, acks>>

\* Mutant: the retries are counted only if something was received.
RetriesFor == IF current_block = 0 THEN retry_count ELSE retry_count + 1

\* The count handleTimeout compares with TFTP_MAX_RETRIES.
Retries == retry_count + 1

handleTimeout ==
  /\ timer /\ port = "open"
  /\ UNCHANGED <<blocks, current_block, artifact, server_tid, data, silent>>
  /\ retry_count' = Retries
  /\ IF Retries >= TFTP_MAX_RETRIES
     THEN /\ timer' = FALSE
          /\ deferred' = "failed" /\ port' = "closed"
          /\ UNCHANGED <<rrqs, acks>>
     ELSE /\ timer' = TRUE
          /\ IF current_block = 0 THEN rrqs' = TRUE /\ UNCHANGED acks
             ELSE sendACK(current_block) /\ UNCHANGED rrqs
          /\ UNCHANGED <<deferred, port>>

\* Command_tftp.handle_CTRL_C
handle_CTRL_C ==
  /\ deferred = "pending"
  /\ timer' = FALSE
  /\ deferred' = "cancelled" /\ port' = "closed"
  /\ UNCHANGED <<blocks, current_block, retry_count, artifact, server_tid, rrqs, acks, data, silent>>

\* The port is closed, by a call of its own, after what was read with the
\* datagram: stopProtocol.
stopProtocol ==
  /\ port = "draining"
  /\ port' = "closed" /\ timer' = FALSE
  /\ UNCHANGED <<blocks, current_block, retry_count, deferred, artifact, server_tid, rrqs, acks, data, silent>>

-----------------------------------------------------------------------------
Next ==
  \/ Answer \/ GoesSilent
  \/ \E d \in DATA : NextBlock(d) \/ Duplicate(d) \/ OutOfOrder(d)
  \/ \E from \in {"server", "other"} : Noise(from) \/ handleERROR(from)
  \/ handleTimeout \/ handle_CTRL_C \/ stopProtocol

Spec == Init /\ [][Next]_vars

\* Timers are called, and the port is closed.  Nothing is assumed of the server,
\* of the network or of the attacker.
FairSpec == Spec /\ WF_vars(handleTimeout) /\ WF_vars(stopProtocol)

-----------------------------------------------------------------------------
(* Properties.                                                             *)

\* handleDATA, sendACK and handleTimeout together: whatever the network does to
\* the datagrams, and whatever other hosts send among them, what the server sent
\* is written in its place only, each block once and none left out but for one
\* of another host; and a download that succeeds ends with the end of the file,
\* unless another host has ended it.
StoresTheFile ==
  /\ \A i \in 1 .. Len(artifact) : artifact[i] \in {i, Foreign}
  /\ deferred = "done" => Len(artifact) > 0
                          /\ (artifact[Len(artifact)] = Foreign \/ Len(artifact) = blocks)

\* "Handle timeout - retry or fail": once nothing arrives, a timeout that is
\* set leads to the failure of a download that was not over, and no timeout
\* survives the port.
SilenceEndsTheDownload ==
  (silent /\ timer) ~> (~timer /\ deferred # "pending")
=============================================================================
