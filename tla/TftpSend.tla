------------------------------- MODULE TftpSend -------------------------------
(***************************************************************************)
(* lib/tftpServer.js, a read request: sendFile() streams a file through a  *)
(* sliding window of blocks numbered on the wire modulo 2^16.              *)
(*                                                                         *)
(* A step is one event: a datagram, a timer, or the end of a read from     *)
(* disk, with the pump() it calls.  One read is in flight at a time:       *)
(* `pumping' of the code is reading # 0.                                   *)
(*                                                                         *)
(* External: the client, a receiver as RFC 1350 and RFC 7440 have it, that *)
(* acknowledges what it has in order, whenever it likes; and the network,  *)
(* which loses and repeats datagrams but delivers them in order (a         *)
(* datagram that is 2^16 blocks late does not happen).                     *)
(***************************************************************************)
EXTENDS Integers, Sequences, SequencesExt

CONSTANTS
  MaxBlocks,        \* the longest file, in blocks
  MAX_WINDOW_SIZE,
  WireNumbers,      \* how many block numbers the wire has (2^16)
  MAX_RETRIES,
  Capacity,         \* datagrams on their way in one direction
  SocketErrors      \* may the transfer's socket report an error?

ASSUME SendAssumption ==
  /\ MaxBlocks \in Nat \ {0} /\ MAX_WINDOW_SIZE \in Nat \ {0}
  /\ WireNumbers \in Nat /\ MAX_WINDOW_SIZE < WireNumbers
  /\ MAX_RETRIES \in Nat /\ Capacity \in Nat \ {0}
  /\ SocketErrors \in BOOLEAN

VARIABLES
  totalBlocks, windowsize,
  oackPending,      \* are options offered that the client has not confirmed?
  base,             \* highest block acknowledged so far
  nextToSend,
  retries,
  timer,            \* is the timer armed?
  reading,          \* the block being read, or 0
  outcome,          \* running, sent, timed-out, read-error; or crashed
  socketOpen,
  file,             \* what the client has, block by block
  contacted,        \* has the client heard of this transfer?
  toClient, toServer

server   == <<oackPending, base, nextToSend, retries, timer, reading, outcome, socketOpen>>
client   == <<file, contacted>>
sendVars == <<totalBlocks, windowsize, server, client, toClient, toServer>>

Wire(n) == n % WireNumbers
OACK    == [op |-> "OACK"]
DATA(n) == [op |-> "DATA", wire |-> Wire(n), content |-> n]

-----------------------------------------------------------------------------
\* send(): what does not fit into the network is lost.
Sent(channel, m) == IF Len(channel) < Capacity THEN Append(channel, m) ELSE channel

\* A slip: a window one block too long.
WindowAndOne(b, n) == n <= totalBlocks /\ n <= b + windowsize + 1

InWindow(b, n) == n <= totalBlocks /\ n <= b + windowsize

\* step() of pump(): the next block is read, or pumping is over.
Step(b, n) ==
  IF InWindow(b, n) THEN reading' = n /\ nextToSend' = n + 1
                    ELSE reading' = 0 /\ nextToSend' = n

\* pump(), with the timer as it is: while it is at work already it does nothing,
\* and does not arm the timer either.
pump(b, n, armed) ==
  IF reading # 0 THEN nextToSend' = n /\ reading' = reading /\ timer' = armed
                 ELSE Step(b, n) /\ timer' = TRUE

\* finish(result), or the process goes down with it.
finish(result) ==
  /\ outcome' = result /\ timer' = FALSE /\ reading' = 0 /\ socketOpen' = FALSE
  /\ UNCHANGED <<oackPending, base, nextToSend>>

\* sendFile() begins with the options negotiate() accepted: a window only with
\* an OACK.  Without one, pump() starts at once.
SendInit ==
  /\ totalBlocks \in 1..MaxBlocks /\ windowsize \in 1..MAX_WINDOW_SIZE
  /\ oackPending \in BOOLEAN /\ (windowsize > 1 => oackPending)
  /\ base = 0 /\ retries = 0 /\ timer = TRUE
  /\ reading    = IF oackPending THEN 0 ELSE 1
  /\ nextToSend = IF oackPending THEN 1 ELSE 2
  /\ outcome = "running" /\ socketOpen = TRUE
  /\ file = <<>> /\ contacted = FALSE
  /\ toClient = (IF oackPending THEN <<OACK>> ELSE <<>>) /\ toServer = <<>>

-----------------------------------------------------------------------------
\* fs.read() is back: the block goes out.  A closed socket throws.
ReadDone ==
  /\ outcome = "running" /\ reading # 0
  /\ IF socketOpen
     THEN /\ toClient' = Sent(toClient, DATA(reading))
          /\ Step(base, nextToSend)
          /\ UNCHANGED <<oackPending, base, timer, outcome, socketOpen>>
     ELSE finish("crashed") /\ UNCHANGED toClient
  /\ UNCHANGED <<totalBlocks, windowsize, retries, client, toServer>>

ReadFailed ==
  /\ outcome = "running" /\ reading # 0
  /\ finish(IF socketOpen THEN "read-error" ELSE "crashed")
  /\ UNCHANGED <<totalBlocks, windowsize, retries, client, toClient, toServer>>

\* A slip: offering the options again is no retry.
RetriedData == IF oackPending THEN retries ELSE retries + 1

Retried == retries + 1

onTimeout ==
  /\ outcome = "running" /\ timer
  /\ retries' = Retried
  /\ \/ /\ retries' > MAX_RETRIES
        /\ finish("timed-out") /\ UNCHANGED toClient
     \/ /\ retries' <= MAX_RETRIES /\ oackPending /\ ~socketOpen
        /\ finish("crashed") /\ UNCHANGED toClient
     \/ /\ retries' <= MAX_RETRIES /\ oackPending /\ socketOpen
        /\ toClient' = Sent(toClient, OACK)
        /\ UNCHANGED <<oackPending, base, nextToSend, timer, reading, outcome, socketOpen>>
     \/ /\ retries' <= MAX_RETRIES /\ ~oackPending
        /\ pump(base, base + 1, FALSE)   \* the whole window is resent
        /\ UNCHANGED <<oackPending, base, outcome, socketOpen, toClient>>
  /\ UNCHANGED <<totalBlocks, windowsize, client, toServer>>

\* A slip: the block that is next to be sent counts as sent.
InFlightAndNext == (base + 1)..nextToSend

InFlight == (base + 1)..(nextToSend - 1)

Means(wire, a) == a \in InFlight /\ Wire(a) = wire

\* The options are confirmed; or a block in flight is acknowledged, the first
\* with that number; or the number means nothing now.
Received(wire) ==
  \/ /\ oackPending /\ wire = 0
     /\ oackPending' = FALSE /\ retries' = 0
     /\ pump(base, nextToSend, timer)
     /\ UNCHANGED <<base, outcome, socketOpen>>
  \/ \E acked \in InFlight :
       /\ ~oackPending /\ Means(wire, acked) /\ \A b \in InFlight : Means(wire, b) => acked <= b
       /\ base' = acked /\ retries' = 0
       /\ IF acked >= totalBlocks
          THEN /\ outcome' = "sent" /\ timer' = FALSE /\ reading' = 0 /\ socketOpen' = FALSE
               /\ UNCHANGED nextToSend
          ELSE pump(acked, nextToSend, timer) /\ UNCHANGED <<outcome, socketOpen>>
       /\ UNCHANGED oackPending
  \/ /\ IF oackPending THEN wire # 0 ELSE \A a \in InFlight : ~Means(wire, a)
     /\ UNCHANGED server

\* The first acknowledgement in the network, which may come again.
onMessage ==
  /\ outcome = "running" /\ socketOpen /\ toServer # <<>>
  /\ Received(Head(toServer))
  /\ toServer' \in {toServer, Tail(toServer)}
  /\ UNCHANGED <<totalBlocks, windowsize, client, toClient>>

\* conn.on('error'): the socket is closed, the transfer is not told.
SocketError ==
  /\ SocketErrors /\ outcome = "running" /\ socketOpen
  /\ socketOpen' = FALSE
  /\ UNCHANGED <<totalBlocks, windowsize, oackPending, base, nextToSend, retries, timer, reading, outcome,
                 client, toClient, toServer>>

-----------------------------------------------------------------------------
(***************************************************************************)
(* The client and the network.                                             *)
(***************************************************************************)
Complete == file # <<>> /\ Last(file) = totalBlocks

ClientReceives ==
  /\ toClient # <<>>
  /\ LET m == Head(toClient) IN
     file' = IF m.op = "DATA" /\ ~Complete /\ m.wire = Wire(Len(file) + 1)
             THEN Append(file, m.content) ELSE file
  /\ contacted' = TRUE
  /\ toClient' \in {toClient, Tail(toClient)}
  /\ UNCHANGED <<totalBlocks, windowsize, server, toServer>>

\* At the end of a window, after a gap, or because it heard nothing.
ClientAcks ==
  /\ contacted /\ Len(toServer) < Capacity
  /\ toServer' = Append(toServer, Wire(Len(file)))
  /\ UNCHANGED <<totalBlocks, windowsize, server, client, toClient>>

Lose ==
  /\ \/ \E i \in DOMAIN toClient : toClient' = RemoveAt(toClient, i) /\ UNCHANGED toServer
     \/ \E i \in DOMAIN toServer : toServer' = RemoveAt(toServer, i) /\ UNCHANGED toClient
  /\ UNCHANGED <<totalBlocks, windowsize, server, client>>

-----------------------------------------------------------------------------
SendNext ==
  \/ ReadDone \/ ReadFailed \/ onTimeout \/ onMessage \/ SocketError
  \/ ClientReceives \/ ClientAcks \/ Lose

\* The disk answers and timers fire.  The client and the network do what they like.
SendFairness == WF_sendVars(ReadDone \/ ReadFailed) /\ WF_sendVars(onTimeout)

SendSpec     == SendInit /\ [][SendNext]_sendVars
SendFairSpec == SendSpec /\ SendFairness

-----------------------------------------------------------------------------
Datagrams == {OACK} \union {DATA(n) : n \in 1..totalBlocks}

SendTypeOK ==
  /\ totalBlocks \in 1..MaxBlocks /\ windowsize \in 1..MAX_WINDOW_SIZE
  /\ base \in 0..totalBlocks /\ nextToSend \in (base + 1)..(totalBlocks + 1)
  /\ nextToSend <= base + windowsize + 1
  /\ reading \in 0..totalBlocks
  /\ retries \in 0..(MAX_RETRIES + 1) /\ (outcome = "running" => retries <= MAX_RETRIES)
  /\ {oackPending, timer, socketOpen, contacted} \subseteq BOOLEAN
  /\ outcome \in {"running", "sent", "timed-out", "read-error", "crashed"}
  /\ file \in Seq(1..totalBlocks)
  /\ toClient \in Seq(Datagrams) /\ Len(toClient) <= Capacity
  /\ toServer \in Seq(0..(WireNumbers - 1)) /\ Len(toServer) <= Capacity

(* The block being read is one of the window, or the one just acknowledged  *)
(* while it was read once more; what is sent next comes after it.           *)
ReadsInWindow ==
  reading # 0 => reading \in base..(base + windowsize) /\ nextToSend <= reading + 1

(* A block is within a window's length of all that was sent before it: of   *)
(* the blocks ahead of it in the network, and of those the client has.      *)
(* s is the network, b the base, r the block being read, and l what the     *)
(* client has.                                                              *)
IsData(m) == m.op = "DATA"
Close(s, b, r, l) ==
  /\ l <= b + windowsize /\ (r # 0 => l < r + windowsize)
  /\ \A i \in 1..Len(s) : IsData(s[i]) =>
       /\ s[i].content <= b + windowsize /\ (r # 0 => s[i].content < r + windowsize)
       /\ l < s[i].content + windowsize
       /\ \A j \in 1..Len(s) : IsData(s[j]) /\ i < j => s[i].content < s[j].content + windowsize

BlocksKeepClose == Close(toClient, base, reading, Len(file))

(* Every acknowledgement on its way stands for a block that the client has  *)
(* and that the server has not gone beyond, and they come in order.         *)
Ordered(s, b, l) ==
  /\ \A i \in 1..Len(s) : \E k \in b..l : s[i] = Wire(k)
  /\ \A i, j \in 1..Len(s) : \A k, m \in b..l : i < j /\ s[i] = Wire(k) /\ s[j] = Wire(m) => k <= m

AcksInOrder == Ordered(toServer, base, Len(file))

(* What the client has is the file from its beginning, block by block,      *)
(* although numbers on the wire come round again and windows are resent.    *)
ClientFileIsTrue == \A i \in DOMAIN file : file[i] = i

(* The transfer's bounds, the order in which blocks and acknowledgements    *)
(* travel, and a true copy at the client.                                   *)
SendInv == SendTypeOK /\ ReadsInWindow /\ BlocksKeepClose /\ AcksInOrder /\ ClientFileIsTrue

(* The server never takes for acknowledged what the client does not have,   *)
(* so a transfer that is reported as sent was received to the last block.   *)
AckedIsReceived ==
  /\ base <= Len(file)
  /\ outcome = "sent" => Len(file) = totalBlocks

(* Every transfer ends, and gives up its socket and its file descriptor,    *)
(* unless a timeout finds it reading: then pump() is at work already and    *)
(* returns before it arms the timer, and only the client can go on.         *)
TransferEnds == <>(outcome # "running" \/ (reading # 0 /\ ~timer))
=============================================================================
