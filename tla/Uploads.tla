-------------------------------- MODULE Uploads --------------------------------
(***************************************************************************)
(* Files that arrive in the TFTP directory under one name: write requests  *)
(* (lib/tftpServer.js, receiveFile) and files pushed through the tunnel    *)
(* (lib/tunnelClient.js, receiveTftpUpload).  Both write `name.uploading'  *)
(* and rename it.  The web page's own uploads and deletions                *)
(* (lib/webServer.js, /api/tftp) go straight to the real name.             *)
(*                                                                         *)
(* A step is one event.  Streams and files are the operating system's: an  *)
(* open, a write, a rename or an unlink is asked for in one step and done  *)
(* in a later one, each on its own.  Block k of client c's file is written *)
(* at the writer's own offset; contents[f][k] = c says that it is there.   *)
(*                                                                         *)
(* External: TFTP clients, which send a block when the one before it is    *)
(* acknowledged, and may stop at any time; the network, which loses,       *)
(* repeats and reorders datagrams (whatever was sent may arrive, any       *)
(* number of times, so a repeated acknowledgement is no step); multer,     *)
(* which stores what the page uploads, and removes what it cannot.         *)
(***************************************************************************)
EXTENDS Integers, Sequences, FiniteSets

CONSTANTS
  Clients,       \* TFTP clients
  TftpTransfers, TunnelTransfers,
  PageUploads,   \* uploads from the web page, each made once and one at a time
  Blocks,        \* the length of every file
  MAX_RETRIES,
  Overlap,       \* may a transfer begin while another is not over?
  DiskErrors,    \* may an open or a write fail?
  SocketErrors   \* may a transfer's socket, or its channel, report an error?

Transfers == TftpTransfers \union TunnelTransfers
Sources   == Clients \union TunnelTransfers   \* the hub is its transfer's client
Files     == Transfers \union PageUploads     \* a file is named after who created it
None      == "none"
Hole      == "hole"

ASSUME UploadsAssumption ==
  /\ TftpTransfers \intersect TunnelTransfers = {} /\ Clients \intersect Files = {}
  /\ PageUploads \intersect Transfers = {}
  /\ Blocks \in Nat \ {0} /\ MAX_RETRIES \in Nat
  /\ {Overlap, DiskErrors, SocketErrors} \subseteq BOOLEAN
  /\ {None, Hole} \intersect (Sources \union Files) = {}

VARIABLES
  peer,       \* who a transfer serves
  phase,      \* unused, receiving, lingering (all received), closed
  received,   \* expectedBlock - 1
  retries,
  socketOpen,
  stream,     \* the write stream: none, opening, open, doomed (destroyed while opening), closed
  written,    \* blocks the stream has written
  fd,         \* the file it writes to
  renaming, unlinking,       \* fs.rename and fs.unlink under way
  tmp, target, contents,     \* the two names and the files there are
  page,                      \* where an upload of the page is, and its file
  bound, sent,               \* the transfer a client talks to, the blocks it has sent
  sure,                      \* whom the server has told that their file is there
  stored,                    \* whose file has been there, whole (history)
  crashed

transfer  == <<peer, phase, received, retries, socketOpen>>
streams   == <<stream, written, fd>>
pending   == <<renaming, unlinking>>
files     == <<tmp, target, contents>>
clients   == <<bound, sent>>
uploadVars == <<transfer, streams, pending, files, clients, sure, stored, crashed, page>>

PageOver == [at |-> "over", fd |-> None]

UploadInit ==
  /\ page = [g \in PageUploads |-> [at |-> "unused", fd |-> None]]
  /\ peer = [t \in Transfers |-> None] /\ phase = [t \in Transfers |-> "unused"]
  /\ received = [t \in Transfers |-> 0] /\ retries = [t \in Transfers |-> 0]
  /\ socketOpen = [t \in Transfers |-> FALSE]
  /\ stream = [t \in Transfers |-> None] /\ written = [t \in Transfers |-> 0]
  /\ fd = [t \in Transfers |-> None]
  /\ renaming = {} /\ unlinking = {}
  /\ tmp = None /\ target = None /\ contents = [f \in Files |-> <<>>]
  /\ bound = [c \in Clients |-> None] /\ sent = [c \in Clients |-> 0]
  /\ sure = {} /\ stored = {} /\ crashed = FALSE

\* A slip: one block too soon.
EndedEarly(t) == received[t] + 1 >= Blocks

Ended(t) == received[t] = Blocks      \* end() of the stream was called
Over(t)  == phase[t] = "closed" /\ stream[t] = "closed" /\ t \notin renaming \union unlinking

-----------------------------------------------------------------------------
\* The transfer begins: createWriteStream(tmpPath), and the first answer.
Begin(t, who) ==
  /\ phase[t] = "unused" /\ (Overlap \/ \A u \in Transfers : phase[u] = "unused" \/ Over(u))
  /\ peer'  = [peer EXCEPT ![t] = who]
  /\ phase' = [phase EXCEPT ![t] = "receiving"]
  /\ socketOpen' = [socketOpen EXCEPT ![t] = TRUE]
  /\ stream' = [stream EXCEPT ![t] = "opening"]
  /\ UNCHANGED <<received, retries, written, fd, pending, files, clients, sure, stored, crashed>>

\* A write request, perhaps one that was sent or delivered again.
handleRequest(t, c) == ~crashed /\ t \in TftpTransfers /\ c \in Clients /\ Begin(t, c)

receiveTftpUpload(t) == ~crashed /\ t \in TunnelTransfers /\ Begin(t, t)

\* cleanup() and abort() of transfer t.
Destroyed(t) == [stream EXCEPT ![t] = IF @ \in {"opening", "doomed"} THEN "doomed" ELSE "closed"]
cleanup(t) ==
  /\ phase' = [phase EXCEPT ![t] = "closed"] /\ socketOpen' = [socketOpen EXCEPT ![t] = FALSE]
\* A slip: the stream is destroyed, the socket forgotten.
abortStream(t) ==
  /\ UNCHANGED <<phase, socketOpen>>
  /\ stream' = Destroyed(t) /\ unlinking' = unlinking \union {t}

abort(t) ==
  /\ cleanup(t)
  /\ stream' = Destroyed(t) /\ unlinking' = unlinking \union {t}

Crash == crashed' = TRUE /\ UNCHANGED <<phase, socketOpen, stream, unlinking>>

-----------------------------------------------------------------------------
\* The expected block, which the client has sent: written, acknowledged, and
\* with the last one the stream is ended.
DataReceived(t) ==
  /\ ~crashed /\ phase[t] = "receiving" /\ socketOpen[t] /\ ~Ended(t)
  /\ t \in TftpTransfers => bound[peer[t]] = t /\ sent[peer[t]] > received[t]
  /\ received' = [received EXCEPT ![t] = @ + 1]
  /\ retries'  = [retries EXCEPT ![t] = 0]
  /\ phase'    = [phase EXCEPT ![t] = IF received'[t] = Blocks /\ t \in TftpTransfers THEN "lingering" ELSE @]
  /\ UNCHANGED <<peer, socketOpen, streams, pending, files, clients, sure, stored, crashed>>

\* A slip: the linger timeout aborts, too.
AbortLingering(t) == abort(t)

\* The linger window has passed: the client got the final acknowledgement.
LingerOver(t) == cleanup(t) /\ UNCHANGED <<stream, unlinking>>

GivesUp(t) == retries[t] + 1 > MAX_RETRIES

onTimeout(t) ==
  /\ ~crashed /\ t \in TftpTransfers
  /\ \/ /\ phase[t] = "lingering"
        /\ LingerOver(t) /\ UNCHANGED <<retries, crashed>>
     \/ /\ phase[t] = "receiving" /\ GivesUp(t)
        /\ abort(t) /\ UNCHANGED <<retries, crashed>>
     \/ /\ phase[t] = "receiving" /\ ~GivesUp(t)
        /\ retries' = [retries EXCEPT ![t] = @ + 1]
        /\ IF socketOpen[t] THEN UNCHANGED <<phase, socketOpen, stream, unlinking, crashed>>
                            ELSE Crash
  /\ UNCHANGED <<peer, received, written, fd, renaming, files, clients, sure, stored>>

\* conn.on('error'): the socket is closed, the transfer is not told.
SocketError(t) ==
  /\ SocketErrors /\ ~crashed /\ t \in TftpTransfers /\ socketOpen[t]
  /\ socketOpen' = [socketOpen EXCEPT ![t] = FALSE]
  /\ UNCHANGED <<peer, phase, received, retries, streams, pending, files, clients, sure, stored, crashed>>

\* The channel of a tunneled upload fails before the hub has its answer.
ChannelError(t) ==
  /\ SocketErrors /\ ~crashed /\ t \in TunnelTransfers /\ phase[t] = "receiving"
  /\ abort(t)
  /\ renaming' = renaming \union (IF Ended(t) THEN {t} ELSE {})   \* end()'s callback, with an error
  /\ UNCHANGED <<peer, received, retries, written, fd, files, clients, sure, stored, crashed>>

-----------------------------------------------------------------------------
\* The stream's file is there: created, or, if there is one, truncated.
Opened(t) ==
  /\ ~crashed /\ stream[t] \in {"opening", "doomed"}
  /\ LET f == IF tmp = None THEN t ELSE tmp IN
     /\ tmp' = f /\ fd' = [fd EXCEPT ![t] = f]
     /\ contents' = [contents EXCEPT ![f] = <<>>]
  /\ stream' = [stream EXCEPT ![t] = IF @ = "opening" THEN "open" ELSE "closed"]
  /\ UNCHANGED <<transfer, written, pending, target, clients, sure, stored, crashed>>

\* Written at the writer's offset, whatever the file holds by now.
Put(s, k, who) == [i \in 1..(IF k > Len(s) THEN k ELSE Len(s)) |->
                     IF i = k THEN who ELSE IF i <= Len(s) THEN s[i] ELSE Hole]

Written(t) ==
  /\ ~crashed /\ stream[t] = "open" /\ written[t] < received[t]
  /\ written'  = [written EXCEPT ![t] = @ + 1]
  /\ contents' = [contents EXCEPT ![fd[t]] = Put(@, written'[t], peer[t])]
  /\ UNCHANGED <<transfer, stream, fd, pending, tmp, target, clients, sure, stored, crashed>>

Flushed(t) == Ended(t) /\ written[t] = received[t]

\* end()'s callback, which renames.
Finished(t) ==
  /\ ~crashed /\ stream[t] = "open" /\ Flushed(t)
  /\ stream' = [stream EXCEPT ![t] = "closed"] /\ renaming' = renaming \union {t}
  /\ UNCHANGED <<transfer, written, fd, unlinking, files, clients, sure, stored, crashed>>

\* An open or a write fails.  end()'s callback comes first, and renames without
\* looking at its error; then the handler of 'error', if there is one, answers on
\* the socket, if that is open, and aborts.
DiskError(t) ==
  /\ DiskErrors /\ ~crashed
  /\ stream[t] = "opening" \/ (stream[t] = "open" /\ written[t] < received[t])
  /\ renaming' = renaming \union (IF Ended(t) THEN {t} ELSE {})
  /\ IF t \in TftpTransfers /\ socketOpen[t]
     THEN /\ cleanup(t) /\ stream' = [stream EXCEPT ![t] = "closed"]
          /\ unlinking' = unlinking \union {t} /\ UNCHANGED crashed
     ELSE Crash
  /\ UNCHANGED <<peer, received, retries, written, fd, files, clients, sure, stored>>

\* A file that has lost its name is gone, or might as well be.
Without(f) == IF f = None THEN contents ELSE [contents EXCEPT ![f] = <<>>]

Whole(f, c) == contents[f] = [k \in 1..Blocks |-> c]

\* A tunneled upload answers the hub when the rename is done.
Renamed(t) ==
  /\ ~crashed /\ t \in renaming
  /\ renaming' = renaming \ {t}
  /\ IF tmp # None
     THEN /\ target' = tmp /\ tmp' = None /\ contents' = Without(target)
          /\ stored' = stored \union {c \in Sources : Whole(tmp, c)}
     ELSE UNCHANGED <<target, tmp, contents, stored>>
  /\ IF t \in TunnelTransfers /\ phase[t] = "receiving"
     THEN /\ phase' = [phase EXCEPT ![t] = "closed"]
          /\ sure' = sure \union (IF tmp # None THEN {t} ELSE {})
     ELSE UNCHANGED <<phase, sure>>
  /\ UNCHANGED <<peer, received, retries, socketOpen, streams, unlinking, clients, crashed>>

Unlinked(t) ==
  /\ ~crashed /\ t \in unlinking
  /\ unlinking' = unlinking \ {t} /\ tmp' = None /\ contents' = Without(tmp)
  /\ UNCHANGED <<transfer, streams, renaming, target, clients, sure, stored, crashed>>

-----------------------------------------------------------------------------
\* A client hears the acknowledgement it waits for: the first one tells it whom
\* to talk to, the last one that its file is there.
ClientHears(c) ==
  /\ ~crashed
  /\ \/ \E t \in TftpTransfers :
          /\ bound[c] = None /\ peer[t] = c
          /\ bound' = [bound EXCEPT ![c] = t] /\ sent' = [sent EXCEPT ![c] = 1]
          /\ UNCHANGED sure
     \/ /\ bound[c] # None /\ c \notin sure /\ received[bound[c]] = sent[c]
        /\ IF sent[c] = Blocks THEN sure' = sure \union {c} /\ UNCHANGED sent
                               ELSE sent' = [sent EXCEPT ![c] = @ + 1] /\ UNCHANGED sure
        /\ UNCHANGED bound
  /\ UNCHANGED <<transfer, streams, pending, files, stored, crashed>>

-----------------------------------------------------------------------------
\* POST /api/tftp/files: multer creates, or truncates, the file at the real name ...
PageOpens(g) ==
  /\ ~crashed /\ page[g].at = "unused"
  /\ \A h \in PageUploads : page[h].at \in {"unused", "over"}
  /\ LET f == IF target = None THEN g ELSE target IN
     /\ target' = f /\ contents' = [contents EXCEPT ![f] = <<>>]
     /\ page' = [page EXCEPT ![g] = [at |-> "writing", fd |-> f]]
  /\ UNCHANGED <<transfer, streams, pending, tmp, clients, sure, stored, crashed>>

\* ... and writes it, to the file it has opened, whatever has that name by now.
PageStored(g) ==
  /\ ~crashed /\ page[g].at = "writing"
  /\ contents' = [contents EXCEPT ![page[g].fd] = [k \in 1..Blocks |-> g]]
  /\ page' = [page EXCEPT ![g] = PageOver]
  /\ UNCHANGED <<transfer, streams, pending, tmp, target, clients, sure, stored, crashed>>

\* The browser goes away, the disk is full, or the file too large: the name is removed,
\* whoever's file has it by now.
PageFails(g) ==
  /\ ~crashed /\ page[g].at = "writing" /\ page' = [page EXCEPT ![g] = PageOver]
  /\ target' = None /\ contents' = Without(target)
  /\ UNCHANGED <<transfer, streams, pending, tmp, clients, sure, stored, crashed>>

\* DELETE /api/tftp/files/:name
DeleteFile ==
  /\ ~crashed /\ target # None /\ target' = None /\ contents' = Without(target)
  /\ UNCHANGED <<transfer, streams, pending, tmp, clients, sure, stored, crashed, page>>

WebNext ==
  \/ DeleteFile
  \/ \E g \in PageUploads : PageOpens(g) \/ PageStored(g) \/ PageFails(g)

TransferNext ==
  \/ \E t \in Transfers :
       \/ \E c \in Clients : handleRequest(t, c)
       \/ receiveTftpUpload(t) \/ DataReceived(t) \/ onTimeout(t) \/ SocketError(t) \/ ChannelError(t)
       \/ Opened(t) \/ Written(t) \/ Finished(t) \/ DiskError(t) \/ Renamed(t) \/ Unlinked(t)
  \/ \E c \in Clients : ClientHears(c)

UploadNext == (TransferNext /\ UNCHANGED page) \/ WebNext

\* Timers fire and the operating system does what it was asked for.
UploadFairness ==
  \A t \in Transfers :
    /\ WF_uploadVars(onTimeout(t) /\ UNCHANGED page)
    /\ WF_uploadVars((Opened(t) \/ Written(t) \/ Finished(t) \/ DiskError(t)) /\ UNCHANGED page)
    /\ WF_uploadVars(Renamed(t) /\ UNCHANGED page) /\ WF_uploadVars(Unlinked(t) /\ UNCHANGED page)

UploadSpec     == UploadInit /\ [][UploadNext]_uploadVars
UploadFairSpec == UploadSpec /\ UploadFairness

-----------------------------------------------------------------------------
UploadTypeOK ==
  /\ peer \in [Transfers -> Sources \union {None}]
  /\ phase \in [Transfers -> {"unused", "receiving", "lingering", "closed"}]
  /\ received \in [Transfers -> 0..Blocks] /\ retries \in [Transfers -> 0..MAX_RETRIES]
  /\ stream \in [Transfers -> {None, "opening", "open", "doomed", "closed"}]
  /\ \A t \in Transfers : written[t] <= received[t] /\ Len(contents[t]) <= Blocks
  /\ tmp \in Transfers \union {None} /\ target \in Files \union {None}
  /\ page \in [PageUploads -> [at : {"unused", "writing", "over"},
                              fd : Files \union {None}]]
  /\ renaming \union unlinking \subseteq Transfers /\ sure \union stored \subseteq Sources

\* An error struck after the last block had arrived: what was buffered is lost.
Spoiled(t) == Ended(t) /\ stream[t] \in {"doomed", "closed"} /\ written[t] < received[t]

(* Whatever is at the real name is one client's file, from its first to its *)
(* last block, however clients repeat themselves and vanish and timers      *)
(* race the disk (tftpServer.js and tunnelClient.js, the comments on the    *)
(* temporary name); unless it is what an error after the last block left,   *)
(* which end()'s callback renames all the same, or the page is writing to   *)
(* that very file, which it truncates, and leaves whole or removes.  It     *)
(* needs ~Overlap.                                                          *)
TargetIsWhole ==
  target # None =>
    \/ \E c \in Sources \union PageUploads : Whole(target, c)
    \/ \E t \in Transfers : Spoiled(t)
    \/ \E g \in PageUploads : page[g] = [at |-> "writing", fd |-> target]

(* The uploads' types, and nothing cut short at the real name.              *)
UploadInv == UploadTypeOK /\ TargetIsWhole

(* A client that is told its file has arrived has it at the real name in    *)
(* the end, although it is told before the file is written and renamed;     *)
(* unless an error strikes meanwhile.  It needs ~Overlap.                   *)
SureIsStored ==
  \A c \in Sources : c \in sure ~> \/ c \in stored
                                  \/ crashed \/ \E t \in Transfers : peer[t] = c /\ Spoiled(t)

(* However a client, the network and the disk behave, a TFTP upload gives   *)
(* up its socket, unless the process goes first.                            *)
UploadEnds == \A t \in TftpTransfers : phase[t] = "receiving" ~> phase[t] = "closed" \/ crashed

-----------------------------------------------------------------------------
(* "Written to a temp name and renamed only once the transfer completes, so *)
(* a client that vanishes mid-upload never leaves a truncated file at the   *)
(* real name" (tftpServer.js).  It does not hold with Overlap: two          *)
(* transfers to one name share the temporary one.                           *)
NeverTruncated == target # None => \E c \in Sources : Whole(target, c)
=============================================================================
