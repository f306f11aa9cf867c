----------------------------- MODULE Uploads_proofs -----------------------------
(***************************************************************************)
(* Proofs about Uploads, for any clients, transfers, uploads of the page,  *)
(* length of the files and number of retries: without Overlap nothing that *)
(* is cut short gets the real name.                                        *)
(*                                                                         *)
(* One transfer at a time is under way.  It alone owns the file with the   *)
(* temporary name, which holds what its stream has written, until the      *)
(* rename is asked for; from then on nobody writes to that file.           *)
(***************************************************************************)
EXTENDS Uploads, TLAPS

-----------------------------------------------------------------------------
Rests(t)   == phase[t] = "unused" \/ Over(t)
OneAtATime == \A t, u \in Transfers : t # u => Rests(t) \/ Rests(u)

\* The transfer's file does not exist yet.
NotYet(t) ==
  /\ written[t] = 0 /\ tmp # t /\ target # t
  /\ \A g \in PageUploads : page[g].fd # t

\* What transfer t renames is whole, gone, or spoiled.
Renames(t) == Ended(t) /\ (Spoiled(t) \/ tmp = None \/ Whole(tmp, peer[t]))

\* A transfer's parts fit together: its phase, its stream, its file and what is
\* under way for it.
Fits(t) ==
  /\ phase[t] = "unused" <=> stream[t] = None
  /\ phase[t] = "unused" => received[t] = 0 /\ t \notin renaming \union unlinking
  /\ phase[t] # "unused" => peer[t] \in Sources
  /\ stream[t] \in {None, "opening", "doomed"} => NotYet(t)
  /\ stream[t] = "open" => /\ tmp # None /\ fd[t] = tmp
                           /\ contents[tmp] = [i \in 1..written[t] |-> peer[t]]
  /\ t \in TunnelTransfers /\ phase[t] = "receiving" =>
       stream[t] \in {"opening", "open"} \/ t \in renaming
  /\ crashed \/ (t \in renaming \union unlinking => stream[t] \in {"doomed", "closed"})
  /\ crashed \/ (t \in renaming => Renames(t))

\* The two names are two files, and the page does not write to the temporary one.
Apart ==
  /\ tmp # None => tmp # target /\ \A g \in PageUploads : page[g].fd # tmp
  /\ \A g \in PageUploads : page[g].at = "writing" => page[g].fd \in Files

FilesOK ==
  /\ fd \in [Transfers -> Transfers \union {None}] /\ written \in [Transfers -> 0..Blocks]
  /\ contents \in [Files -> Seq(Sources \union PageUploads \union {Hole})]

AllFit == \A t \in Transfers : Fits(t)

\* The inductive invariant.
Kept == UploadInv /\ FilesOK /\ OneAtATime /\ AllFit /\ Apart

-----------------------------------------------------------------------------
\* The parts of transfer u that a step of another one leaves alone.
Alone(u) ==
  /\ phase'[u] = phase[u] /\ received'[u] = received[u] /\ peer'[u] = peer[u]
  /\ stream'[u] = stream[u] /\ written'[u] = written[u] /\ fd'[u] = fd[u]
  /\ u \in renaming' => u \in renaming
  /\ u \in unlinking' => u \in unlinking

(* Nothing is under way at first.                                           *)
LEMMA UploadStarts == UploadInit => Kept
<1>. SUFFICES ASSUME UploadInit PROVE Kept
  OBVIOUS
<1>. USE UploadsAssumption
<1>1. UploadTypeOK
  BY DEF UploadInit, UploadTypeOK, Files, PageOver
<1>2. TargetIsWhole
  BY DEF UploadInit, TargetIsWhole
<1>3. FilesOK
  BY DEF UploadInit, FilesOK
<1>4. OneAtATime
  BY DEF UploadInit, OneAtATime, Rests
<1>5. AllFit
  BY DEF UploadInit, AllFit, Fits, NotYet, PageOver, None, Transfers, Sources, Files
<1>6. Apart
  BY DEF UploadInit, Apart, PageOver
<1>. QED
  BY <1>1, <1>2, <1>3, <1>4, <1>5, <1>6 DEF Kept, UploadInv

(* Who is not at rest is the only one.                                      *)
LEMMA OthersRest ==
  ASSUME Kept, NEW t \in Transfers, ~Rests(t)
  PROVE  \A u \in Transfers \ {t} : Rests(u)
BY DEF Kept, OneAtATime

(* The transfer whose socket, stream or file something happens to is at work. *)
LEMMA AtWork ==
  ASSUME Kept, NEW t \in Transfers,
         \/ phase[t] \in {"receiving", "lingering"}
         \/ stream[t] \in {"opening", "open", "doomed"}
         \/ t \in renaming \union unlinking
  PROVE  phase[t] # "unused" /\ \A u \in Transfers \ {t} : Rests(u)
<1>1. Fits(t)
  BY DEF Kept, AllFit
<1>2. phase[t] # "unused" /\ ~Rests(t)
  BY <1>1 DEF Fits, Rests, Over, None
<1>. QED
  BY <1>2, OthersRest

(* Others that rest keep resting, and fit, as long as no file of theirs appears. *)
LEMMA OthersStay ==
  ASSUME Kept, NEW t \in Transfers, Fits(t)',
         \A u \in Transfers \ {t} : Rests(u) /\ Alone(u) /\ (NotYet(u) => NotYet(u)')
  PROVE  OneAtATime' /\ AllFit'
<1>1. ASSUME NEW u \in Transfers \ {t} PROVE Rests(u)'
  BY <1>1 DEF Rests, Over, Alone
<1>2. ASSUME NEW u \in Transfers \ {t} PROVE Fits(u)'
  <2>1. Fits(u) /\ Rests(u) /\ Alone(u) /\ (NotYet(u) => NotYet(u)')
    BY <1>2 DEF Kept, AllFit
  <2>2. stream[u] \in {None, "closed"} /\ u \notin renaming \union unlinking
    BY <2>1 DEF Fits, Rests, Over
  <2>3. stream'[u] \in {None, "closed"} /\ u \notin renaming' \union unlinking'
    BY <2>1, <2>2 DEF Alone
  <2>4. phase[u] \in {"unused", "closed"}
    BY <2>1 DEF Rests, Over
  <2>. QED
    BY <2>1, <2>2, <2>3, <2>4 DEF Fits, Alone, None
<1>3. OneAtATime'
  BY <1>1 DEF OneAtATime
<1>4. AllFit'
  BY <1>2 DEF AllFit
<1>. QED
  BY <1>3, <1>4

(* The file at the real name stays what it is, spoiled or not.              *)
LEMMA TargetStays ==
  ASSUME Kept, target' = target, target # None => contents'[target] = contents[target],
         page' = page, \A u \in Transfers : Spoiled(u) => Spoiled(u)'
  PROVE  TargetIsWhole'
BY DEF Kept, UploadInv, TargetIsWhole, Whole

(* What another transfer has spoiled stays spoiled.                         *)
LEMMA SpoiledStays ==
  ASSUME NEW u, Alone(u), Spoiled(u)
  PROVE  Spoiled(u)'
BY DEF Alone, Spoiled, Ended

(* A step of a transfer that touches no file.                               *)
LEMMA NoFileTouched ==
  ASSUME Kept, NEW t \in Transfers, UploadTypeOK', Fits(t)', Spoiled(t) => Spoiled(t)',
         UNCHANGED <<files, written, fd, page>>,
         \A u \in Transfers \ {t} : Rests(u) /\ Alone(u)
  PROVE  Kept'
<1>1. \A u \in Transfers : Spoiled(u) => Spoiled(u)'
  BY SpoiledStays
<1>2. TargetIsWhole'
  BY <1>1, TargetStays DEF files
<1>3. FilesOK' /\ Apart'
  BY DEF Kept, FilesOK, Apart, files
<1>4. \A u \in Transfers : NotYet(u) => NotYet(u)'
  BY DEF NotYet, files
<1>5. OneAtATime' /\ AllFit'
  BY <1>4, OthersStay
<1>. QED
  BY <1>2, <1>3, <1>5 DEF Kept, UploadInv

(* A step that leaves every transfer, its stream and the files alone.       *)
LEMMA Quiet ==
  ASSUME Kept, UploadTypeOK',
         UNCHANGED <<peer, phase, received, streams, pending, files, page, crashed>>
  PROVE  Kept'
<1>. USE DEF files, streams, pending
<1>1. \A u \in Transfers : Spoiled(u) => Spoiled(u)'
  BY DEF Spoiled, Ended
<1>2. TargetIsWhole'
  BY <1>1, TargetStays
<1>3. FilesOK' /\ Apart' /\ OneAtATime'
  BY DEF Kept, FilesOK, Apart, OneAtATime, Rests, Over
<1>4. ASSUME NEW u \in Transfers PROVE Fits(u)'
  <2>1. Fits(u)
    BY DEF Kept, AllFit
  <2>2. (NotYet(u) <=> NotYet(u)') /\ (Renames(u) <=> Renames(u)')
    BY DEF NotYet, Renames, Ended, Spoiled, Whole
  <2>. QED
    BY <2>1, <2>2 DEF Fits
<1>. QED
  BY <1>2, <1>3, <1>4 DEF Kept, UploadInv, AllFit
-----------------------------------------------------------------------------
(* A transfer begins when all others are over: its stream opens.            *)
LEMMA BeginKeeps ==
  ASSUME Kept, ~Overlap, NEW t \in Transfers, NEW who \in Sources, Begin(t, who),
         UNCHANGED page
  PROVE  Kept'
<1>. USE UploadsAssumption
<1>1. phase[t] = "unused" /\ Fits(t)
  BY DEF Begin, Kept, AllFit
<1>2. ASSUME NEW u \in Transfers \ {t} PROVE Rests(u) /\ Alone(u)
  BY <1>2 DEF Begin, Rests, Alone, streams, pending, Kept, UploadInv, UploadTypeOK
<1>3. UploadTypeOK'
  BY DEF Begin, Kept, UploadInv, UploadTypeOK, streams, pending, files
<1>4. Fits(t)'
  BY <1>1 DEF Begin, Fits, NotYet, Kept, UploadInv, UploadTypeOK, streams, pending, files, None
<1>5. Spoiled(t) => Spoiled(t)'
  BY <1>1 DEF Fits, Spoiled, Ended
<1>6. UNCHANGED <<files, written, fd>>
  BY DEF Begin, streams
<1>. QED
  BY <1>2, <1>3, <1>4, <1>5, <1>6, NoFileTouched

(* A block arrives: one more is owed to the stream.                         *)
LEMMA DataReceivedKeeps ==
  ASSUME Kept, NEW t \in Transfers, DataReceived(t), UNCHANGED page
  PROVE  Kept'
<1>. USE UploadsAssumption
<1>1. Fits(t) /\ \A u \in Transfers \ {t} : Rests(u)
  BY AtWork DEF DataReceived, Kept, AllFit
<1>2. ASSUME NEW u \in Transfers \ {t} PROVE Alone(u)
  BY <1>2 DEF DataReceived, Alone, streams, pending, Kept, UploadInv, UploadTypeOK
<1>3. UploadTypeOK'
  BY DEF DataReceived, Kept, UploadInv, UploadTypeOK, FilesOK, streams, pending, files, Ended
<1>4. Fits(t)'
  BY <1>1 DEF DataReceived, Fits, NotYet, Renames, Ended, Kept, UploadInv, UploadTypeOK,
              streams, pending, files
<1>5. Spoiled(t) => Spoiled(t)'
  BY DEF DataReceived, Spoiled
<1>6. UNCHANGED <<files, written, fd>>
  BY DEF DataReceived, streams
<1>. QED
  BY <1>1, <1>2, <1>3, <1>4, <1>5, <1>6, NoFileTouched

(* The linger window or the patience with a silent client is over, or it is *)
(* asked again.                                                             *)
LEMMA OnTimeoutKeeps ==
  ASSUME Kept, NEW t \in Transfers, onTimeout(t), UNCHANGED page
  PROVE  Kept'
<1>. USE UploadsAssumption
<1>. DEFINE Gone == phase' = [phase EXCEPT ![t] = "closed"]
            Same == phase' = phase
            Kept1 == stream' = stream /\ unlinking' = unlinking
            Lost == stream' = Destroyed(t) /\ unlinking' = unlinking \union {t}
<1>1. /\ phase[t] \in {"receiving", "lingering"} /\ t \in TftpTransfers /\ ~crashed
      /\ \/ Gone /\ (Kept1 \/ Lost) /\ retries' = retries /\ crashed' = crashed
         \/ /\ Same /\ Kept1 /\ (crashed' = crashed \/ crashed')
            /\ retries' = retries
               \/ (retries' = [retries EXCEPT ![t] = @ + 1] /\ ~GivesUp(t))
  <2>1. CASE phase[t] = "lingering" /\ LingerOver(t) /\ UNCHANGED <<retries, crashed>>
    BY <2>1 DEF onTimeout, LingerOver, cleanup
  <2>2. CASE phase[t] = "receiving" /\ abort(t) /\ UNCHANGED <<retries, crashed>>
    BY <2>2 DEF onTimeout, abort, cleanup
  <2>3. CASE /\ phase[t] = "receiving" /\ ~GivesUp(t)
             /\ retries' = [retries EXCEPT ![t] = @ + 1]
             /\ IF socketOpen[t] THEN UNCHANGED <<phase, socketOpen, stream, unlinking, crashed>>
                                 ELSE Crash
    <3>1. CASE socketOpen[t]
      BY <2>3, <3>1 DEF onTimeout
    <3>2. CASE ~socketOpen[t]
      BY <2>3, <3>2 DEF onTimeout, Crash
    <3>. QED
      BY <3>1, <3>2
  <2>. QED
    BY <2>1, <2>2, <2>3 DEF onTimeout
<1>2. UNCHANGED <<peer, received, written, fd, renaming, files>>
  BY DEF onTimeout
<1>3. Fits(t) /\ phase[t] # "unused" /\ \A u \in Transfers \ {t} : Rests(u)
  BY <1>1, AtWork DEF Kept, AllFit
<1>4. ASSUME NEW u \in Transfers \ {t} PROVE Alone(u)
  BY <1>1, <1>2, <1>4 DEF Alone, Destroyed, Kept, UploadInv, UploadTypeOK
<1>5. UploadTypeOK'
  <2>1. phase' \in [Transfers -> {"unused", "receiving", "lingering", "closed"}]
    BY <1>1 DEF Kept, UploadInv, UploadTypeOK
  <2>2. retries' \in [Transfers -> 0..MAX_RETRIES]
    <3>1. retries \in [Transfers -> 0..MAX_RETRIES] /\ MAX_RETRIES \in Nat
      BY DEF Kept, UploadInv, UploadTypeOK
    <3>2. CASE retries' = [retries EXCEPT ![t] = @ + 1] /\ ~GivesUp(t)
      <4>1. retries[t] + 1 \in 0..MAX_RETRIES
        BY <3>1, <3>2 DEF GivesUp
      <4>. QED
        BY <3>1, <3>2, <4>1
    <3>. QED
      BY <1>1, <3>1, <3>2
  <2>3. stream' \in [Transfers -> {None, "opening", "open", "doomed", "closed"}]
    <3>1. stream' = stream \/ stream' = Destroyed(t)
      BY <1>1
    <3>2. stream \in [Transfers -> {None, "opening", "open", "doomed", "closed"}]
      BY DEF Kept, UploadInv, UploadTypeOK
    <3>. HIDE DEF Gone, Same, Kept1, Lost
    <3>. QED
      BY <3>1, <3>2 DEF Destroyed
  <2>4. renaming' \union unlinking' \subseteq Transfers /\ sure' = sure /\ stored' = stored
    BY <1>1, <1>2 DEF onTimeout, Kept, UploadInv, UploadTypeOK
  <2>. QED
    BY <1>2, <2>1, <2>2, <2>3, <2>4 DEF Kept, UploadInv, UploadTypeOK, files
<1>6. Spoiled(t) => Spoiled(t)'
  BY <1>1, <1>2 DEF Spoiled, Ended, Destroyed, Kept, UploadInv, UploadTypeOK
<1>7. Fits(t)'
  <2>1. CASE Lost /\ Gone /\ crashed' = crashed
    <3>1. /\ stream'[t] \in {"doomed", "closed"} /\ phase'[t] = "closed" /\ crashed' = crashed
          /\ stream'[t] = "doomed" => stream[t] \in {"opening", "doomed"}
      BY <1>1, <2>1 DEF Destroyed, Kept, UploadInv, UploadTypeOK
    <3>2. NotYet(t) => NotYet(t)'
      BY <1>2 DEF NotYet, files
    <3>3. Renames(t) => Renames(t)'
      BY <1>2, <1>6 DEF Renames, Ended, Whole, files
    <3>4. t \in renaming' <=> t \in renaming
      BY <1>2
    <3>5. phase'[t] # "unused" => peer'[t] \in Sources
      BY <1>2, <1>3 DEF Fits
    <3>6. ~crashed
      BY <1>1
    <3>. HIDE DEF Gone, Same, Kept1, Lost
    <3>. QED
      BY <1>3, <3>1, <3>2, <3>3, <3>4, <3>5, <3>6 DEF Fits, None
  <2>2. CASE Kept1
    <3>1. /\ phase'[t] = phase[t] \/ phase'[t] = "closed"
          /\ stream'[t] = stream[t] /\ (t \in unlinking' <=> t \in unlinking)
      BY <1>1, <2>2 DEF Kept, UploadInv, UploadTypeOK
    <3>2. NotYet(t) => NotYet(t)'
      BY <1>2 DEF NotYet, files
    <3>3. Renames(t) => Renames(t)'
      BY <1>2, <1>6 DEF Renames, Ended, Whole, files
    <3>4. ~crashed
      BY <1>1
    <3>5. stream'[t] # "open" \/ (tmp' = tmp /\ fd'[t] = fd[t] /\ contents' = contents
                                  /\ written' = written /\ peer' = peer)
      BY <1>2 DEF files
    <3>. HIDE DEF Gone, Same, Kept1, Lost
    <3>. QED
      BY <1>2, <1>3, <3>1, <3>2, <3>3, <3>4, <3>5 DEF Fits, files
  <2>. QED
    BY <1>1, <2>1, <2>2
<1>. QED
  BY <1>2, <1>3, <1>4, <1>5, <1>6, <1>7, NoFileTouched
(* An error on a TFTP socket closes it and no more.                         *)
LEMMA SocketErrorKeeps ==
  ASSUME Kept, NEW t \in Transfers, SocketError(t), UNCHANGED page
  PROVE  Kept'
<1>1. UploadTypeOK'
  BY DEF SocketError, Kept, UploadInv, UploadTypeOK, streams, pending, files
<1>. QED
  BY <1>1, Quiet DEF SocketError

(* What a client is told changes nothing at the server.                     *)
LEMMA ClientHearsKeeps ==
  ASSUME Kept, NEW c \in Clients, ClientHears(c), UNCHANGED page
  PROVE  Kept'
<1>1. UNCHANGED <<transfer, streams, pending, files, stored, crashed>>
      /\ sure' \subseteq sure \union Sources
  BY DEF ClientHears, Sources
<1>2. UploadTypeOK'
  BY <1>1 DEF Kept, UploadInv, UploadTypeOK, transfer, streams, pending, files
<1>. QED
  BY <1>1, <1>2, Quiet DEF transfer

(* The channel of a tunneled upload fails.  If the last block had come, its *)
(* file is renamed all the same: it is whole, or what was left to write is  *)
(* lost.                                                                    *)
LEMMA ChannelErrorKeeps ==
  ASSUME Kept, NEW t \in Transfers, ChannelError(t), UNCHANGED page
  PROVE  Kept'
<1>. USE UploadsAssumption
<1>1. /\ t \in TunnelTransfers /\ phase[t] = "receiving" /\ ~crashed
      /\ Fits(t) /\ \A u \in Transfers \ {t} : Rests(u)
  BY AtWork DEF ChannelError, Kept, AllFit
<1>2. /\ phase' = [phase EXCEPT ![t] = "closed"]
      /\ stream' = Destroyed(t) /\ unlinking' = unlinking \union {t}
      /\ renaming' = renaming \union (IF Ended(t) THEN {t} ELSE {})
      /\ UNCHANGED <<peer, received, retries, written, fd, files, clients, sure, stored, crashed>>
  BY DEF ChannelError, abort, cleanup
<1>3. ASSUME NEW u \in Transfers \ {t} PROVE Alone(u)
  BY <1>2, <1>3 DEF Alone, Destroyed, Kept, UploadInv, UploadTypeOK
<1>4. /\ phase'[t] = "closed"
      /\ stream'[t] = IF stream[t] \in {"opening", "doomed"} THEN "doomed" ELSE "closed"
  BY <1>2 DEF Destroyed, Kept, UploadInv, UploadTypeOK
<1>5. UploadTypeOK'
  <2>1. /\ phase' \in [Transfers -> {"unused", "receiving", "lingering", "closed"}]
        /\ stream' \in [Transfers -> {None, "opening", "open", "doomed", "closed"}]
        /\ renaming' \union unlinking' \subseteq Transfers
    BY <1>2 DEF Destroyed, Kept, UploadInv, UploadTypeOK
  <2>. QED
    BY <1>2, <2>1 DEF Kept, UploadInv, UploadTypeOK, files
<1>6. Spoiled(t) => Spoiled(t)'
  BY <1>2, <1>4 DEF Spoiled, Ended
<1>7. Fits(t)'
  <2>1. NotYet(t) => NotYet(t)'
    BY <1>2 DEF NotYet, files
  <2>2. Renames(t) => Renames(t)'
    BY <1>2, <1>6 DEF Renames, Ended, Whole, files
  <2>3. t \in renaming' => Renames(t)'
    <3>1. CASE t \in renaming
      BY <1>1, <2>2, <3>1 DEF Fits
    <3>2. CASE t \notin renaming
      <4>. SUFFICES ASSUME Ended(t) PROVE Renames(t)'
        BY <1>2, <3>2
      <4>1. stream[t] \in {"opening", "open"}
        BY <1>1, <3>2 DEF Fits
      <4>2. written[t] \in 0..Blocks /\ received[t] = Blocks /\ Blocks \in Nat \ {0}
        BY DEF Kept, FilesOK, Ended
      <4>3. CASE written[t] < Blocks
        BY <1>2, <1>4, <4>2, <4>3 DEF Renames, Spoiled, Ended
      <4>4. CASE written[t] = Blocks
        <5>1. stream[t] = "open"
          BY <1>1, <4>1, <4>2, <4>4 DEF Fits, NotYet
        <5>2. Whole(tmp, peer[t])
          BY <1>1, <4>4, <5>1 DEF Fits, Whole
        <5>. QED
          BY <1>2, <4>2, <5>2 DEF Renames, Ended, Whole, files
      <4>. QED
        BY <4>2, <4>3, <4>4
    <3>. QED
      BY <3>1, <3>2
  <2>4. phase'[t] # "unused" => peer'[t] \in Sources
    BY <1>1, <1>2 DEF Fits
  <2>. QED
    BY <1>1, <1>4, <2>1, <2>3, <2>4 DEF Fits, None
<1>8. UNCHANGED <<files, written, fd, page>>
  BY <1>2
<1>. QED
  BY <1>1, <1>3, <1>5, <1>6, <1>7, <1>8, NoFileTouched

(* An open or a write fails: the process goes, or the transfer is over.     *)
LEMMA DiskErrorKeeps ==
  ASSUME Kept, NEW t \in Transfers, DiskError(t), UNCHANGED page
  PROVE  Kept'
<1>. USE UploadsAssumption
<1>1. /\ ~crashed /\ Fits(t) /\ phase[t] # "unused"
      /\ stream[t] = "opening" \/ (stream[t] = "open" /\ written[t] < received[t])
      /\ \A u \in Transfers \ {t} : Rests(u)
  BY AtWork DEF DiskError, Kept, AllFit
<1>2. /\ renaming' = renaming \union (IF Ended(t) THEN {t} ELSE {})
      /\ UNCHANGED <<peer, received, retries, written, fd, files, clients, sure, stored>>
  BY DEF DiskError
<1>3. \/ /\ crashed' /\ UNCHANGED <<phase, stream, unlinking>>
      \/ /\ phase' = [phase EXCEPT ![t] = "closed"]
         /\ stream' = [stream EXCEPT ![t] = "closed"] /\ unlinking' = unlinking \union {t}
  BY DEF DiskError, Crash, cleanup
<1>4. ASSUME NEW u \in Transfers \ {t} PROVE Alone(u)
  BY <1>2, <1>3, <1>4 DEF Alone, Kept, UploadInv, UploadTypeOK
<1>5. UploadTypeOK'
  <2>1. /\ phase' \in [Transfers -> {"unused", "receiving", "lingering", "closed"}]
        /\ stream' \in [Transfers -> {None, "opening", "open", "doomed", "closed"}]
        /\ renaming' \union unlinking' \subseteq Transfers
    BY <1>2, <1>3 DEF Kept, UploadInv, UploadTypeOK
  <2>. QED
    BY <1>2, <2>1 DEF Kept, UploadInv, UploadTypeOK, files
<1>6. Spoiled(t) => Spoiled(t)'
  BY <1>1 DEF Spoiled
<1>7. NotYet(t) => NotYet(t)'
  BY <1>2 DEF NotYet, files
<1>8. Fits(t)'
  <2>0. t \in renaming' => t \in renaming \/ Ended(t)
    BY <1>2
  <2>1. CASE crashed' /\ UNCHANGED <<phase, stream, unlinking>>
    <3>1. t \in renaming => t \in renaming'
      BY <1>2
    <3>2. UNCHANGED <<peer, received, written, fd, tmp, contents, phase, stream>>
      BY <1>2, <2>1 DEF files
    <3>. QED
      BY <1>1, <1>7, <2>1, <3>1, <3>2 DEF Fits
  <2>2. CASE /\ phase' = [phase EXCEPT ![t] = "closed"]
             /\ stream' = [stream EXCEPT ![t] = "closed"] /\ unlinking' = unlinking \union {t}
    <3>1. phase'[t] = "closed" /\ stream'[t] = "closed"
      BY <2>2 DEF Kept, UploadInv, UploadTypeOK
    <3>2. t \notin renaming
      BY <1>1 DEF Fits
    <3>3. Ended(t) => Renames(t)'
      <4>1. Ended(t) => written[t] < received[t]
        BY <1>1 DEF Ended, Fits, NotYet
      <4>. QED
        BY <1>2, <3>1, <4>1 DEF Renames, Spoiled, Ended
    <3>4. peer'[t] \in Sources
      BY <1>1, <1>2 DEF Fits
    <3>. QED
      BY <2>0, <3>1, <3>2, <3>3, <3>4 DEF Fits, None
  <2>. QED
    BY <1>3, <2>1, <2>2
<1>9. UNCHANGED <<files, written, fd, page>>
  BY <1>2
<1>. QED
  BY <1>1, <1>4, <1>5, <1>6, <1>8, <1>9, NoFileTouched

(* end()'s callback finds a whole file.                                     *)
LEMMA FinishedKeeps ==
  ASSUME Kept, NEW t \in Transfers, Finished(t), UNCHANGED page
  PROVE  Kept'
<1>. USE UploadsAssumption
<1>1. /\ ~crashed /\ Fits(t) /\ phase[t] # "unused" /\ stream[t] = "open"
      /\ Ended(t) /\ written[t] = received[t]
      /\ \A u \in Transfers \ {t} : Rests(u)
  BY AtWork DEF Finished, Flushed, Kept, AllFit
<1>2. /\ stream' = [stream EXCEPT ![t] = "closed"] /\ renaming' = renaming \union {t}
      /\ UNCHANGED <<transfer, written, fd, unlinking, files, clients, sure, stored, crashed>>
  BY DEF Finished
<1>3. ASSUME NEW u \in Transfers \ {t} PROVE Alone(u)
  BY <1>2, <1>3 DEF Alone, transfer, Kept, UploadInv, UploadTypeOK
<1>4. UploadTypeOK'
  BY <1>2 DEF Kept, UploadInv, UploadTypeOK, transfer, files
<1>5. Spoiled(t) => Spoiled(t)'
  BY <1>1 DEF Spoiled
<1>6. Fits(t)'
  <2>1. stream'[t] = "closed" /\ phase'[t] = phase[t] /\ peer'[t] = peer[t]
    BY <1>2 DEF transfer, Kept, UploadInv, UploadTypeOK
  <2>2. Renames(t)'
    <3>1. Whole(tmp, peer[t])
      BY <1>1 DEF Fits, Whole, Ended
    <3>. QED
      BY <1>1, <1>2, <3>1 DEF Renames, Ended, Whole, transfer, files
  <2>3. t \in renaming'
    BY <1>2
  <2>. QED
    BY <1>1, <2>1, <2>2, <2>3 DEF Fits, None
<1>7. UNCHANGED <<files, written, fd, page>>
  BY <1>2
<1>. QED
  BY <1>1, <1>3, <1>4, <1>5, <1>6, <1>7, NoFileTouched
-----------------------------------------------------------------------------
(* The stream's file is created, or truncated: it is the only one with the  *)
(* temporary name, and nothing has been written to it.                      *)
LEMMA OpenedKeeps ==
  ASSUME Kept, NEW t \in Transfers, Opened(t), UNCHANGED page
  PROVE  Kept'
<1>. USE UploadsAssumption
<1>1. /\ ~crashed /\ Fits(t) /\ NotYet(t) /\ phase[t] # "unused"
      /\ stream[t] \in {"opening", "doomed"}
      /\ \A u \in Transfers \ {t} : Rests(u)
  BY AtWork DEF Opened, Kept, AllFit, Fits
<1>. DEFINE f == IF tmp = None THEN t ELSE tmp
<1>2. /\ tmp' = f /\ fd' = [fd EXCEPT ![t] = f]
      /\ contents' = [contents EXCEPT ![f] = <<>>]
      /\ stream' = [stream EXCEPT ![t] = IF @ = "opening" THEN "open" ELSE "closed"]
      /\ UNCHANGED <<transfer, written, pending, target, clients, sure, stored, crashed>>
  BY DEF Opened
<1>3. /\ f \in Transfers /\ f # None /\ f # target /\ f \in Files
      /\ \A g \in PageUploads : page[g].fd # f
  BY <1>1 DEF NotYet, Kept, UploadInv, UploadTypeOK, Apart, Files, Sources, Transfers
<1>. HIDE DEF f
<1>4. contents' \in [Files -> Seq(Sources \union PageUploads \union {Hole})] /\ contents'[f] = <<>>
  BY <1>2, <1>3 DEF Kept, FilesOK
<1>5. \A h \in Files \ {f} : contents'[h] = contents[h]
  BY <1>2 DEF Kept, FilesOK
<1>6. /\ stream'[t] = (IF stream[t] = "opening" THEN "open" ELSE "closed")
      /\ fd'[t] = f /\ phase' = phase
  BY <1>2 DEF transfer, Kept, UploadInv, UploadTypeOK, FilesOK
<1>7. ASSUME NEW u \in Transfers \ {t} PROVE Alone(u) /\ (NotYet(u) => NotYet(u)')
  <2>1. Alone(u)
    BY <1>2, <1>7 DEF Alone, transfer, pending, Kept, UploadInv, UploadTypeOK, FilesOK
  <2>2. NotYet(u) => NotYet(u)'
    BY <1>2, <1>7 DEF NotYet, f
  <2>. QED
    BY <2>1, <2>2
<1>8. UploadTypeOK'
  <2>1. /\ stream' \in [Transfers -> {None, "opening", "open", "doomed", "closed"}]
        /\ tmp' \in Transfers \union {None}
    BY <1>2, <1>3 DEF Kept, UploadInv, UploadTypeOK
  <2>2. ASSUME NEW u \in Transfers PROVE Len(contents'[u]) <= Blocks
    <3>1. u \in Files
      BY DEF Files
    <3>2. CASE u = f
      BY <1>4, <3>2
    <3>3. CASE u # f
      BY <1>5, <3>1, <3>3 DEF Kept, UploadInv, UploadTypeOK
    <3>. QED
      BY <3>2, <3>3
  <2>. QED
    BY <1>2, <2>1, <2>2 DEF Kept, UploadInv, UploadTypeOK, transfer, pending
<1>9. FilesOK' /\ Apart'
  <2>1. fd' \in [Transfers -> Transfers \union {None}] /\ written' = written
    BY <1>2, <1>3 DEF Kept, FilesOK
  <2>. QED
    BY <1>2, <1>3, <1>4, <2>1 DEF Kept, FilesOK, Apart
<1>10. \A u \in Transfers : Spoiled(u) => Spoiled(u)'
  <2>1. Spoiled(t) => Spoiled(t)'
    BY <1>1, <1>2, <1>6 DEF Spoiled, Ended, transfer
  <2>. QED
    BY <1>7, <2>1, SpoiledStays
<1>11. TargetIsWhole'
  <2>1. target # None => target \in Files \ {f}
    BY <1>3 DEF Kept, UploadInv, UploadTypeOK
  <2>. QED
    BY <1>2, <1>5, <1>10, <2>1, TargetStays
<1>12. Fits(t)'
  <2>1. CASE stream[t] = "opening"
    <3>1. t \notin renaming \union unlinking
      BY <1>1, <2>1 DEF Fits
    <3>2. written'[t] = 0 /\ contents'[tmp'] = <<>> /\ tmp' # None /\ fd'[t] = tmp'
      BY <1>1, <1>2, <1>3, <1>4, <1>6 DEF NotYet
    <3>3. contents'[tmp'] = [i \in 1..written'[t] |-> peer'[t]]
      BY <3>2
    <3>4. t \notin renaming' \union unlinking' /\ stream'[t] = "open"
      BY <1>2, <1>6, <2>1, <3>1 DEF pending
    <3>5. phase'[t] # "unused" /\ peer'[t] \in Sources
      BY <1>1, <1>2 DEF Fits, transfer
    <3>. QED
      BY <3>2, <3>3, <3>4, <3>5 DEF Fits, None
  <2>2. CASE stream[t] = "doomed"
    <3>1. stream'[t] = "closed" /\ phase'[t] = phase[t] /\ peer'[t] = peer[t]
          /\ renaming' = renaming
      BY <1>2, <1>6, <2>2 DEF transfer, pending
    <3>2. t \in renaming => Renames(t)'
      <4>. SUFFICES ASSUME t \in renaming PROVE Renames(t)'
        OBVIOUS
      <4>1. Ended(t)
        BY <1>1 DEF Fits, Renames
      <4>2. Spoiled(t)
        BY <1>1, <2>2, <4>1 DEF Spoiled, Ended, NotYet
      <4>. QED
        BY <1>2, <1>10, <4>1, <4>2 DEF Renames, Ended, transfer
    <3>. QED
      BY <1>1, <2>2, <3>1, <3>2 DEF Fits, None
  <2>. QED
    BY <1>1, <2>1, <2>2
<1>13. OneAtATime' /\ AllFit'
  BY <1>1, <1>7, <1>12, OthersStay
<1>. QED
  BY <1>8, <1>9, <1>11, <1>13 DEF Kept, UploadInv

\* The first n blocks of who's file.
AllOf(s, n, who) == s = [i \in 1..n |-> who]

(* A block put behind what is there.                                        *)
LEMMA PutNext ==
  ASSUME NEW n \in Nat, NEW who, NEW s, AllOf(s, n, who)
  PROVE  AllOf(Put(s, n + 1, who), n + 1, who)
<1>1. Len(s) = n /\ \A i \in 1..n : s[i] = who
  BY DEF AllOf
<1>. QED
  BY <1>1 DEF Put, AllOf

(* The stream writes the next block to the file with the temporary name.    *)
LEMMA WrittenKeeps ==
  ASSUME Kept, NEW t \in Transfers, Written(t), UNCHANGED page
  PROVE  Kept'
<1>. USE UploadsAssumption
<1>1. /\ ~crashed /\ Fits(t) /\ phase[t] # "unused" /\ stream[t] = "open"
      /\ written[t] < received[t] /\ \A u \in Transfers \ {t} : Rests(u)
  BY AtWork DEF Written, Kept, AllFit
<1>2. /\ tmp # None /\ fd[t] = tmp /\ tmp \in Files /\ tmp # target
      /\ contents[tmp] = [i \in 1..written[t] |-> peer[t]] /\ peer[t] \in Sources
  BY <1>1 DEF Fits, Kept, UploadInv, UploadTypeOK, Apart, Files
<1>3. /\ written' = [written EXCEPT ![t] = @ + 1]
      /\ contents' = [contents EXCEPT ![tmp] = Put(@, written'[t], peer[t])]
      /\ UNCHANGED <<transfer, stream, fd, pending, tmp, target, clients, sure, stored, crashed>>
  BY <1>2 DEF Written
<1>4. /\ written[t] \in Nat /\ received[t] \in 0..Blocks /\ written[t] + 1 <= Blocks
      /\ written'[t] = written[t] + 1
  BY <1>1, <1>3 DEF Kept, UploadInv, UploadTypeOK, FilesOK
<1>5. contents'[tmp] = [i \in 1..(written[t] + 1) |-> peer[t]]
  <2>1. contents'[tmp] = Put(contents[tmp], written[t] + 1, peer[t])
    BY <1>2, <1>3, <1>4 DEF Kept, FilesOK
  <2>2. AllOf(contents[tmp], written[t], peer[t])
    BY <1>2 DEF AllOf
  <2>3. AllOf(Put(contents[tmp], written[t] + 1, peer[t]), written[t] + 1, peer[t])
    BY <1>4, <2>2, PutNext
  <2>. QED
    BY <2>1, <2>3 DEF AllOf
<1>6. contents'[tmp] \in Seq(Sources \union PageUploads \union {Hole}) /\ Len(contents'[tmp]) <= Blocks
  BY <1>2, <1>4, <1>5
<1>7. \A h \in Files \ {tmp} : contents'[h] = contents[h]
  BY <1>3 DEF Kept, FilesOK
<1>8. contents' \in [Files -> Seq(Sources \union PageUploads \union {Hole})]
  <2>1. DOMAIN contents' = Files /\ contents' = [h \in Files |-> contents'[h]]
    BY <1>3 DEF Kept, FilesOK
  <2>2. \A h \in Files : contents'[h] \in Seq(Sources \union PageUploads \union {Hole})
    BY <1>6, <1>7 DEF Kept, FilesOK
  <2>. QED
    BY <2>1, <2>2
<1>9. ASSUME NEW u \in Transfers \ {t} PROVE Alone(u) /\ (NotYet(u) => NotYet(u)')
  BY <1>3, <1>9 DEF Alone, NotYet, transfer, pending, Kept, FilesOK
<1>10. UploadTypeOK'
  <2>1. ASSUME NEW u \in Transfers PROVE written'[u] <= received[u] /\ Len(contents'[u]) <= Blocks
    <3>1. u \in Files
      BY DEF Files
    <3>2. written'[u] <= received[u]
      BY <1>1, <1>3, <1>4 DEF Kept, UploadInv, UploadTypeOK, FilesOK
    <3>. QED
      BY <1>6, <1>7, <3>1, <3>2 DEF Kept, UploadInv, UploadTypeOK
  <2>. QED
    BY <1>3, <2>1 DEF Kept, UploadInv, UploadTypeOK, transfer, pending
<1>11. FilesOK' /\ Apart'
  <2>1. written' \in [Transfers -> 0..Blocks]
    BY <1>3, <1>4 DEF Kept, FilesOK
  <2>. QED
    BY <1>3, <1>8, <2>1 DEF Kept, FilesOK, Apart
<1>12. \A u \in Transfers : Spoiled(u) => Spoiled(u)'
  BY <1>1, <1>9, SpoiledStays DEF Spoiled
<1>13. TargetIsWhole'
  <2>1. target # None => target \in Files \ {tmp}
    BY <1>2 DEF Kept, UploadInv, UploadTypeOK
  <2>. QED
    BY <1>3, <1>7, <1>12, <2>1, TargetStays
<1>14. Fits(t)'
  <2>1. t \notin renaming \union unlinking
    BY <1>1 DEF Fits
  <2>. QED
    BY <1>1, <1>2, <1>3, <1>4, <1>5, <2>1 DEF Fits, None, transfer, pending
<1>15. OneAtATime' /\ AllFit'
  BY <1>1, <1>9, <1>14, OthersStay
<1>. QED
  BY <1>10, <1>11, <1>13, <1>15 DEF Kept, UploadInv
(* A file that has lost its name does not matter to the others.             *)
LEMMA LosesName ==
  ASSUME Kept, NEW f \in Files \union {None}, contents' = Without(f)
  PROVE  /\ contents' \in [Files -> Seq(Sources \union PageUploads \union {Hole})]
         /\ \A h \in Files : h # f => contents'[h] = contents[h]
         /\ \A t \in Transfers : Len(contents'[t]) <= Blocks
<1>. USE UploadsAssumption
<1>1. CASE f = None
  BY <1>1 DEF Without, Kept, UploadInv, UploadTypeOK, FilesOK
<1>2. CASE f # None
  <2>1. f \in Files /\ contents' = [contents EXCEPT ![f] = <<>>]
    BY <1>2 DEF Without
  <2>2. /\ contents' \in [Files -> Seq(Sources \union PageUploads \union {Hole})]
        /\ \A h \in Files : h # f => contents'[h] = contents[h]
        /\ contents'[f] = <<>>
    BY <2>1 DEF Kept, FilesOK
  <2>3. ASSUME NEW t \in Transfers PROVE Len(contents'[t]) <= Blocks
    <3>1. t \in Files
      BY DEF Files
    <3>2. CASE t = f
      BY <2>2, <3>2
    <3>3. CASE t # f
      BY <2>2, <3>1, <3>3 DEF Kept, UploadInv, UploadTypeOK
    <3>. QED
      BY <3>2, <3>3
  <2>. QED
    BY <2>2, <2>3
<1>. QED
  BY <1>1, <1>2

(* The file gets its real name.                                             *)
LEMMA RenamedKeeps ==
  ASSUME Kept, NEW t \in Transfers, Renamed(t), UNCHANGED page
  PROVE  Kept'
<1>. USE UploadsAssumption
<1>1. /\ ~crashed /\ Fits(t) /\ phase[t] # "unused" /\ t \in renaming
      /\ stream[t] \in {"doomed", "closed"} /\ Renames(t)
      /\ \A u \in Transfers \ {t} : Rests(u)
  BY AtWork DEF Renamed, Kept, AllFit, Fits
<1>2. /\ renaming' = renaming \ {t}
      /\ UNCHANGED <<peer, received, retries, socketOpen, streams, unlinking, clients, crashed>>
      /\ phase' = phase \/ phase' = [phase EXCEPT ![t] = "closed"]
      /\ t \in TunnelTransfers /\ phase[t] = "receiving" => phase' = [phase EXCEPT ![t] = "closed"]
      /\ sure' \subseteq sure \union Sources /\ stored' \subseteq stored \union Sources
  <2>1. sure' \subseteq sure \union Sources
    BY DEF Renamed, Sources
  <2>. QED
    BY <2>1 DEF Renamed
<1>3. \/ tmp # None /\ target' = tmp /\ tmp' = None /\ contents' = Without(target)
      \/ tmp = None /\ UNCHANGED <<target, tmp, contents>>
  BY DEF Renamed
<1>4. tmp \in Transfers \union {None} /\ target \in Files \union {None} /\ Transfers \subseteq Files
      /\ (tmp # None => tmp # target /\ \A g \in PageUploads : page[g].fd # tmp)
  BY DEF Kept, UploadInv, UploadTypeOK, Apart, Files
<1>5. /\ contents' \in [Files -> Seq(Sources \union PageUploads \union {Hole})]
      /\ \A h \in Files : h # target => contents'[h] = contents[h]
      /\ \A u \in Transfers : Len(contents'[u]) <= Blocks
  <2>1. CASE contents' = Without(target)
    BY <1>4, <2>1, LosesName
  <2>2. CASE contents' = contents
    BY <2>2 DEF Kept, UploadInv, UploadTypeOK, FilesOK
  <2>. QED
    BY <1>3, <2>1, <2>2
<1>6. tmp' = None /\ (tmp # None => target' = tmp) /\ (tmp = None => target' = target /\ contents' = contents)
  BY <1>3
<1>7. ASSUME NEW u \in Transfers PROVE NotYet(u) => NotYet(u)'
  BY <1>2, <1>6, <1>7, UploadsAssumption DEF NotYet, streams, Files
<1>8. ASSUME NEW u \in Transfers \ {t} PROVE Alone(u)
  BY <1>2, <1>8 DEF Alone, streams, Kept, UploadInv, UploadTypeOK
<1>9. UploadTypeOK'
  <2>1. phase' \in [Transfers -> {"unused", "receiving", "lingering", "closed"}]
    BY <1>2 DEF Kept, UploadInv, UploadTypeOK
  <2>2. tmp' \in Transfers \union {None} /\ target' \in Files \union {None}
    BY <1>4, <1>6
  <2>3. renaming' \union unlinking' \subseteq Transfers /\ sure' \union stored' \subseteq Sources
    BY <1>2 DEF Kept, UploadInv, UploadTypeOK
  <2>. QED
    BY <1>2, <1>5, <2>1, <2>2, <2>3 DEF Kept, UploadInv, UploadTypeOK, streams
<1>10. FilesOK' /\ Apart'
  BY <1>2, <1>5, <1>6 DEF Kept, FilesOK, Apart, streams
<1>11. \A u \in Transfers : Spoiled(u) => Spoiled(u)'
  BY <1>2 DEF Spoiled, Ended, streams
<1>12. TargetIsWhole'
  <2>1. CASE tmp = None
    BY <1>6, <1>11, <2>1, TargetStays
  <2>2. CASE tmp # None
    <3>1. contents'[target'] = contents[tmp]
      BY <1>4, <1>5, <1>6, <2>2
    <3>2. peer[t] \in Sources
      BY <1>1 DEF Fits
    <3>3. CASE Whole(tmp, peer[t])
      BY <3>1, <3>2, <3>3 DEF TargetIsWhole, Whole
    <3>4. CASE Spoiled(t)
      BY <1>11, <3>4 DEF TargetIsWhole
    <3>. QED
      BY <1>1, <2>2, <3>3, <3>4 DEF Renames
  <2>. QED
    BY <2>1, <2>2
<1>13. Fits(t)'
  <2>1. /\ stream'[t] = stream[t] /\ t \notin renaming'
        /\ phase'[t] # "unused" /\ peer'[t] = peer[t]
        /\ t \in TunnelTransfers => phase'[t] # "receiving"
    BY <1>1, <1>2 DEF streams, Kept, UploadInv, UploadTypeOK
  <2>. QED
    BY <1>1, <1>7, <2>1 DEF Fits, None
<1>14. OneAtATime' /\ AllFit'
  BY <1>1, <1>7, <1>8, <1>13, OthersStay
<1>. QED
  BY <1>9, <1>10, <1>12, <1>14 DEF Kept, UploadInv

(* The temporary name is removed; nobody's stream is open then.             *)
LEMMA UnlinkedKeeps ==
  ASSUME Kept, NEW t \in Transfers, Unlinked(t), UNCHANGED page
  PROVE  Kept'
<1>. USE UploadsAssumption
<1>1. /\ ~crashed /\ Fits(t) /\ phase[t] # "unused" /\ t \in unlinking
      /\ stream[t] \in {"doomed", "closed"}
      /\ \A u \in Transfers \ {t} : Rests(u)
  BY AtWork DEF Unlinked, Kept, AllFit, Fits
<1>2. /\ unlinking' = unlinking \ {t} /\ tmp' = None /\ contents' = Without(tmp)
      /\ UNCHANGED <<transfer, streams, renaming, target, clients, sure, stored, crashed>>
  BY DEF Unlinked
<1>3. tmp \in Files \union {None} /\ target \in Files \union {None}
      /\ (target # None => tmp # target)
  BY DEF Kept, UploadInv, UploadTypeOK, Apart, Files
<1>4. /\ contents' \in [Files -> Seq(Sources \union PageUploads \union {Hole})]
      /\ \A h \in Files : h # tmp => contents'[h] = contents[h]
      /\ \A u \in Transfers : Len(contents'[u]) <= Blocks
  BY <1>2, <1>3, LosesName
<1>5. ASSUME NEW u \in Transfers PROVE NotYet(u) => NotYet(u)'
  BY <1>2, <1>5 DEF NotYet, streams, Files
<1>6. ASSUME NEW u \in Transfers \ {t} PROVE Alone(u)
  BY <1>2, <1>6 DEF Alone, streams, transfer
<1>7. UploadTypeOK'
  BY <1>2, <1>4 DEF Kept, UploadInv, UploadTypeOK, transfer, streams
<1>8. FilesOK' /\ Apart'
  BY <1>2, <1>4 DEF Kept, FilesOK, Apart, streams
<1>9. \A u \in Transfers : Spoiled(u) => Spoiled(u)'
  BY <1>2 DEF Spoiled, Ended, streams, transfer
<1>10. TargetIsWhole'
  BY <1>2, <1>3, <1>4, <1>9, TargetStays
<1>11. Fits(t)'
  <2>1. Renames(t) => Renames(t)'
    BY <1>2, <1>9 DEF Renames, Ended, transfer
  <2>. QED
    BY <1>1, <1>2, <1>5, <2>1 DEF Fits, None, transfer, streams
<1>12. OneAtATime' /\ AllFit'
  BY <1>1, <1>5, <1>6, <1>11, OthersStay
<1>. QED
  BY <1>7, <1>8, <1>10, <1>12 DEF Kept, UploadInv
-----------------------------------------------------------------------------
(* What the page does leaves the transfers and the temporary file alone.    *)
LEMMA PageStep ==
  ASSUME Kept, TargetIsWhole', Apart',
         UNCHANGED <<transfer, streams, pending, tmp, clients, sure, stored, crashed>>,
         target' \in Files \union {None},
         page' \in [PageUploads -> [at : {"unused", "writing", "over"}, fd : Files \union {None}]],
         contents' \in [Files -> Seq(Sources \union PageUploads \union {Hole})],
         \A u \in Transfers : Len(contents'[u]) <= Blocks,
         tmp # None => contents'[tmp] = contents[tmp],
         \A u \in Transfers : NotYet(u) => NotYet(u)'
  PROVE  Kept'
<1>. USE DEF transfer, streams, pending
<1>1. UploadTypeOK'
  BY DEF Kept, UploadInv, UploadTypeOK
<1>2. FilesOK' /\ OneAtATime'
  BY DEF Kept, FilesOK, OneAtATime, Rests, Over
<1>3. ASSUME NEW u \in Transfers PROVE Fits(u)'
  <2>1. Fits(u) /\ (NotYet(u) => NotYet(u)')
    BY DEF Kept, AllFit
  <2>2. Renames(u) => Renames(u)'
    BY DEF Renames, Ended, Spoiled, Whole
  <2>. QED
    BY <2>1, <2>2 DEF Fits
<1>. QED
  BY <1>1, <1>2, <1>3 DEF Kept, UploadInv, AllFit

(* An upload truncates the file at the real name and holds it open.         *)
LEMMA PageOpensKeeps ==
  ASSUME Kept, NEW g \in PageUploads, PageOpens(g)
  PROVE  Kept'
<1>. USE UploadsAssumption
<1>. DEFINE f == IF target = None THEN g ELSE target
<1>1. /\ target' = f /\ contents' = [contents EXCEPT ![f] = <<>>]
      /\ page' = [page EXCEPT ![g] = [at |-> "writing", fd |-> f]]
      /\ UNCHANGED <<transfer, streams, pending, tmp, clients, sure, stored, crashed>>
  BY DEF PageOpens
<1>2. /\ f \in Files /\ (tmp # None => f # tmp) /\ tmp \in Files \union {None}
      /\ \A u \in Transfers : NotYet(u) => f # u
  BY DEF Kept, UploadInv, UploadTypeOK, Apart, Files, NotYet
<1>. HIDE DEF f
<1>3. /\ page' \in [PageUploads -> [at : {"unused", "writing", "over"}, fd : Files \union {None}]]
      /\ page'[g] = [at |-> "writing", fd |-> f]
      /\ \A h \in PageUploads : page'[h].fd = f \/ page'[h] = page[h]
  BY <1>1, <1>2 DEF Kept, UploadInv, UploadTypeOK
<1>4. /\ contents' \in [Files -> Seq(Sources \union PageUploads \union {Hole})]
      /\ \A h \in Files : h # f => contents'[h] = contents[h]
      /\ contents'[f] = <<>>
  BY <1>1, <1>2 DEF Kept, FilesOK
<1>5. ASSUME NEW u \in Transfers PROVE Len(contents'[u]) <= Blocks
  <2>1. u \in Files
    BY DEF Files
  <2>2. CASE u = f
    BY <1>4, <2>2
  <2>3. CASE u # f
    BY <1>4, <2>1, <2>3 DEF Kept, UploadInv, UploadTypeOK
  <2>. QED
    BY <2>2, <2>3
<1>6. ASSUME NEW u \in Transfers, NotYet(u) PROVE NotYet(u)'
  BY <1>1, <1>2, <1>3, <1>6 DEF NotYet, streams
<1>7. TargetIsWhole'
  BY <1>1, <1>3 DEF TargetIsWhole
<1>8. Apart'
  BY <1>1, <1>2, <1>3 DEF Kept, Apart
<1>9. tmp # None => contents'[tmp] = contents[tmp]
  BY <1>2, <1>4
<1>10. target' \in Files \union {None}
  BY <1>1, <1>2
<1>. QED
  BY <1>1, <1>3, <1>4, <1>5, <1>6, <1>7, <1>8, <1>9, <1>10, PageStep

(* An upload ends: the file it holds is whole, whatever its name is by now. *)
LEMMA PageStoredKeeps ==
  ASSUME Kept, NEW g \in PageUploads, PageStored(g)
  PROVE  Kept'
<1>. USE UploadsAssumption
<1>. DEFINE f == page[g].fd
            whole == [k \in 1..Blocks |-> g]
<1>1. /\ contents' = [contents EXCEPT ![f] = whole]
      /\ page' = [page EXCEPT ![g] = PageOver]
      /\ UNCHANGED <<transfer, streams, pending, tmp, target, clients, sure, stored, crashed>>
  BY DEF PageStored
<1>2. /\ f \in Files /\ (tmp # None => f # tmp) /\ tmp \in Files \union {None}
      /\ target \in Files \union {None}
  BY DEF PageStored, Kept, UploadInv, UploadTypeOK, Apart, Files
<1>3. whole \in Seq(Sources \union PageUploads \union {Hole}) /\ Len(whole) = Blocks
  OBVIOUS
<1>. HIDE DEF f, whole
<1>4. /\ page' \in [PageUploads -> [at : {"unused", "writing", "over"}, fd : Files \union {None}]]
      /\ page'[g] = PageOver
      /\ \A h \in PageUploads \ {g} : page'[h] = page[h]
  BY <1>1 DEF Kept, UploadInv, UploadTypeOK, PageOver
<1>5. /\ contents' \in [Files -> Seq(Sources \union PageUploads \union {Hole})]
      /\ \A h \in Files : h # f => contents'[h] = contents[h]
      /\ contents'[f] = whole
  BY <1>1, <1>2, <1>3 DEF Kept, FilesOK
<1>6. ASSUME NEW u \in Transfers PROVE Len(contents'[u]) <= Blocks
  <2>1. u \in Files
    BY DEF Files
  <2>2. CASE u = f
    BY <1>3, <1>5, <2>2
  <2>3. CASE u # f
    BY <1>5, <2>1, <2>3 DEF Kept, UploadInv, UploadTypeOK
  <2>. QED
    BY <2>2, <2>3
<1>7. PageOver.fd = None /\ PageOver.at = "over"
  BY DEF PageOver
<1>8. ASSUME NEW u \in Transfers, NotYet(u) PROVE NotYet(u)'
  <2>1. u # None
    BY DEF Files
  <2>. QED
    BY <1>1, <1>4, <1>7, <1>8, <2>1 DEF NotYet, streams
<1>9. TargetIsWhole'
  <2>. SUFFICES ASSUME target # None PROVE TargetIsWhole'
    BY <1>1 DEF TargetIsWhole
  <2>1. CASE target = f
    BY <1>1, <1>5, <2>1 DEF TargetIsWhole, Whole, whole
  <2>2. CASE target # f
    <3>1. contents'[target] = contents[target]
      BY <1>2, <1>5, <2>2
    <3>2. CASE \E c \in Sources \union PageUploads : Whole(target, c)
      BY <1>1, <3>1, <3>2 DEF TargetIsWhole, Whole
    <3>3. CASE \E t \in Transfers : Spoiled(t)
      BY <1>1, <3>3 DEF TargetIsWhole, Spoiled, Ended, transfer, streams
    <3>4. CASE \E h \in PageUploads : page[h] = [at |-> "writing", fd |-> target]
      <4>1. PICK h \in PageUploads : page[h] = [at |-> "writing", fd |-> target]
        BY <3>4
      <4>2. h # g
        BY <2>2, <4>1 DEF f
      <4>. QED
        BY <1>1, <1>4, <4>1, <4>2 DEF TargetIsWhole
    <3>. QED
      BY <3>2, <3>3, <3>4 DEF Kept, UploadInv, TargetIsWhole
  <2>. QED
    BY <2>1, <2>2
<1>10. Apart'
  BY <1>1, <1>4, <1>7 DEF Kept, Apart
<1>11. tmp # None => contents'[tmp] = contents[tmp]
  BY <1>2, <1>5
<1>12. target' \in Files \union {None}
  BY <1>1, <1>2
<1>. QED
  BY <1>1, <1>4, <1>5, <1>6, <1>8, <1>9, <1>10, <1>11, <1>12, PageStep

(* The real name goes, with whatever file has it.                           *)
LEMMA NameGoes ==
  ASSUME Kept, target' = None, contents' = Without(target),
         UNCHANGED <<transfer, streams, pending, tmp, clients, sure, stored, crashed>>,
         page' \in [PageUploads -> [at : {"unused", "writing", "over"}, fd : Files \union {None}]],
         \A h \in PageUploads : page'[h] = page[h] \/ page'[h] = PageOver
  PROVE  Kept'
<1>. USE UploadsAssumption
<1>1. target \in Files \union {None} /\ tmp \in Files \union {None} /\ (tmp # None => tmp # target)
  BY DEF Kept, UploadInv, UploadTypeOK, Apart, Files
<1>2. /\ contents' \in [Files -> Seq(Sources \union PageUploads \union {Hole})]
      /\ \A h \in Files : h # target => contents'[h] = contents[h]
      /\ \A t \in Transfers : Len(contents'[t]) <= Blocks
  BY <1>1, LosesName
<1>3. PageOver.fd = None /\ PageOver.at = "over"
  BY DEF PageOver
<1>4. ASSUME NEW u \in Transfers, NotYet(u) PROVE NotYet(u)'
  <2>1. u # None
    BY DEF Files
  <2>. QED
    BY <1>3, <1>4, <2>1 DEF NotYet, streams
<1>5. TargetIsWhole'
  BY DEF TargetIsWhole
<1>6. Apart'
  BY <1>3 DEF Kept, Apart
<1>7. tmp # None => contents'[tmp] = contents[tmp]
  BY <1>1, <1>2
<1>. QED
  BY <1>2, <1>4, <1>5, <1>6, <1>7, PageStep

(* Deleting, and an upload that fails, remove the name.                     *)
LEMMA WebKeeps == Kept /\ WebNext => Kept'
<1>. SUFFICES ASSUME Kept, WebNext PROVE Kept'
  OBVIOUS
<1>1. CASE DeleteFile
  BY <1>1, NameGoes DEF DeleteFile, Kept, UploadInv, UploadTypeOK
<1>2. ASSUME NEW g \in PageUploads, PageFails(g) PROVE Kept'
  <2>1. page' \in [PageUploads -> [at : {"unused", "writing", "over"}, fd : Files \union {None}]]
    BY <1>2 DEF PageFails, PageOver, Kept, UploadInv, UploadTypeOK
  <2>2. \A h \in PageUploads : page'[h] = page[h] \/ page'[h] = PageOver
    BY <1>2 DEF PageFails, Kept, UploadInv, UploadTypeOK
  <2>. QED
    BY <1>2, <2>1, <2>2, NameGoes DEF PageFails
<1>. QED
  BY <1>1, <1>2, PageOpensKeeps, PageStoredKeeps DEF WebNext

-----------------------------------------------------------------------------
(* One lemma per action.                                                    *)
LEMMA TransferKeeps == ~Overlap /\ Kept /\ TransferNext /\ UNCHANGED page => Kept'
<1>. SUFFICES ASSUME ~Overlap, Kept, TransferNext, UNCHANGED page PROVE Kept'
  OBVIOUS
<1>1. ASSUME NEW t \in Transfers, NEW c \in Clients, handleRequest(t, c) PROVE Kept'
  BY <1>1, BeginKeeps DEF handleRequest, Sources
<1>2. ASSUME NEW t \in Transfers, receiveTftpUpload(t) PROVE Kept'
  BY <1>2, BeginKeeps DEF receiveTftpUpload, Sources
<1>3. ASSUME NEW t \in Transfers,
             \/ DataReceived(t) \/ onTimeout(t) \/ SocketError(t) \/ ChannelError(t)
             \/ Opened(t) \/ Written(t) \/ Finished(t) \/ DiskError(t) \/ Renamed(t) \/ Unlinked(t)
      PROVE  Kept'
  BY <1>3, DataReceivedKeeps, OnTimeoutKeeps, SocketErrorKeeps, ChannelErrorKeeps, OpenedKeeps,
     WrittenKeeps, FinishedKeeps, DiskErrorKeeps, RenamedKeeps, UnlinkedKeeps
<1>4. ASSUME NEW c \in Clients, ClientHears(c) PROVE Kept'
  BY <1>4, ClientHearsKeeps
<1>. QED
  BY <1>1, <1>2, <1>3, <1>4 DEF TransferNext

(* Without Overlap nothing cut short is ever at the real name: the file     *)
(* there is one client's, or the page's, from the first to the last block,  *)
(* unless an error struck after the last block had come or the page is      *)
(* writing it (tftpServer.js, receiveFile; tunnelClient.js,                 *)
(* receiveTftpUpload; the page's uploads and deletions of webServer.js).    *)
(* For any number of clients, transfers and uploads, any length and number  *)
(* of retries.                                                              *)
THEOREM OnlyWholeFiles == ~Overlap => (UploadSpec => []UploadInv)
<1>. SUFFICES ASSUME ~Overlap PROVE UploadSpec => []UploadInv
  OBVIOUS
<1>1. UploadInit => Kept
  BY UploadStarts
<1>2. Kept /\ [UploadNext]_uploadVars => Kept'
  <2>. SUFFICES ASSUME Kept, [UploadNext]_uploadVars PROVE Kept'
    OBVIOUS
  <2>1. CASE TransferNext /\ UNCHANGED page
    BY <2>1, TransferKeeps
  <2>2. CASE WebNext
    BY <2>2, WebKeeps
  <2>3. CASE UNCHANGED uploadVars
    <3>1. UNCHANGED <<peer, phase, received, streams, pending, files, page, crashed>>
      BY <2>3 DEF uploadVars, transfer
    <3>2. UploadTypeOK'
      BY <2>3 DEF uploadVars, transfer, streams, pending, files, Kept, UploadInv, UploadTypeOK
    <3>. QED
      BY <3>1, <3>2, Quiet
  <2>. QED
    BY <2>1, <2>2, <2>3 DEF UploadNext
<1>3. Kept => UploadInv
  BY DEF Kept
<1>. QED
  BY <1>1, <1>2, <1>3, PTL DEF UploadSpec
=============================================================================
