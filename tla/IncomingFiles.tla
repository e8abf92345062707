--------------------------- MODULE IncomingFiles ---------------------------
(***************************************************************************)
(* How files received outside of network_task reach the disk: the commands *)
(* of a direct (WebRTC) transfer (lib.rs, begin_rtc_file_receive to        *)
(* close_rtc_file), called by PeerTransport (peer-transport.ts), and of a  *)
(* file that came by the world relay (save_relay_file).  Both reserve a    *)
(* part and a final name and promote the one to the other                  *)
(* (incoming_file.rs).                                                     *)
(*                                                                         *)
(* Commands run at once on a thread pool and hold no lock while they work  *)
(* on the disk, which they address by name: what a name stood for when it  *)
(* was taken down may be another file, or none, when it is used.  Every    *)
(* call to the file system is a step and may fail.                         *)
(*                                                                         *)
(* All transfers have the same file name and folder, which is when they    *)
(* meet.  A file is the sequence of its chunks, <<transfer, number>>, with *)
(* number 0 for one that was torn or that changed at its source.  Deleting *)
(* a file does not fail.                                                   *)
(***************************************************************************)
EXTENDS Naturals, Sequences, FiniteSets

CONSTANTS
  Token,      \* direct transfers offered to this node
  Saver,      \* calls of save_relay_file
  Other,      \* another program, or an earlier run of this one that crashed
  Attempts,   \* MAX_RESERVATION_ATTEMPTS (10,000)
  Size,       \* the size of every file, in chunks
  MaxOther    \* bound: files made by the other program

ASSUME IncomingFilesAssumption ==
  /\ Other \notin Token \cup Saver /\ Token \cap Saver = {}
  /\ Attempts \in Nat \ {0} /\ Size \in Nat /\ MaxOther \in Nat

Call == Token \cup Saver

VARIABLES
  names,      \* the directory: path -> file
  disk,       \* file -> its chunks
  transfers,  \* rtc_incoming_files: token -> next_offset
  at,         \* call -> where the command that works for it is
  try,        \* call -> the number of its candidate name
  handle,     \* token -> the file write_rtc_file_chunk has opened
  received,   \* token -> the chunk messages its receiveChain has handled
  closing,    \* token -> where close_rtc_file is: "no", "called", "removing"
  known,      \* PeerTransport.incoming
  open,       \* tokens whose data channel is open
  rejecting,  \* tokens rejectFile still has to close the session of
  rejected,   \* auxiliary: tokens rejected while their acceptance was under way
  abandoned,  \* auxiliary: accepted tokens whose session was closed without their files
  saved       \* auxiliary: call -> the file it reported as saved

files == <<names, disk>>
ui == <<known, open, rejecting, rejected, abandoned>>
vars == <<files, transfers, at, try, handle, received, closing, ui, saved>>

Part(k) == <<"part", k>>
Final(k) == <<"final", k>>
Path == {"part", "final"} \X (0 .. Attempts - 1)

\* The file a call makes at a path
Made(c, p) == <<c, p>>

Whole(c) == [i \in 1 .. Size |-> <<c, i>>]

\* What read_rtc_file_chunk finds at an offset: the file may have changed since pick_rtc_file
Read(t, i) == {<<t, i>>, <<t, 0>>}

Step == {"idle", "reserve", "reserved", "inserting", "begun", "ready", "writing", "opened",
         "verifying", "saving", "committing", "copying", "copied", "promoted", "done"}

File == (Call \cup {Other}) \X Path
Chunk == Call \X (0 .. Size)

TypeOK ==
  /\ DOMAIN names \subseteq Path /\ \A p \in DOMAIN names : names[p] \in DOMAIN disk
  /\ DOMAIN disk \subseteq File /\ \A f \in DOMAIN disk : disk[f] \in Seq(Chunk)
  /\ DOMAIN transfers \subseteq Token /\ \A t \in DOMAIN transfers : transfers[t] \in 0 .. Size
  /\ at \in [Call -> Step]
  /\ try \in [Call -> 0 .. Attempts]
  /\ DOMAIN handle \subseteq Token /\ \A t \in DOMAIN handle : handle[t] \in File
  /\ received \in [Token -> 0 .. Size]
  /\ closing \in [Token -> {"no", "called", "removing"}]
  /\ known \subseteq Token /\ open \subseteq Token
  /\ rejecting \subseteq Token /\ rejected \subseteq Token /\ abandoned \subseteq Token
  /\ DOMAIN saved \subseteq Call /\ \A c \in DOMAIN saved : saved[c] \in DOMAIN disk

Put(f, k, v) == [x \in DOMAIN f \cup {k} |-> IF x = k THEN v ELSE f[x]]
Drop(f, K) == [x \in DOMAIN f \ K |-> f[x]]

Exists(p) == p \in DOMAIN names

\* create_new
Create(p, f) ==
  /\ ~Exists(p)
  /\ names' = Put(names, p, f)
  /\ disk' = Put(disk, f, <<>>)

\* remove_owned_temp, remove_file.  A file without a name is gone for all but who has it open
Unlink(P) ==
  /\ names' = Drop(names, P)
  /\ disk' = [f \in {names[p] : p \in DOMAIN names \ P} |-> disk[f]]

\* What is appended through a handle to a file that lost its name, nobody reads
Write(f, chunk) ==
  disk' = IF f \in DOMAIN disk THEN [disk EXCEPT ![f] = Append(@, chunk)] ELSE disk

PartOf(c) == Part(try[c])
FinalOf(c) == Final(try[c])

Goto(c, step) == at' = [at EXCEPT ![c] = step]

Init ==
  /\ names = [p \in {} |-> Other] /\ disk = [f \in {} |-> <<>>]
  /\ transfers = [t \in {} |-> 0]
  /\ at = [c \in Call |-> "idle"]
  /\ try = [c \in Call |-> 0]
  /\ handle = [t \in {} |-> Other]
  /\ received = [t \in Token |-> 0]
  /\ closing = [t \in Token |-> "no"]
  /\ known = Token /\ open = Token /\ rejecting = {} /\ rejected = {}
  /\ abandoned = {}
  /\ saved = [c \in {} |-> Other]

-----------------------------------------------------------------------------
(***************************************************************************)
(* PeerTransport: what it calls, and what it does when a call answers.     *)
(***************************************************************************)
CallClose(T) ==
  closing' = [t \in Token |-> IF t \in T /\ closing[t] = "no" THEN "called" ELSE closing[t]]

\* The command for c has failed: it is shown, and the transfer is forgotten
Fails(c) ==
  /\ Goto(c, "done")
  /\ known' = IF at[c] \in {"reserve", "reserved"} THEN known ELSE known \ {c}
  /\ UNCHANGED <<try, handle, received, open, rejecting, rejected, abandoned, saved>>

\* acceptFile, up to the call of begin_rtc_file_receive; its button works once
AcceptFile(t) ==
  /\ at[t] = "idle" /\ t \in known /\ t \in open
  /\ t \notin DOMAIN transfers
  /\ Goto(t, "reserve")
  /\ UNCHANGED <<files, transfers, try, handle, received, closing, ui, saved>>

\* Mutant of Accepted: the channel is not looked at again.
AcceptedUnchecked(t) ==
  /\ at[t] = "begun"
  /\ Goto(t, "ready")
  /\ UNCHANGED <<files, transfers, try, handle, received, closing, ui, saved>>

\* acceptFile, when the transfer is in place
Accepted(t) ==
  /\ at[t] = "begun"
  /\ IF t \in open THEN Goto(t, "ready") /\ UNCHANGED closing
                   ELSE Goto(t, "done") /\ CallClose({t})
  /\ UNCHANGED <<files, transfers, try, handle, received, ui, saved>>

\* rejectFile: the session is closed when close_rtc_file has answered
RejectFile(t) ==
  /\ t \in known /\ at[t] \in {"idle", "reserve", "reserved", "inserting", "begun"}
  /\ known' = known \ {t}
  /\ rejecting' = rejecting \cup {t}
  /\ rejected' = IF at[t] = "idle" THEN rejected ELSE rejected \cup {t}
  /\ CallClose({t})
  /\ UNCHANGED <<files, transfers, at, try, handle, received, open, abandoned, saved>>

RejectEnds(t) ==
  /\ t \in rejecting /\ closing[t] = "no"
  /\ rejecting' = rejecting \ {t} /\ open' = open \ {t}
  /\ UNCHANGED <<files, transfers, at, try, handle, received, closing, known, rejected, abandoned,
                 saved>>

\* failSessionFiles when the channel fails or closes, or cancelFile, which the view offers as
\* long as the transfer is known
SessionEnds(t) ==
  /\ t \in open \cup known
  /\ open' = open \ {t} /\ known' = known \ {t}
  /\ CallClose({t} \cap known)
  /\ UNCHANGED <<files, transfers, at, try, handle, received, rejecting, rejected, abandoned,
                 saved>>

Abandon(T) ==
  /\ open' = open \ T
  /\ abandoned' = abandoned \cup {t \in T \cap known : at[t] \in {"ready", "writing", "opened"}}
  /\ UNCHANGED <<files, transfers, at, try, handle, received, closing, rejecting, rejected, saved>>

\* The connection or ICE state is "failed": the session is closed, its files are not, and the
\* onclose of the channel finds the session closed already
ConnectionFails(t) == t \in open /\ Abandon({t}) /\ UNCHANGED known

\* stop(), when the network session of the node ends: every session is closed and every offer
\* forgotten.  The offers nothing was done with yet may come in the next session as well
Stop(T) ==
  /\ \A t \in Token \ T : at[t] = "idle" /\ t \in known \cap open
  /\ Abandon(T)
  /\ known' = known \ T

\* Another program makes a file in the folder
OtherCreates(p) ==
  /\ Cardinality({f \in DOMAIN disk : f[1] = Other}) < MaxOther
  /\ Create(p, Made(Other, p))
  /\ UNCHANGED <<transfers, at, try, handle, received, closing, ui, saved>>

-----------------------------------------------------------------------------
(***************************************************************************)
(* reserve_incoming_file                                                   *)
(***************************************************************************)
SaveRelayFile(c) ==
  /\ c \in Saver /\ at[c] = "idle"
  /\ Goto(c, "reserve")
  /\ UNCHANGED <<files, transfers, try, handle, received, closing, ui, saved>>

ReservePart(c) ==
  /\ at[c] = "reserve" /\ try[c] < Attempts
  /\ Create(PartOf(c), Made(c, PartOf(c)))
  /\ Goto(c, "reserved")
  /\ UNCHANGED <<transfers, try, handle, received, closing, ui, saved>>

PartIsTaken(c) ==
  /\ at[c] = "reserve" /\ try[c] < Attempts /\ Exists(PartOf(c))
  /\ try' = [try EXCEPT ![c] = @ + 1]
  /\ UNCHANGED <<files, transfers, at, handle, received, closing, ui, saved>>

FinalIsFree(c) ==
  /\ at[c] = "reserved" /\ ~Exists(FinalOf(c))
  /\ Goto(c, IF c \in Token THEN "inserting" ELSE "saving")
  /\ UNCHANGED <<files, transfers, try, handle, received, closing, ui, saved>>

FinalIsTaken(c) ==
  /\ at[c] = "reserved" /\ Exists(FinalOf(c))
  /\ Unlink({PartOf(c)})
  /\ try' = [try EXCEPT ![c] = @ + 1]
  /\ Goto(c, "reserve")
  /\ UNCHANGED <<transfers, handle, received, closing, ui, saved>>

\* An error of the file system, or no candidate left.  acceptFile passes it on, and keeps the offer
ReserveFails(c) ==
  /\ \/ at[c] = "reserve" /\ UNCHANGED files
     \/ at[c] = "reserved" /\ Unlink({PartOf(c)})
  /\ Fails(c)
  /\ UNCHANGED <<transfers, closing>>

-----------------------------------------------------------------------------
(***************************************************************************)
(* The rest of begin_rtc_file_receive, and write_rtc_file_chunk            *)
(***************************************************************************)
InsertTransfer(t) ==
  /\ at[t] = "inserting"
  /\ transfers' = Put(transfers, t, 0)
  /\ Goto(t, "begun")
  /\ UNCHANGED <<files, try, handle, received, closing, ui, saved>>

\* The chunk is the next one, and within the size
InOrder(t) ==
  t \in DOMAIN transfers /\ transfers[t] = received[t] /\ received[t] < Size

\* The receiveChain of a session rejects: failSessionFiles
ChainFails(t) ==
  /\ Goto(t, "done")
  /\ known' = known \ {t}
  /\ CallClose({t} \cap known)

\* receiveWire of a file_chunk, up to the unlock
ReceiveChunk(t) ==
  /\ at[t] = "ready" /\ t \in known /\ received[t] < Size
  /\ received' = [received EXCEPT ![t] = @ + 1]
  /\ IF InOrder(t)
     THEN /\ transfers' = [transfers EXCEPT ![t] = @ + 1]
          /\ Goto(t, "writing")
          /\ UNCHANGED <<known, closing>>
     ELSE ChainFails(t) /\ UNCHANGED transfers
  /\ UNCHANGED <<files, try, handle, open, rejecting, rejected, abandoned, saved>>

\* The part is opened by its name, whoever made the file that bears it now
OpenPart(t) ==
  /\ at[t] = "writing" /\ Exists(PartOf(t))
  /\ handle' = Put(handle, t, names[PartOf(t)])
  /\ Goto(t, "opened")
  /\ UNCHANGED <<files, transfers, try, received, closing, ui, saved>>

AppendChunk(t) ==
  /\ at[t] = "opened"
  /\ \E chunk \in Read(t, received[t]) : Write(handle[t], chunk)
  /\ handle' = Drop(handle, {t})
  /\ Goto(t, "ready")
  /\ UNCHANGED <<names, transfers, try, received, closing, ui, saved>>

\* The part could not be opened (it is gone, or the disk failed) or written to its end
WriteFails(t) ==
  /\ \/ at[t] = "writing" /\ UNCHANGED disk
     \/ at[t] = "opened" /\ \/ UNCHANGED disk
                            \/ Write(handle[t], <<t, 0>>)
  /\ transfers' = IF t \in DOMAIN transfers
                  THEN [transfers EXCEPT ![t] = received[t] - 1] ELSE transfers
  /\ handle' = Drop(handle, {t})
  /\ ChainFails(t)
  /\ UNCHANGED <<names, try, received, open, rejecting, rejected, abandoned, saved>>

-----------------------------------------------------------------------------
(***************************************************************************)
(* finish_rtc_file_receive, the writing of save_relay_file, close_rtc_file *)
(***************************************************************************)
\* receiveWire of file_complete.  The transfer is out of reach of close_rtc_file from here on
FinishReceive(t) ==
  /\ at[t] = "ready" /\ t \in known /\ received[t] = Size
  /\ transfers' = Drop(transfers, {t})
  /\ IF t \in DOMAIN transfers /\ transfers[t] = Size
     THEN Goto(t, "verifying") /\ UNCHANGED <<files, known>>
     ELSE /\ Goto(t, "done") /\ known' = known \ {t}
          /\ IF t \in DOMAIN transfers THEN Unlink({PartOf(t)}) ELSE UNCHANGED files
  /\ UNCHANGED <<try, handle, received, closing, open, rejecting, rejected, abandoned, saved>>

\* Mutant of HashMatches: the size is enough.
SizeMatches(c) == Exists(PartOf(c)) /\ Len(disk[names[PartOf(c)]]) >= Size

\* sha256_file of the part is what the offer said
HashMatches(c) == Exists(PartOf(c)) /\ disk[names[PartOf(c)]] = Whole(c)

Verify(t) ==
  /\ at[t] = "verifying" /\ HashMatches(t)
  /\ Goto(t, "committing")
  /\ UNCHANGED <<files, transfers, try, handle, received, closing, ui, saved>>

VerifyFails(t) ==
  /\ at[t] = "verifying"
  /\ Unlink({PartOf(t)})
  /\ Fails(t)
  /\ UNCHANGED <<transfers, closing>>

\* save_relay_file writes what it has already verified, from the start of the file it created
SaveData(c) ==
  /\ at[c] = "saving"
  /\ disk' = [disk EXCEPT ![Made(c, PartOf(c))] = Whole(c) \o SubSeq(@, Size + 1, Len(@))]
  /\ Goto(c, "committing")
  /\ UNCHANGED <<names, transfers, try, handle, received, closing, ui, saved>>

SaveFails(c) ==
  /\ at[c] = "saving"
  /\ Unlink({PartOf(c)})
  /\ Fails(c)
  /\ UNCHANGED <<transfers, closing>>

CloseTakes(t) ==
  /\ closing[t] = "called"
  /\ transfers' = Drop(transfers, {t})
  /\ closing' = [closing EXCEPT ![t] = IF t \in DOMAIN transfers THEN "removing" ELSE "no"]
  /\ UNCHANGED <<files, at, try, handle, received, ui, saved>>

CloseRemoves(t) ==
  /\ closing[t] = "removing"
  /\ Unlink({PartOf(t)})
  /\ closing' = [closing EXCEPT ![t] = "no"]
  /\ UNCHANGED <<transfers, at, try, handle, received, ui, saved>>

-----------------------------------------------------------------------------
(***************************************************************************)
(* commit_reserved_file                                                    *)
(***************************************************************************)
\* Mutant of Link: a rename, which replaces what is there.
Rename(c) ==
  /\ at[c] = "committing"
  /\ names' = Put(names, FinalOf(c), names[PartOf(c)])
  /\ Goto(c, "promoted")
  /\ UNCHANGED <<disk, transfers, try, handle, received, closing, ui, saved>>

\* hard_link gives the file its final name beside that of the part
Link(c) ==
  /\ at[c] = "committing" /\ ~Exists(FinalOf(c))
  /\ names' = Put(names, FinalOf(c), names[PartOf(c)])
  /\ Goto(c, "promoted")
  /\ UNCHANGED <<disk, transfers, try, handle, received, closing, ui, saved>>

LinkUnsupported(c) ==
  /\ at[c] = "committing" /\ ~Exists(FinalOf(c))
  /\ Goto(c, "copying")
  /\ UNCHANGED <<files, transfers, try, handle, received, closing, ui, saved>>

CreateCopy(c) ==
  /\ at[c] = "copying"
  /\ Create(FinalOf(c), Made(c, FinalOf(c)))
  /\ Goto(c, "copied")
  /\ UNCHANGED <<transfers, try, handle, received, closing, ui, saved>>

CopyData(c) ==
  /\ at[c] = "copied"
  /\ disk' = [disk EXCEPT ![names[FinalOf(c)]] = disk[names[PartOf(c)]]]
  /\ Goto(c, "promoted")
  /\ UNCHANGED <<names, transfers, try, handle, received, closing, ui, saved>>

\* The final name was taken meanwhile, or the disk failed.  Only a copy of its own is removed
CommitFails(c) ==
  /\ \/ at[c] = "committing" /\ Exists(FinalOf(c)) /\ Unlink({PartOf(c)})
     \/ at[c] = "copying" /\ Unlink({PartOf(c)})
     \/ at[c] = "copied" /\ Unlink({PartOf(c), FinalOf(c)})
  /\ Fails(c)
  /\ UNCHANGED <<transfers, closing>>

RemovePart(c) ==
  /\ at[c] = "promoted"
  /\ saved' = Put(saved, c, names[FinalOf(c)])
  /\ Unlink({PartOf(c)})
  /\ known' = known \ {c}
  /\ Goto(c, "done")
  /\ UNCHANGED <<transfers, try, handle, received, closing, open, rejecting, rejected, abandoned>>

-----------------------------------------------------------------------------
Reserve(c) ==
  ReservePart(c) \/ PartIsTaken(c) \/ FinalIsFree(c) \/ FinalIsTaken(c) \/ ReserveFails(c)

Receive(t) ==
  InsertTransfer(t) \/ Accepted(t) \/ OpenPart(t) \/ AppendChunk(t) \/ WriteFails(t)

Commit(c) ==
  \/ Link(c) \/ LinkUnsupported(c) \/ CreateCopy(c) \/ CopyData(c)
  \/ CommitFails(c) \/ RemovePart(c)

Close(t) == CloseTakes(t) \/ CloseRemoves(t) \/ RejectEnds(t)

Next ==
  \/ \E c \in Call : Reserve(c) \/ Commit(c)
  \/ \E c \in Saver : SaveRelayFile(c) \/ SaveData(c) \/ SaveFails(c)
  \/ \E t \in Token :
       \/ AcceptFile(t) \/ RejectFile(t) \/ SessionEnds(t) \/ ConnectionFails(t)
       \/ Receive(t) \/ Close(t)
       \/ ReceiveChunk(t) \/ FinishReceive(t) \/ Verify(t) \/ VerifyFails(t)
  \/ \E T \in SUBSET Token : Stop(T)
  \/ \E p \in Path : OtherCreates(p)

Spec == Init /\ [][Next]_vars

-----------------------------------------------------------------------------
(***************************************************************************)
(* No download replaces a file: what bears a final name keeps it, but for  *)
(* a copy that failed, which its own command takes back; and no command    *)
(* writes to a file another program made.  Parts of other runs are not     *)
(* touched either.  (create_new and hard_link in incoming_file.rs against  *)
(* the gap between the check of the final name and the promotion.)         *)
(***************************************************************************)
KeepsName(p) == Exists(p)' /\ names'[p] = names[p]

NothingOverwritten ==
  [][/\ \A p \in DOMAIN names :
          \/ KeepsName(p)
          \/ p[1] = "part" /\ names[p][1] # Other
          \/ \E c \in Call : at[c] = "copied" /\ at'[c] = "done" /\ names[p] = Made(c, p)
     /\ \A p \in DOMAIN names :
          p[1] = "final" /\ names[p][1] = Other => disk'[names[p]] = disk[names[p]]]_vars

(***************************************************************************)
(* A file reported as saved is the whole file that was offered.  One thing *)
(* may follow it: chunks of another transfer that was closed while it was  *)
(* writing one (write_rtc_file_chunk opens by name after its lock, and     *)
(* close_rtc_file frees the name at once for the next transfer).           *)
(***************************************************************************)
SavedIsVerified ==
  \A c \in DOMAIN saved :
    LET data == disk[saved[c]]
    IN  /\ Len(data) >= Size /\ SubSeq(data, 1, Size) = Whole(c)
        /\ \A i \in Size + 1 .. Len(data) :
             LET t == data[i][1] IN t # c /\ t \in Token /\ t \notin DOMAIN saved /\ t \notin known

(***************************************************************************)
(* A part has somebody who will remove or promote it: the command that     *)
(* works on it, the close_rtc_file that took its transfer, or its          *)
(* transfer, which the end of its session closes.  (close_rtc_file may run *)
(* before begin_rtc_file_receive has inserted what it is to close.)  The   *)
(* exceptions are an offer rejected while its acceptance is under way      *)
(* (rejectFile closes the session after close_rtc_file has answered, and   *)
(* acceptFile may find the channel still open in between), and a transfer  *)
(* that was in place when stop() or a failed connection closed its session *)
(* without it.  Even then the part is on record in rtc_incoming_files, so  *)
(* a later close_rtc_file would remove it; and a session that ends so      *)
(* while the acceptance is still under way leaves no part.                 *)
(***************************************************************************)
Works(c) == at[c] \notin {"idle", "ready", "writing", "opened", "begun", "done"}

WillBeClosed(t) ==
  t \in known \cap open \/ at[t] = "begun" \/ closing[t] # "no" \/ t \in rejected \cup abandoned

OnRecord(t) == t \in DOMAIN transfers \/ closing[t] = "removing"

PartsAreOwned ==
  \A p \in DOMAIN names :
    LET c == names[p][1]
    IN  p[1] = "part" /\ c # Other =>
          /\ p = PartOf(c)
          /\ Works(c) \/ (c \in Token /\ OnRecord(c) /\ WillBeClosed(c))

\* The folder and the map of transfers are in order.
FolderIsSound == TypeOK /\ PartsAreOwned
=============================================================================
