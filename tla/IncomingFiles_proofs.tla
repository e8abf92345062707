------------------------- MODULE IncomingFiles_proofs -------------------------
(***************************************************************************)
(* No download replaces a file, no part is left without an owner, and what *)
(* is reported as saved is whole, for any number of transfers, names and   *)
(* chunks.                                                                 *)
(*                                                                         *)
(* Commands address files by name while others free and take the names.    *)
(* What keeps them apart is that a command (or close_rtc_file) removes a   *)
(* name only while it is sure to bear the file the command itself made.    *)
(* The invariant says when that is (Holds), and that a part nobody holds   *)
(* belongs to another program.  A second invariant (Data) says what the    *)
(* files hold: a transfer writes to another one's file only after it was   *)
(* given up (Given), behind everything that was verified.                  *)
(***************************************************************************)
EXTENDS IncomingFiles, TLAPS, SequenceTheorems

\* Where a command has a part, and where a transfer may be in place
Held == {"reserved", "inserting", "verifying", "saving", "committing", "copying", "copied",
         "promoted"}
Begun == {"begun", "ready", "writing", "opened", "done"}

\* Somebody acts for c on the part that c made
Holds(c) == at[c] \in Held \/ (c \in Token /\ (c \in DOMAIN transfers \/ closing[c] = "removing"))

PartIsHeld(c) ==
  Holds(c) => try[c] < Attempts /\ Exists(PartOf(c)) /\ names[PartOf(c)] = Made(c, PartOf(c))

PartHasHolder(p) ==
  p[1] = "part" =>
    /\ names[p][2] = p
    /\ names[p][1] = Other \/ (Holds(names[p][1]) /\ p = PartOf(names[p][1]))

FinalIsOwn(c) ==
  /\ at[c] = "copied" => Exists(FinalOf(c)) /\ names[FinalOf(c)] = Made(c, FinalOf(c))
  /\ at[c] = "promoted" => Exists(FinalOf(c)) /\ names[FinalOf(c)][1] = c
  /\ c \in DOMAIN saved =>
       at[c] = "done" /\ Exists(FinalOf(c)) /\ names[FinalOf(c)] = saved[c] /\ saved[c][1] = c

OthersKeepTheirs == \A p \in DOMAIN names : names[p][1] = Other => names[p] = Made(Other, p)

Folder ==
  /\ \A c \in Call : PartIsHeld(c) /\ FinalIsOwn(c)
  /\ \A p \in DOMAIN names : PartHasHolder(p)
  /\ OthersKeepTheirs

\* A transfer is in place only once the command that makes it is done with it; whoever forgets
\* it calls close_rtc_file, or has its session closed at a moment when that is noted
Order ==
  \A t \in Token :
    /\ t \in DOMAIN transfers => at[t] \in Begun /\ closing[t] # "removing" /\ WillBeClosed(t)
    /\ t \in DOMAIN transfers /\ t \in known \cap open => at[t] # "done"
    /\ t \in rejecting => t \notin known
    /\ closing[t] = "removing" => at[t] \in Begun
    /\ at[t] \in {"reserve", "reserved", "inserting", "begun"} /\ t \in open \ known
         => t \in rejected
    /\ at[t] \in {"writing", "opened"} => received[t] >= 1
    /\ at[t] = "opened" => t \in DOMAIN handle
    /\ t \in DOMAIN handle => handle[t][2][1] = "part"

\* The two halves of TypeOK
Files ==
  /\ DOMAIN names \subseteq Path /\ \A p \in DOMAIN names : names[p] \in DOMAIN disk
  /\ DOMAIN disk \subseteq File /\ \A f \in DOMAIN disk : disk[f] \in Seq(Chunk)
  /\ DOMAIN saved \subseteq Call /\ \A c \in DOMAIN saved : saved[c] \in DOMAIN disk

Locals ==
  /\ DOMAIN transfers \subseteq Token /\ \A t \in DOMAIN transfers : transfers[t] \in 0 .. Size
  /\ at \in [Call -> Step]
  /\ try \in [Call -> 0 .. Attempts]
  /\ DOMAIN handle \subseteq Token /\ \A t \in DOMAIN handle : handle[t] \in File
  /\ received \in [Token -> 0 .. Size]
  /\ closing \in [Token -> {"no", "called", "removing"}]
  /\ known \subseteq Token /\ open \subseteq Token
  /\ rejecting \subseteq Token /\ rejected \subseteq Token /\ abandoned \subseteq Token

Inv == Files /\ Locals /\ Folder /\ Order

\* What NothingOverwritten says of a step
Keeps ==
  /\ \A p \in DOMAIN names :
       \/ KeepsName(p)
       \/ p[1] = "part" /\ names[p][1] # Other
       \/ \E c \in Call : at[c] = "copied" /\ at'[c] = "done" /\ names[p] = Made(c, p)
  /\ \A p \in DOMAIN names :
       p[1] = "final" /\ names[p][1] = Other => disk'[names[p]] = disk[names[p]]

-----------------------------------------------------------------------------
(* Names and files.                                                        *)

LEMMA TypeHalves == TypeOK <=> Files /\ Locals
BY DEF TypeOK, Files, Locals

LEMMA Paths ==
  /\ \A k : Part(k)[1] = "part" /\ Final(k)[1] = "final"
  /\ \A j, k : Part(j) # Final(k) /\ (Part(j) = Part(k) => j = k) /\ (Final(j) = Final(k) => j = k)
  /\ \A c, p : Made(c, p)[1] = c /\ Made(c, p)[2] = p
  /\ \A c \in Call : c # Other
  /\ \A k \in 0 .. Attempts - 1 : Part(k) \in Path /\ Final(k) \in Path
  /\ \A c \in Call \cup {Other}, p \in Path : Made(c, p) \in File
BY IncomingFilesAssumption DEF Part, Final, Made, Path, File, Call

\* Nobody else's part or final name is c's while c holds its part.
LEMMA OneHolder ==
  ASSUME Inv, NEW c \in Call, NEW d \in Call, Holds(c), Holds(d), c # d
  PROVE  PartOf(c) # PartOf(d)
BY Paths DEF Inv, Folder, PartIsHeld

-----------------------------------------------------------------------------
(* How the parts of the invariant follow, by what a step does to names.    *)

\* Names, candidates and results stay.
LEMMA SameFolder ==
  ASSUME Inv, UNCHANGED <<names, try, saved>>,
         \A d \in Call : /\ Holds(d)' <=> Holds(d)
                         /\ at'[d] = "copied" => at[d] = "copied"
                         /\ at'[d] = "promoted" => at[d] \in {"copied", "promoted"}
                         /\ d \in DOMAIN saved => at'[d] = "done"
  PROVE  Folder'
<1>1. ASSUME NEW d \in Call PROVE PartIsHeld(d)' /\ FinalIsOwn(d)'
  BY Paths DEF Inv, Folder, PartIsHeld, FinalIsOwn, Exists, PartOf, FinalOf
<1>2. ASSUME NEW p \in DOMAIN names PROVE PartHasHolder(p)'
  <2> SUFFICES ASSUME p[1] = "part", names[p][1] # Other
               PROVE  Holds(names[p][1])'
    BY DEF Inv, Folder, PartHasHolder, PartOf
  <2>1. names[p] \in File
    BY DEF Inv, Files
  <2>2. names[p][1] \in Call
    BY <2>1 DEF File
  <2> QED
    BY <2>2 DEF Inv, Folder, PartHasHolder
<1>3. OthersKeepTheirs'
  BY DEF Inv, Folder, OthersKeepTheirs
<1> QED
  BY <1>1, <1>2, <1>3 DEF Folder

\* A holder gives its part up, and with it perhaps the copy it was making.
LEMMA UnlinkFolder ==
  ASSUME Inv, NEW c \in Call, Holds(c), Holds(c)' = FALSE, NEW P,
         P = {PartOf(c)} \/ (at[c] = "copied" /\ at'[c] = "done" /\ P = {PartOf(c), FinalOf(c)}),
         Unlink(P), at'[c] \notin {"copied", "promoted"},
         \A d \in Call \ {c} : /\ Holds(d)' <=> Holds(d)
                               /\ at'[d] = at[d] /\ try'[d] = try[d],
         DOMAIN saved' \subseteq DOMAIN saved \cup {c},
         \A d \in DOMAIN saved' \ {c} : saved'[d] = saved[d],
         c \in DOMAIN saved' => /\ at'[c] = "done" /\ try'[c] = try[c]
                               /\ FinalOf(c) \in DOMAIN names \ P
                               /\ names[FinalOf(c)] = saved'[c] /\ saved'[c][1] = c
  PROVE  Folder' /\ Files' /\ Keeps
<1>1. /\ DOMAIN names' = DOMAIN names \ P
      /\ \A p \in DOMAIN names' : names'[p] = names[p]
      /\ DOMAIN disk' = {names[p] : p \in DOMAIN names \ P}
      /\ \A f \in DOMAIN disk' : disk'[f] = disk[f]
  BY DEF Unlink, Drop
<1>2. /\ PartOf(c) \in DOMAIN names /\ names[PartOf(c)] = Made(c, PartOf(c))
      /\ at[c] = "copied" => FinalOf(c) \in DOMAIN names /\ names[FinalOf(c)] = Made(c, FinalOf(c))
  BY DEF Inv, Folder, PartIsHeld, FinalIsOwn, Exists
<1>3. \A p \in P : p \in DOMAIN names /\ names[p] = Made(c, p) /\ names[p][1] = c
  BY <1>2, Paths
<1>4. ASSUME NEW d \in Call, d # c PROVE PartIsHeld(d)' /\ FinalIsOwn(d)'
  <2>1. PartIsHeld(d) /\ FinalIsOwn(d) /\ (at[d] = at'[d]) /\ try[d] = try'[d]
    BY <1>4 DEF Inv, Folder
  <2>2. PartIsHeld(d)'
    <3> SUFFICES ASSUME Holds(d)' PROVE try'[d] < Attempts /\ PartOf(d) \in DOMAIN names'
                                        /\ names'[PartOf(d)] = Made(d, PartOf(d))
      BY <2>1 DEF PartIsHeld, Exists, PartOf
    <3>1. /\ try[d] < Attempts /\ PartOf(d) \in DOMAIN names
          /\ names[PartOf(d)] = Made(d, PartOf(d))
      BY <1>4, <2>1 DEF PartIsHeld, Exists
    <3>2. PartOf(d) \notin P
      BY <1>3, <1>4, <3>1, Paths
    <3> QED
      BY <1>1, <2>1, <3>1, <3>2
  <2>3. FinalIsOwn(d)'
    <3>1. FinalOf(d) \in DOMAIN names /\ names[FinalOf(d)][1] = d
            => FinalOf(d) \in DOMAIN names' /\ names'[FinalOf(d)] = names[FinalOf(d)]
      BY <1>1, <1>3, <1>4
    <3>2. FinalOf(d)' = FinalOf(d)
      BY <2>1 DEF FinalOf
    <3>3. Made(d, FinalOf(d))[1] = d
      BY Paths
    <3> QED
      BY <2>1, <3>1, <3>2, <3>3 DEF FinalIsOwn, Exists
  <2> QED
    BY <2>2, <2>3
<1>5. PartIsHeld(c)' /\ FinalIsOwn(c)'
  BY <1>1 DEF PartIsHeld, FinalIsOwn, FinalOf, Exists
<1>6. ASSUME NEW p \in DOMAIN names' PROVE PartHasHolder(p)'
  <2> SUFFICES ASSUME p[1] = "part", names[p][1] # Other
               PROVE  names[p][2] = p /\ Holds(names[p][1])' /\ p = PartOf(names[p][1])'
    BY <1>1 DEF Inv, Folder, PartHasHolder
  <2>1. names[p][2] = p /\ Holds(names[p][1]) /\ p = PartOf(names[p][1])
    BY <1>1 DEF Inv, Folder, PartHasHolder
  <2>2. names[p][1] \in Call
    BY <1>1 DEF Inv, Files, File
  <2>3. names[p][1] # c
    BY <1>1, <2>1
  <2> QED
    BY <1>1, <2>1, <2>2, <2>3 DEF PartOf, Holds
<1>7. OthersKeepTheirs'
  BY <1>1 DEF Inv, Folder, OthersKeepTheirs
<1>8. Files'
  <2>1. ASSUME NEW d \in DOMAIN saved' PROVE saved'[d] \in DOMAIN disk'
    <3>1. CASE d # c
      <4>1. d \in Call /\ FinalOf(d) \in DOMAIN names
            /\ names[FinalOf(d)] = saved'[d] /\ saved'[d][1] = d
        BY <3>1 DEF Inv, Files, Folder, FinalIsOwn, Exists
      <4>2. FinalOf(d) \notin P
        BY <1>3, <3>1, <4>1
      <4> QED
        BY <1>1, <4>1, <4>2
    <3>2. CASE d = c
      BY <1>1, <3>2
    <3> QED
      BY <3>1, <3>2
  <2> QED
    BY <1>1, <2>1 DEF Inv, Files
<1>9. Keeps
  <2>1. ASSUME NEW p \in DOMAIN names
        PROVE  \/ KeepsName(p)
               \/ p[1] = "part" /\ names[p][1] # Other
               \/ \E d \in Call : at[d] = "copied" /\ at'[d] = "done" /\ names[p] = Made(d, p)
    <3>1. CASE p \notin P
      BY <1>1, <3>1 DEF KeepsName, Exists
    <3>2. CASE p = PartOf(c)
      BY <1>3, <3>2, Paths DEF PartOf
    <3>3. CASE p = FinalOf(c) /\ at[c] = "copied" /\ at'[c] = "done"
      BY <1>2, <3>3
    <3> QED
      BY <3>1, <3>2, <3>3
  <2>2. ASSUME NEW p \in DOMAIN names, names[p][1] = Other PROVE disk'[names[p]] = disk[names[p]]
    <3>1. p \notin P
      BY <1>3, <2>2, Paths
    <3> QED
      BY <1>1, <3>1
  <2> QED
    BY <2>1, <2>2 DEF Keeps
<1> QED
  BY <1>4, <1>5, <1>6, <1>7, <1>8, <1>9 DEF Folder

\* A new file under a name that is free.
LEMMA CreateKeeps ==
  ASSUME Inv, NEW c \in Call \cup {Other}, NEW p \in Path, Create(p, Made(c, p)), saved' = saved
  PROVE  /\ Files' /\ Keeps
         /\ p \notin DOMAIN names /\ DOMAIN names' = DOMAIN names \cup {p}
         /\ names'[p] = Made(c, p)
         /\ \A q \in DOMAIN names : names'[q] = names[q]
<1> DEFINE f == Made(c, p)
<1>1. /\ p \notin DOMAIN names /\ DOMAIN names' = DOMAIN names \cup {p}
      /\ names'[p] = f
      /\ \A q \in DOMAIN names : names'[q] = names[q]
      /\ DOMAIN disk' = DOMAIN disk \cup {f}
      /\ disk'[f] = <<>>
      /\ \A g \in DOMAIN disk \ {f} : disk'[g] = disk[g]
  BY DEF Create, Put, Exists
<1>2. Files'
  <2>1. f \in File /\ <<>> \in Seq(Chunk)
    BY Paths
  <2>2. \A g \in DOMAIN disk' : disk'[g] \in Seq(Chunk)
    BY <1>1, <2>1 DEF Inv, Files
  <2>3. \A q \in DOMAIN names' : names'[q] \in DOMAIN disk'
    BY <1>1 DEF Inv, Files
  <2> QED
    BY <1>1, <2>1, <2>2, <2>3 DEF Inv, Files
<1>3. Keeps
  <2>1. \A q \in DOMAIN names : KeepsName(q)
    BY <1>1 DEF KeepsName, Exists
  <2>2. ASSUME NEW q \in DOMAIN names, names[q][1] = Other PROVE disk'[names[q]] = disk[names[q]]
    <3>1. names[q] = Made(Other, q) /\ names[q] \in DOMAIN disk /\ q # p
      BY <1>1, <2>2 DEF Inv, Folder, OthersKeepTheirs, Files
    <3>2. names[q] # f
      BY <3>1, Paths
    <3> QED
      BY <1>1, <3>1, <3>2
  <2> QED
    BY <2>1, <2>2 DEF Keeps
<1> QED
  BY <1>1, <1>2, <1>3

\* What holds of names that stay, of a command that goes on as before.
LEMMA MoreNames ==
  ASSUME Inv, NEW p, p \notin DOMAIN names, DOMAIN names' = DOMAIN names \cup {p},
         \A q \in DOMAIN names : names'[q] = names[q],
         NEW d \in Call, at'[d] = at[d], try' = try, saved' = saved, Holds(d)' <=> Holds(d)
  PROVE  PartIsHeld(d)' /\ FinalIsOwn(d)'
<1>1. PartIsHeld(d) /\ FinalIsOwn(d) /\ PartOf(d)' = PartOf(d) /\ FinalOf(d)' = FinalOf(d)
  BY DEF Inv, Folder, PartOf, FinalOf
<1>2. PartIsHeld(d)'
  BY <1>1 DEF PartIsHeld, Exists
<1>3. FinalIsOwn(d)'
  BY <1>1 DEF FinalIsOwn, Exists
<1> QED
  BY <1>2, <1>3

LEMMA OldHolders ==
  ASSUME Inv, NEW p, p \notin DOMAIN names, DOMAIN names' = DOMAIN names \cup {p},
         \A q \in DOMAIN names : names'[q] = names[q], try' = try,
         \A d \in Call : Holds(d) => Holds(d)'
  PROVE  \A q \in DOMAIN names : PartHasHolder(q)'
<1> SUFFICES ASSUME NEW q \in DOMAIN names, q[1] = "part", names[q][1] # Other
             PROVE  /\ names[q][2] = q
                    /\ \E d \in Call : d = names'[q][1] /\ Holds(d)' /\ q = PartOf(d)'
  BY DEF PartHasHolder, Inv, Folder, Holds, PartOf
<1>1. names[q][2] = q /\ Holds(names[q][1]) /\ q = PartOf(names[q][1])
  BY DEF Inv, Folder, PartHasHolder
<1>2. names[q][1] \in Call
  BY DEF Inv, Files, File
<1> QED
  BY <1>1, <1>2 DEF PartOf

\* Nothing happens on the disk.
LEMMA QuietFiles == ASSUME Inv, UNCHANGED <<names, disk, saved>> PROVE Files' /\ Keeps
BY DEF Inv, Files, Keeps, KeepsName, Exists

-----------------------------------------------------------------------------
(* One lemma for each action: first those that leave the names alone.      *)

\* A command starts; nothing is in the folder yet.
LEMMA SaveRelayFileInv == ASSUME Inv, NEW c \in Saver, SaveRelayFile(c) PROVE Inv' /\ Keeps
<1> USE DEF SaveRelayFile, Goto, ui, files, Call
<1>1. Folder'
  <2>1. ASSUME NEW d \in Call
        PROVE  /\ Holds(d)' <=> Holds(d)
               /\ at'[d] = "copied" => at[d] = "copied"
               /\ at'[d] = "promoted" => at[d] \in {"copied", "promoted"}
               /\ d \in DOMAIN saved => at'[d] = "done"
    BY IncomingFilesAssumption DEF Inv, Locals, Folder, FinalIsOwn, Holds, Held, Order, Begun
  <2> QED
    BY <2>1, SameFolder
<1>2. Locals'
  BY IncomingFilesAssumption DEF Inv, Locals, Step
<1>3. Order'
  BY IncomingFilesAssumption DEF Inv, Locals, Order, Begun, WillBeClosed
<1>4. Files' /\ Keeps
  BY QuietFiles
<1> QED
  BY <1>1, <1>2, <1>3, <1>4 DEF Inv

\* Only an offer that is still known is accepted, so that its rejection later is noted.
LEMMA AcceptFileInv == ASSUME Inv, NEW c \in Token, AcceptFile(c) PROVE Inv' /\ Keeps
<1> USE DEF AcceptFile, Goto, ui, files, Call
<1>1. Folder'
  <2>1. ASSUME NEW d \in Call
        PROVE  /\ Holds(d)' <=> Holds(d)
               /\ at'[d] = "copied" => at[d] = "copied"
               /\ at'[d] = "promoted" => at[d] \in {"copied", "promoted"}
               /\ d \in DOMAIN saved => at'[d] = "done"
    BY IncomingFilesAssumption DEF Inv, Locals, Folder, FinalIsOwn, Holds, Held, Order, Begun
  <2> QED
    BY <2>1, SameFolder
<1>2. Locals'
  BY IncomingFilesAssumption DEF Inv, Locals, Step
<1>3. Order'
  BY IncomingFilesAssumption DEF Inv, Locals, Order, Begun, WillBeClosed
<1>4. Files' /\ Keeps
  BY QuietFiles
<1> QED
  BY <1>1, <1>2, <1>3, <1>4 DEF Inv

\* The channel is closed: somebody will close the transfer that was just made.
LEMMA AcceptedInv == ASSUME Inv, NEW c \in Token, Accepted(c) PROVE Inv' /\ Keeps
<1> USE DEF Accepted, Goto, CallClose, ui, files, Call
<1>1. Folder'
  <2>1. ASSUME NEW d \in Call
        PROVE  /\ Holds(d)' <=> Holds(d)
               /\ at'[d] = "copied" => at[d] = "copied"
               /\ at'[d] = "promoted" => at[d] \in {"copied", "promoted"}
               /\ d \in DOMAIN saved => at'[d] = "done"
    BY IncomingFilesAssumption DEF Inv, Locals, Folder, FinalIsOwn, Holds, Held, Order, Begun
  <2> QED
    BY <2>1, SameFolder
<1>2. Locals'
  BY IncomingFilesAssumption DEF Inv, Locals, Step
<1>3. Order'
  BY IncomingFilesAssumption DEF Inv, Locals, Order, Begun, WillBeClosed
<1>4. Files' /\ Keeps
  BY QuietFiles
<1> QED
  BY <1>1, <1>2, <1>3, <1>4 DEF Inv

\* The transfer is forgotten by the interface, and to be closed.
LEMMA RejectFileInv == ASSUME Inv, NEW c \in Token, RejectFile(c) PROVE Inv' /\ Keeps
<1> USE DEF RejectFile, CallClose, files, Call
<1>1. Folder'
  <2>1. ASSUME NEW d \in Call
        PROVE  /\ Holds(d)' <=> Holds(d)
               /\ at'[d] = "copied" => at[d] = "copied"
               /\ at'[d] = "promoted" => at[d] \in {"copied", "promoted"}
               /\ d \in DOMAIN saved => at'[d] = "done"
    BY IncomingFilesAssumption DEF Inv, Locals, Folder, FinalIsOwn, Holds, Held, Order, Begun
  <2> QED
    BY <2>1, SameFolder
<1>2. Locals'
  BY IncomingFilesAssumption DEF Inv, Locals, Step
<1>3. Order'
  BY IncomingFilesAssumption DEF Inv, Locals, Order, Begun, WillBeClosed
<1>4. Files' /\ Keeps
  BY QuietFiles
<1> QED
  BY <1>1, <1>2, <1>3, <1>4 DEF Inv

\* Whoever is forgotten with the session is to be closed.
LEMMA SessionEndsInv == ASSUME Inv, NEW c \in Token, SessionEnds(c) PROVE Inv' /\ Keeps
<1> USE DEF SessionEnds, CallClose, files, Call
<1>1. Folder'
  <2>1. ASSUME NEW d \in Call
        PROVE  /\ Holds(d)' <=> Holds(d)
               /\ at'[d] = "copied" => at[d] = "copied"
               /\ at'[d] = "promoted" => at[d] \in {"copied", "promoted"}
               /\ d \in DOMAIN saved => at'[d] = "done"
    BY IncomingFilesAssumption DEF Inv, Locals, Folder, FinalIsOwn, Holds, Held, Order, Begun
  <2> QED
    BY <2>1, SameFolder
<1>2. Locals'
  BY IncomingFilesAssumption DEF Inv, Locals, Step
<1>3. Order'
  BY IncomingFilesAssumption DEF Inv, Locals, Order, Begun, WillBeClosed
<1>4. Files' /\ Keeps
  BY QuietFiles
<1> QED
  BY <1>1, <1>2, <1>3, <1>4 DEF Inv

\* A transfer in place is on record as given up.
LEMMA ConnectionFailsInv == ASSUME Inv, NEW c \in Token, ConnectionFails(c) PROVE Inv' /\ Keeps
<1> USE DEF ConnectionFails, Abandon, files, Call
<1>1. Folder'
  <2>1. ASSUME NEW d \in Call
        PROVE  /\ Holds(d)' <=> Holds(d)
               /\ at'[d] = "copied" => at[d] = "copied"
               /\ at'[d] = "promoted" => at[d] \in {"copied", "promoted"}
               /\ d \in DOMAIN saved => at'[d] = "done"
    BY IncomingFilesAssumption DEF Inv, Locals, Folder, FinalIsOwn, Holds, Held, Order, Begun
  <2> QED
    BY <2>1, SameFolder
<1>2. Locals'
  BY IncomingFilesAssumption DEF Inv, Locals, Step
<1>3. Order'
  BY IncomingFilesAssumption DEF Inv, Locals, Order, Begun, WillBeClosed
<1>4. Files' /\ Keeps
  BY QuietFiles
<1> QED
  BY <1>1, <1>2, <1>3, <1>4 DEF Inv

\* The same for all sessions at once.
LEMMA StopInv == ASSUME Inv, NEW T \in SUBSET Token, Stop(T) PROVE Inv' /\ Keeps
<1> USE DEF Stop, Abandon, files, Call
<1>1. Folder'
  <2>1. ASSUME NEW d \in Call
        PROVE  /\ Holds(d)' <=> Holds(d)
               /\ at'[d] = "copied" => at[d] = "copied"
               /\ at'[d] = "promoted" => at[d] \in {"copied", "promoted"}
               /\ d \in DOMAIN saved => at'[d] = "done"
    BY IncomingFilesAssumption DEF Inv, Locals, Folder, FinalIsOwn, Holds, Held, Order, Begun
  <2> QED
    BY <2>1, SameFolder
<1>2. Locals'
  BY IncomingFilesAssumption DEF Inv, Locals, Step
<1>3. Order'
  BY IncomingFilesAssumption DEF Inv, Locals, Order, Begun, WillBeClosed
<1>4. Files' /\ Keeps
  BY QuietFiles
<1> QED
  BY <1>1, <1>2, <1>3, <1>4 DEF Inv

\* The part is held from its creation on.
LEMMA FinalIsFreeInv == ASSUME Inv, NEW c \in Call, FinalIsFree(c) PROVE Inv' /\ Keeps
<1> USE DEF FinalIsFree, Goto, ui, files, Call
<1>1. Folder'
  <2>1. ASSUME NEW d \in Call
        PROVE  /\ Holds(d)' <=> Holds(d)
               /\ at'[d] = "copied" => at[d] = "copied"
               /\ at'[d] = "promoted" => at[d] \in {"copied", "promoted"}
               /\ d \in DOMAIN saved => at'[d] = "done"
    BY IncomingFilesAssumption DEF Inv, Locals, Folder, FinalIsOwn, Holds, Held, Order, Begun
  <2> QED
    BY <2>1, SameFolder
<1>2. Locals'
  BY IncomingFilesAssumption DEF Inv, Locals, Step
<1>3. Order'
  BY IncomingFilesAssumption DEF Inv, Locals, Order, Begun, WillBeClosed
<1>4. Files' /\ Keeps
  BY QuietFiles
<1> QED
  BY <1>1, <1>2, <1>3, <1>4 DEF Inv

\* From here on the transfer holds the part.
LEMMA InsertTransferInv == ASSUME Inv, NEW c \in Token, InsertTransfer(c) PROVE Inv' /\ Keeps
<1> USE DEF InsertTransfer, Goto, Put, ui, files, Call
<1>1. Folder'
  <2>1. ASSUME NEW d \in Call
        PROVE  /\ Holds(d)' <=> Holds(d)
               /\ at'[d] = "copied" => at[d] = "copied"
               /\ at'[d] = "promoted" => at[d] \in {"copied", "promoted"}
               /\ d \in DOMAIN saved => at'[d] = "done"
    BY IncomingFilesAssumption DEF Inv, Locals, Folder, FinalIsOwn, Holds, Held, Order, Begun
  <2> QED
    BY <2>1, SameFolder
<1>2. Locals'
  BY IncomingFilesAssumption DEF Inv, Locals, Step
<1>3. Order'
  BY IncomingFilesAssumption DEF Inv, Locals, Order, Begun, WillBeClosed
<1>4. Files' /\ Keeps
  BY QuietFiles
<1> QED
  BY <1>1, <1>2, <1>3, <1>4 DEF Inv

\* What bears a part's name was made under it, by whomever.
LEMMA OpenPartInv == ASSUME Inv, NEW c \in Token, OpenPart(c) PROVE Inv' /\ Keeps
<1> USE DEF OpenPart, Goto, Put, ui, files, Call
<1>1. Folder'
  <2>1. ASSUME NEW d \in Call
        PROVE  /\ Holds(d)' <=> Holds(d)
               /\ at'[d] = "copied" => at[d] = "copied"
               /\ at'[d] = "promoted" => at[d] \in {"copied", "promoted"}
               /\ d \in DOMAIN saved => at'[d] = "done"
    BY IncomingFilesAssumption DEF Inv, Locals, Folder, FinalIsOwn, Holds, Held, Order, Begun
  <2> QED
    BY <2>1, SameFolder
<1>2. Locals'
  <2>1. names[PartOf(c)] \in File
    BY DEF Inv, Files, Exists
  <2> QED
    BY <2>1 DEF Inv, Locals, Step
<1>3. Order'
  <2>1. names[PartOf(c)][2][1] = "part"
    BY Paths DEF Inv, Folder, PartHasHolder, Exists, PartOf
  <2> QED
    BY <2>1 DEF Inv, Locals, Order, Begun, WillBeClosed
<1>4. Files' /\ Keeps
  BY QuietFiles
<1> QED
  BY <1>1, <1>2, <1>3, <1>4 DEF Inv

\* A chunk out of order ends the session; the part stays with the transfer.
LEMMA ReceiveChunkInv == ASSUME Inv, NEW c \in Token, ReceiveChunk(c) PROVE Inv' /\ Keeps
<1> USE DEF ReceiveChunk, Goto, CallClose, ChainFails, files, Call
<1>1. Folder'
  <2>1. ASSUME NEW d \in Call
        PROVE  /\ Holds(d)' <=> Holds(d)
               /\ at'[d] = "copied" => at[d] = "copied"
               /\ at'[d] = "promoted" => at[d] \in {"copied", "promoted"}
               /\ d \in DOMAIN saved => at'[d] = "done"
    BY IncomingFilesAssumption DEF Inv, Locals, Folder, FinalIsOwn, Holds, Held, Order, Begun
  <2> QED
    BY <2>1, SameFolder
<1>2. Locals'
  <2>1. /\ received \in [Token -> 0 .. Size] /\ received[c] < Size
        /\ received' = [received EXCEPT ![c] = @ + 1]
    BY DEF Inv, Locals
  <2>2. received' \in [Token -> 0 .. Size]
    BY <2>1, IncomingFilesAssumption
  <2>3. /\ DOMAIN transfers' \subseteq Token
        /\ \A t \in DOMAIN transfers' : transfers'[t] \in 0 .. Size
    BY <2>1, IncomingFilesAssumption DEF Inv, Locals, InOrder
  <2> QED
    BY <2>2, <2>3 DEF Inv, Locals, Step
<1>3. Order'
  <2>1. received'[c] >= 1 /\ \A t \in Token \ {c} : received'[t] = received[t]
    BY IncomingFilesAssumption DEF Inv, Locals
  <2> QED
    BY <2>1 DEF Inv, Locals, Order, Begun, WillBeClosed
<1>4. Files' /\ Keeps
  BY QuietFiles
<1> QED
  BY <1>1, <1>2, <1>3, <1>4 DEF Inv

\* The part passes from the transfer to the call of close_rtc_file.
LEMMA CloseTakesInv == ASSUME Inv, NEW c \in Token, CloseTakes(c) PROVE Inv' /\ Keeps
<1> USE DEF CloseTakes, Drop, ui, files, Call
<1>1. Folder'
  <2>1. ASSUME NEW d \in Call
        PROVE  /\ Holds(d)' <=> Holds(d)
               /\ at'[d] = "copied" => at[d] = "copied"
               /\ at'[d] = "promoted" => at[d] \in {"copied", "promoted"}
               /\ d \in DOMAIN saved => at'[d] = "done"
    BY IncomingFilesAssumption DEF Inv, Locals, Folder, FinalIsOwn, Holds, Held, Order, Begun
  <2> QED
    BY <2>1, SameFolder
<1>2. Locals'
  BY IncomingFilesAssumption DEF Inv, Locals, Step
<1>3. Order'
  BY IncomingFilesAssumption DEF Inv, Locals, Order, Begun, WillBeClosed
<1>4. Files' /\ Keeps
  BY QuietFiles
<1> QED
  BY <1>1, <1>2, <1>3, <1>4 DEF Inv

\* The session of a rejected offer closes.
LEMMA RejectEndsInv == ASSUME Inv, NEW c \in Token, RejectEnds(c) PROVE Inv' /\ Keeps
<1> USE DEF RejectEnds, files, Call
<1>1. Folder'
  <2>1. ASSUME NEW d \in Call
        PROVE  /\ Holds(d)' <=> Holds(d)
               /\ at'[d] = "copied" => at[d] = "copied"
               /\ at'[d] = "promoted" => at[d] \in {"copied", "promoted"}
               /\ d \in DOMAIN saved => at'[d] = "done"
    BY IncomingFilesAssumption DEF Inv, Locals, Folder, FinalIsOwn, Holds, Held, Order, Begun
  <2> QED
    BY <2>1, SameFolder
<1>2. Locals'
  BY IncomingFilesAssumption DEF Inv, Locals, Step
<1>3. Order'
  BY IncomingFilesAssumption DEF Inv, Locals, Order, Begun, WillBeClosed
<1>4. Files' /\ Keeps
  BY QuietFiles
<1> QED
  BY <1>1, <1>2, <1>3, <1>4 DEF Inv

\* The part is with finish_rtc_file_receive.
LEMMA VerifyInv == ASSUME Inv, NEW c \in Token, Verify(c) PROVE Inv' /\ Keeps
<1> USE DEF Verify, Goto, ui, files, Call
<1>1. Folder'
  <2>1. ASSUME NEW d \in Call
        PROVE  /\ Holds(d)' <=> Holds(d)
               /\ at'[d] = "copied" => at[d] = "copied"
               /\ at'[d] = "promoted" => at[d] \in {"copied", "promoted"}
               /\ d \in DOMAIN saved => at'[d] = "done"
    BY IncomingFilesAssumption DEF Inv, Locals, Folder, FinalIsOwn, Holds, Held, Order, Begun
  <2> QED
    BY <2>1, SameFolder
<1>2. Locals'
  BY IncomingFilesAssumption DEF Inv, Locals, Step
<1>3. Order'
  BY IncomingFilesAssumption DEF Inv, Locals, Order, Begun, WillBeClosed
<1>4. Files' /\ Keeps
  BY QuietFiles
<1> QED
  BY <1>1, <1>2, <1>3, <1>4 DEF Inv

\* The part is still held while it is copied.
LEMMA LinkUnsupportedInv == ASSUME Inv, NEW c \in Call, LinkUnsupported(c) PROVE Inv' /\ Keeps
<1> USE DEF LinkUnsupported, Goto, ui, files, Call
<1>1. Folder'
  <2>1. ASSUME NEW d \in Call
        PROVE  /\ Holds(d)' <=> Holds(d)
               /\ at'[d] = "copied" => at[d] = "copied"
               /\ at'[d] = "promoted" => at[d] \in {"copied", "promoted"}
               /\ d \in DOMAIN saved => at'[d] = "done"
    BY IncomingFilesAssumption DEF Inv, Locals, Folder, FinalIsOwn, Holds, Held, Order, Begun
  <2> QED
    BY <2>1, SameFolder
<1>2. Locals'
  BY IncomingFilesAssumption DEF Inv, Locals, Step
<1>3. Order'
  BY IncomingFilesAssumption DEF Inv, Locals, Order, Begun, WillBeClosed
<1>4. Files' /\ Keeps
  BY QuietFiles
<1> QED
  BY <1>1, <1>2, <1>3, <1>4 DEF Inv

\* A file is written that is not one another program has under a final name.
LEMMA WriteFiles ==
  ASSUME Inv, UNCHANGED <<names, saved>>, NEW f, f[1] # Other \/ f[2][1] = "part",
         DOMAIN disk' = DOMAIN disk, \A g \in DOMAIN disk \ {f} : disk'[g] = disk[g],
         f \in DOMAIN disk => disk'[f] \in Seq(Chunk)
  PROVE  Files' /\ Keeps
<1>1. Files'
  BY DEF Inv, Files
<1>2. ASSUME NEW p \in DOMAIN names, p[1] = "final", names[p][1] = Other
      PROVE  disk'[names[p]] = disk[names[p]]
  <2>1. names[p] = Made(Other, p) /\ names[p] \in DOMAIN disk
    BY <1>2 DEF Inv, Folder, OthersKeepTheirs, Files
  <2>2. names[p][2][1] = "final"
    BY <1>2, <2>1, Paths
  <2>3. names[p] # f
    BY <1>2, <2>2
  <2> QED
    BY <2>1, <2>3
<1> QED
  BY <1>1, <1>2 DEF Keeps, KeepsName, Exists

\* Chunks go to parts only, so never to a final file of another program.
LEMMA AppendChunkInv == ASSUME Inv, NEW c \in Token, AppendChunk(c) PROVE Inv' /\ Keeps
<1> USE DEF AppendChunk, Goto, Drop, ui, Call
<1>1. Folder'
  <2>1. ASSUME NEW d \in Call
        PROVE  /\ Holds(d)' <=> Holds(d)
               /\ at'[d] = "copied" => at[d] = "copied"
               /\ at'[d] = "promoted" => at[d] \in {"copied", "promoted"}
               /\ d \in DOMAIN saved => at'[d] = "done"
    BY IncomingFilesAssumption DEF Inv, Locals, Folder, FinalIsOwn, Holds, Held, Order, Begun
  <2> QED
    BY <2>1, SameFolder
<1>2. Locals'
  BY IncomingFilesAssumption DEF Inv, Locals, Step
<1>3. Order'
  BY IncomingFilesAssumption DEF Inv, Locals, Order, Begun, WillBeClosed
<1>4. Files' /\ Keeps
  <2>1. c \in DOMAIN handle /\ handle[c][2][1] = "part"
    BY DEF Inv, Order
  <2>2. PICK chunk \in Read(c, received[c]) : Write(handle[c], chunk)
    OBVIOUS
  <2>3. chunk \in Chunk
    BY IncomingFilesAssumption DEF Read, Chunk, Inv, Locals
  <2>4. /\ DOMAIN disk' = DOMAIN disk
        /\ \A g \in DOMAIN disk \ {handle[c]} : disk'[g] = disk[g]
        /\ handle[c] \in DOMAIN disk => disk'[handle[c]] \in Seq(Chunk)
    BY <2>2, <2>3 DEF Write, Inv, Files
  <2> QED
    BY <2>1, <2>4, WriteFiles
<1> QED
  BY <1>1, <1>2, <1>3, <1>4 DEF Inv

\* A torn chunk, too, goes to a part only.
LEMMA WriteFailsInv == ASSUME Inv, NEW c \in Token, WriteFails(c) PROVE Inv' /\ Keeps
<1> USE DEF WriteFails, Goto, CallClose, ChainFails, Drop, Call
<1>1. Folder'
  <2>1. ASSUME NEW d \in Call
        PROVE  /\ Holds(d)' <=> Holds(d)
               /\ at'[d] = "copied" => at[d] = "copied"
               /\ at'[d] = "promoted" => at[d] \in {"copied", "promoted"}
               /\ d \in DOMAIN saved => at'[d] = "done"
    BY IncomingFilesAssumption DEF Inv, Locals, Folder, FinalIsOwn, Holds, Held, Order, Begun
  <2> QED
    BY <2>1, SameFolder
<1>2. Locals'
  <2>1. received[c] >= 1 /\ received[c] \in 0 .. Size
    BY DEF Inv, Locals, Order
  <2>2. received[c] - 1 \in 0 .. Size
    BY <2>1, IncomingFilesAssumption
  <2> QED
    BY <2>2 DEF Inv, Locals, Step
<1>3. Order'
  BY IncomingFilesAssumption DEF Inv, Locals, Order, Begun, WillBeClosed
<1>4. Files' /\ Keeps
  <2>1. CASE UNCHANGED disk
    BY <2>1, QuietFiles
  <2>2. CASE at[c] = "opened" /\ Write(handle[c], <<c, 0>>)
    <3>1. c \in DOMAIN handle /\ handle[c][2][1] = "part"
      BY <2>2 DEF Inv, Order
    <3>2. <<c, 0>> \in Chunk
      BY IncomingFilesAssumption DEF Chunk
    <3>3. /\ DOMAIN disk' = DOMAIN disk
          /\ \A g \in DOMAIN disk \ {handle[c]} : disk'[g] = disk[g]
          /\ handle[c] \in DOMAIN disk => disk'[handle[c]] \in Seq(Chunk)
      BY <2>2, <3>2 DEF Write, Inv, Files
    <3> QED
      BY <3>1, <3>3, WriteFiles
  <2> QED
    BY <2>1, <2>2
<1> QED
  BY <1>1, <1>2, <1>3, <1>4 DEF Inv

\* The relay's file is written through the handle of what the command made.
LEMMA SaveDataInv == ASSUME Inv, NEW c \in Saver, SaveData(c) PROVE Inv' /\ Keeps
<1> USE DEF SaveData, Goto, ui, Call
<1>1. Folder'
  <2>1. ASSUME NEW d \in Call
        PROVE  /\ Holds(d)' <=> Holds(d)
               /\ at'[d] = "copied" => at[d] = "copied"
               /\ at'[d] = "promoted" => at[d] \in {"copied", "promoted"}
               /\ d \in DOMAIN saved => at'[d] = "done"
    BY IncomingFilesAssumption DEF Inv, Locals, Folder, FinalIsOwn, Holds, Held, Order, Begun
  <2> QED
    BY <2>1, SameFolder
<1>2. Locals'
  BY IncomingFilesAssumption DEF Inv, Locals, Step
<1>3. Order'
  BY IncomingFilesAssumption DEF Inv, Locals, Order, Begun, WillBeClosed
<1>4. Files' /\ Keeps
  <2> DEFINE f == Made(c, PartOf(c))
             data == disk[f]
  <2>1. PartOf(c) \in DOMAIN names /\ names[PartOf(c)] = f
    BY DEF Inv, Folder, PartIsHeld, Holds, Held, Exists
  <2>2. f[1] # Other
    BY Paths
  <2>3. f \in DOMAIN disk /\ data \in Seq(Chunk)
    BY <2>1 DEF Inv, Files
  <2>4. Whole(c) \in Seq(Chunk)
    <3>1. \A i \in 1 .. Size : <<c, i>> \in Chunk
      BY IncomingFilesAssumption DEF Chunk
    <3> QED
      BY <3>1, IncomingFilesAssumption DEF Whole
  <2>5. SubSeq(data, Size + 1, Len(data)) \in Seq(Chunk)
    <3>1. Len(data) \in Nat /\ \A i \in Size + 1 .. Len(data) : data[i] \in Chunk
      BY <2>3, IncomingFilesAssumption
    <3> QED
      BY <3>1, SubSeqProperties, IncomingFilesAssumption
  <2>6. Whole(c) \o SubSeq(data, Size + 1, Len(data)) \in Seq(Chunk)
    BY <2>4, <2>5, ConcatProperties
  <2>7. disk' = [disk EXCEPT ![f] = Whole(c) \o SubSeq(data, Size + 1, Len(data))]
    OBVIOUS
  <2> HIDE DEF f, data
  <2> QED
    BY ZenonT(60), <2>2, <2>3, <2>6, <2>7, WriteFiles
<1> QED
  BY <1>1, <1>2, <1>3, <1>4 DEF Inv

\* The copy is written to the file the command made under the final name.
LEMMA CopyDataInv == ASSUME Inv, NEW c \in Call, CopyData(c) PROVE Inv' /\ Keeps
<1> USE DEF CopyData, Goto, ui, Call
<1>1. Folder'
  <2>1. ASSUME NEW d \in Call
        PROVE  /\ Holds(d)' <=> Holds(d)
               /\ at'[d] = "copied" => at[d] = "copied"
               /\ at'[d] = "promoted" => at[d] \in {"copied", "promoted"}
               /\ d \in DOMAIN saved => at'[d] = "done"
    BY IncomingFilesAssumption DEF Inv, Locals, Folder, FinalIsOwn, Holds, Held, Order, Begun
  <2> QED
    BY <2>1, SameFolder
<1>2. Locals'
  BY IncomingFilesAssumption DEF Inv, Locals, Step
<1>3. Order'
  BY IncomingFilesAssumption DEF Inv, Locals, Order, Begun, WillBeClosed
<1>4. Files' /\ Keeps
  <2> DEFINE f == names[FinalOf(c)]
  <2>1. FinalOf(c) \in DOMAIN names /\ f = Made(c, FinalOf(c))
    BY DEF Inv, Folder, FinalIsOwn, Exists
  <2>2. f[1] # Other
    BY <2>1, Paths
  <2>3. PartOf(c) \in DOMAIN names
    BY DEF Inv, Folder, PartIsHeld, Holds, Held, Exists
  <2>4. disk[names[PartOf(c)]] \in Seq(Chunk)
    BY <2>3 DEF Inv, Files
  <2>5. disk' = [disk EXCEPT ![f] = disk[names[PartOf(c)]]]
    OBVIOUS
  <2> HIDE DEF f
  <2> QED
    BY <2>2, <2>4, <2>5, WriteFiles
<1> QED
  BY <1>1, <1>2, <1>3, <1>4 DEF Inv

-----------------------------------------------------------------------------
(* Actions that take names away.                                           *)

\* The part is given up for the next candidate.
LEMMA FinalIsTakenInv == ASSUME Inv, NEW c \in Call, FinalIsTaken(c) PROVE Inv' /\ Keeps
<1> USE DEF FinalIsTaken, Goto, ui, Call
<1>1. Folder' /\ Files' /\ Keeps
  <2>1. Holds(c) /\ Holds(c)' = FALSE
    BY IncomingFilesAssumption DEF Inv, Locals, Holds, Held, Order, Begun
  <2>2. \A d \in Call \ {c} : /\ Holds(d)' <=> Holds(d)
                              /\ at'[d] = at[d] /\ try'[d] = try[d]
    BY DEF Inv, Locals, Holds
  <2>3. /\ DOMAIN saved' \subseteq DOMAIN saved \cup {c}
        /\ \A d \in DOMAIN saved' \ {c} : saved'[d] = saved[d]
        /\ c \in DOMAIN saved' => /\ at'[c] = "done" /\ try'[c] = try[c]
                                 /\ FinalOf(c) \in DOMAIN names \ {PartOf(c)}
                                 /\ names[FinalOf(c)] = saved'[c] /\ saved'[c][1] = c
    BY Paths DEF Inv, Locals, Folder, FinalIsOwn, Exists, PartOf, FinalOf
  <2>4. at'[c] \notin {"copied", "promoted"}
    BY DEF Inv, Locals, Order, Begun
  <2> HIDE DEF FinalIsTaken, Goto, ui
  <2> QED
    BY <2>1, <2>2, <2>3, <2>4, UnlinkFolder DEF FinalIsTaken, Call
<1>2. Locals'
  BY IncomingFilesAssumption DEF Inv, Locals, Step, Folder, PartIsHeld, Holds, Held
<1>3. Order'
  BY IncomingFilesAssumption DEF Inv, Locals, Order, Begun, WillBeClosed
<1> QED
  BY <1>1, <1>2, <1>3 DEF Inv

\* The part of a file that is not the one offered is removed.
LEMMA VerifyFailsInv == ASSUME Inv, NEW c \in Token, VerifyFails(c) PROVE Inv' /\ Keeps
<1> USE DEF VerifyFails, Fails, Goto, Call
<1>1. Folder' /\ Files' /\ Keeps
  <2>1. Holds(c) /\ Holds(c)' = FALSE
    BY IncomingFilesAssumption DEF Inv, Locals, Holds, Held, Order, Begun
  <2>2. \A d \in Call \ {c} : /\ Holds(d)' <=> Holds(d)
                              /\ at'[d] = at[d] /\ try'[d] = try[d]
    BY DEF Inv, Locals, Holds
  <2>3. /\ DOMAIN saved' \subseteq DOMAIN saved \cup {c}
        /\ \A d \in DOMAIN saved' \ {c} : saved'[d] = saved[d]
        /\ c \in DOMAIN saved' => /\ at'[c] = "done" /\ try'[c] = try[c]
                                 /\ FinalOf(c) \in DOMAIN names \ {PartOf(c)}
                                 /\ names[FinalOf(c)] = saved'[c] /\ saved'[c][1] = c
    BY Paths DEF Inv, Locals, Folder, FinalIsOwn, Exists, PartOf, FinalOf
  <2>4. at'[c] \notin {"copied", "promoted"}
    BY DEF Inv, Locals, Order, Begun
  <2> HIDE DEF VerifyFails, Fails, Goto
  <2> QED
    BY <2>1, <2>2, <2>3, <2>4, UnlinkFolder DEF VerifyFails, Call
<1>2. Locals'
  BY IncomingFilesAssumption DEF Inv, Locals, Step
<1>3. Order'
  BY IncomingFilesAssumption DEF Inv, Locals, Order, Begun, WillBeClosed
<1> QED
  BY <1>1, <1>2, <1>3 DEF Inv

\* The part of a file that could not be written is removed.
LEMMA SaveFailsInv == ASSUME Inv, NEW c \in Saver, SaveFails(c) PROVE Inv' /\ Keeps
<1> USE DEF SaveFails, Fails, Goto, Call
<1>1. Folder' /\ Files' /\ Keeps
  <2>1. Holds(c) /\ Holds(c)' = FALSE
    BY IncomingFilesAssumption DEF Inv, Locals, Holds, Held, Order, Begun
  <2>2. \A d \in Call \ {c} : /\ Holds(d)' <=> Holds(d)
                              /\ at'[d] = at[d] /\ try'[d] = try[d]
    BY DEF Inv, Locals, Holds
  <2>3. /\ DOMAIN saved' \subseteq DOMAIN saved \cup {c}
        /\ \A d \in DOMAIN saved' \ {c} : saved'[d] = saved[d]
        /\ c \in DOMAIN saved' => /\ at'[c] = "done" /\ try'[c] = try[c]
                                 /\ FinalOf(c) \in DOMAIN names \ {PartOf(c)}
                                 /\ names[FinalOf(c)] = saved'[c] /\ saved'[c][1] = c
    BY Paths DEF Inv, Locals, Folder, FinalIsOwn, Exists, PartOf, FinalOf
  <2>4. at'[c] \notin {"copied", "promoted"}
    BY DEF Inv, Locals, Order, Begun
  <2> HIDE DEF SaveFails, Fails, Goto
  <2> QED
    BY <2>1, <2>2, <2>3, <2>4, UnlinkFolder DEF SaveFails, Call
<1>2. Locals'
  BY IncomingFilesAssumption DEF Inv, Locals, Step
<1>3. Order'
  BY IncomingFilesAssumption DEF Inv, Locals, Order, Begun, WillBeClosed
<1> QED
  BY <1>1, <1>2, <1>3 DEF Inv

\* close_rtc_file removes what the transfer held.
LEMMA CloseRemovesInv == ASSUME Inv, NEW c \in Token, CloseRemoves(c) PROVE Inv' /\ Keeps
<1> USE DEF CloseRemoves, ui, Call
<1>1. Folder' /\ Files' /\ Keeps
  <2>1. Holds(c) /\ Holds(c)' = FALSE
    BY IncomingFilesAssumption DEF Inv, Locals, Holds, Held, Order, Begun
  <2>2. \A d \in Call \ {c} : /\ Holds(d)' <=> Holds(d)
                              /\ at'[d] = at[d] /\ try'[d] = try[d]
    BY DEF Inv, Locals, Holds
  <2>3. /\ DOMAIN saved' \subseteq DOMAIN saved \cup {c}
        /\ \A d \in DOMAIN saved' \ {c} : saved'[d] = saved[d]
        /\ c \in DOMAIN saved' => /\ at'[c] = "done" /\ try'[c] = try[c]
                                 /\ FinalOf(c) \in DOMAIN names \ {PartOf(c)}
                                 /\ names[FinalOf(c)] = saved'[c] /\ saved'[c][1] = c
    BY Paths DEF Inv, Locals, Folder, FinalIsOwn, Exists, PartOf, FinalOf
  <2>4. at'[c] \notin {"copied", "promoted"}
    BY DEF Inv, Locals, Order, Begun
  <2> HIDE DEF CloseRemoves, ui
  <2> QED
    BY <2>1, <2>2, <2>3, <2>4, UnlinkFolder DEF CloseRemoves, Call
<1>2. Locals'
  BY IncomingFilesAssumption DEF Inv, Locals, Step
<1>3. Order'
  BY IncomingFilesAssumption DEF Inv, Locals, Order, Begun, WillBeClosed
<1> QED
  BY <1>1, <1>2, <1>3 DEF Inv

\* The part's name goes; the file is kept by its final name, which is reported.
LEMMA RemovePartInv == ASSUME Inv, NEW c \in Call, RemovePart(c) PROVE Inv' /\ Keeps
<1> USE DEF RemovePart, Goto, Put, Call
<1>1. Folder' /\ Files' /\ Keeps
  <2>1. Holds(c) /\ Holds(c)' = FALSE
    BY IncomingFilesAssumption DEF Inv, Locals, Holds, Held, Order, Begun
  <2>2. \A d \in Call \ {c} : /\ Holds(d)' <=> Holds(d)
                              /\ at'[d] = at[d] /\ try'[d] = try[d]
    BY DEF Inv, Locals, Holds
  <2>3. /\ DOMAIN saved' \subseteq DOMAIN saved \cup {c}
        /\ \A d \in DOMAIN saved' \ {c} : saved'[d] = saved[d]
        /\ c \in DOMAIN saved' => /\ at'[c] = "done" /\ try'[c] = try[c]
                                 /\ FinalOf(c) \in DOMAIN names \ {PartOf(c)}
                                 /\ names[FinalOf(c)] = saved'[c] /\ saved'[c][1] = c
    BY Paths DEF Inv, Locals, Folder, FinalIsOwn, Exists, PartOf, FinalOf
  <2>4. at'[c] \notin {"copied", "promoted"}
    BY DEF Inv, Locals, Order, Begun
  <2> HIDE DEF RemovePart, Goto, Put
  <2> QED
    BY <2>1, <2>2, <2>3, <2>4, UnlinkFolder DEF RemovePart, Call
<1>2. Locals'
  BY IncomingFilesAssumption DEF Inv, Locals, Step
<1>3. Order'
  BY IncomingFilesAssumption DEF Inv, Locals, Order, Begun, WillBeClosed
<1> QED
  BY <1>1, <1>2, <1>3 DEF Inv

\* A part that was made is removed.
LEMMA ReserveFailsInv == ASSUME Inv, NEW c \in Call, ReserveFails(c) PROVE Inv' /\ Keeps
<1> USE DEF ReserveFails, Fails, Goto, files, Call
<1>1. Folder' /\ Files' /\ Keeps
  <2>1. CASE at[c] = "reserve" /\ UNCHANGED files
    <3>1. ASSUME NEW d \in Call
          PROVE  /\ Holds(d)' <=> Holds(d)
                 /\ at'[d] = "copied" => at[d] = "copied"
                 /\ at'[d] = "promoted" => at[d] \in {"copied", "promoted"}
                 /\ d \in DOMAIN saved => at'[d] = "done"
      BY <2>1, IncomingFilesAssumption
      DEF Inv, Locals, Folder, FinalIsOwn, Holds, Held, Order, Begun
    <3> QED
      BY <2>1, <3>1, SameFolder, QuietFiles
  <2>2. CASE at[c] = "reserved" /\ Unlink({PartOf(c)})
    <3>1. Holds(c) /\ Holds(c)' = FALSE
      BY <2>2, IncomingFilesAssumption DEF Inv, Locals, Holds, Held, Order, Begun
    <3>2. \A d \in Call \ {c} : /\ Holds(d)' <=> Holds(d)
                                /\ at'[d] = at[d] /\ try'[d] = try[d]
      BY <2>2 DEF Inv, Locals, Holds
    <3>3. /\ DOMAIN saved' \subseteq DOMAIN saved \cup {c}
          /\ \A d \in DOMAIN saved' \ {c} : saved'[d] = saved[d]
          /\ c \in DOMAIN saved' => /\ at'[c] = "done" /\ try'[c] = try[c]
                                   /\ FinalOf(c) \in DOMAIN names \ {PartOf(c)}
                                   /\ names[FinalOf(c)] = saved'[c] /\ saved'[c][1] = c
      BY <2>2, Paths DEF Inv, Locals, Folder, FinalIsOwn, Exists, PartOf, FinalOf
    <3>4. at'[c] \notin {"copied", "promoted"}
      BY <2>2 DEF Inv, Locals, Order, Begun
    <3> HIDE DEF ReserveFails, Fails, Goto, files
    <3> QED
      BY <2>2, <3>1, <3>2, <3>3, <3>4, UnlinkFolder DEF ReserveFails, Fails, Call
  <2> QED
    BY <2>1, <2>2
<1>2. Locals'
  BY IncomingFilesAssumption DEF Inv, Locals, Step
<1>3. Order'
  BY IncomingFilesAssumption DEF Inv, Locals, Order, Begun, WillBeClosed
<1> QED
  BY <1>1, <1>2, <1>3 DEF Inv

\* A transfer that is complete passes its part to the command; another is removed.
LEMMA FinishReceiveInv == ASSUME Inv, NEW c \in Token, FinishReceive(c) PROVE Inv' /\ Keeps
<1> USE DEF FinishReceive, Goto, Drop, files, Call
<1>1. Folder' /\ Files' /\ Keeps
  <2>1. CASE c \in DOMAIN transfers /\ transfers[c] = Size
    <3>1. ASSUME NEW d \in Call
          PROVE  /\ Holds(d)' <=> Holds(d)
                 /\ at'[d] = "copied" => at[d] = "copied"
                 /\ at'[d] = "promoted" => at[d] \in {"copied", "promoted"}
                 /\ d \in DOMAIN saved => at'[d] = "done"
      BY <2>1, IncomingFilesAssumption
      DEF Inv, Locals, Folder, FinalIsOwn, Holds, Held, Order, Begun
    <3> QED
      BY <2>1, <3>1, SameFolder, QuietFiles
  <2>2. CASE c \in DOMAIN transfers /\ transfers[c] # Size
    <3>1. Holds(c) /\ Holds(c)' = FALSE
      BY <2>2, IncomingFilesAssumption DEF Inv, Locals, Holds, Held, Order, Begun
    <3>2. \A d \in Call \ {c} : /\ Holds(d)' <=> Holds(d)
                                /\ at'[d] = at[d] /\ try'[d] = try[d]
      BY <2>2 DEF Inv, Locals, Holds
    <3>3. /\ DOMAIN saved' \subseteq DOMAIN saved \cup {c}
          /\ \A d \in DOMAIN saved' \ {c} : saved'[d] = saved[d]
          /\ c \in DOMAIN saved' => /\ at'[c] = "done" /\ try'[c] = try[c]
                                   /\ FinalOf(c) \in DOMAIN names \ {PartOf(c)}
                                   /\ names[FinalOf(c)] = saved'[c] /\ saved'[c][1] = c
      BY <2>2, Paths DEF Inv, Locals, Folder, FinalIsOwn, Exists, PartOf, FinalOf
    <3>4. at'[c] \notin {"copied", "promoted"}
      BY <2>2 DEF Inv, Locals, Order, Begun
    <3> HIDE DEF FinishReceive, Goto, Drop, files
    <3> QED
      BY <2>2, <3>1, <3>2, <3>3, <3>4, UnlinkFolder DEF FinishReceive, Call
  <2>3. CASE c \notin DOMAIN transfers
    <3>1. ASSUME NEW d \in Call
          PROVE  /\ Holds(d)' <=> Holds(d)
                 /\ at'[d] = "copied" => at[d] = "copied"
                 /\ at'[d] = "promoted" => at[d] \in {"copied", "promoted"}
                 /\ d \in DOMAIN saved => at'[d] = "done"
      BY <2>3, IncomingFilesAssumption
      DEF Inv, Locals, Folder, FinalIsOwn, Holds, Held, Order, Begun
    <3> QED
      BY <2>3, <3>1, SameFolder, QuietFiles
  <2> QED
    BY <2>1, <2>2, <2>3
<1>2. Locals'
  BY IncomingFilesAssumption DEF Inv, Locals, Step
<1>3. Order'
  BY IncomingFilesAssumption DEF Inv, Locals, Order, Begun, WillBeClosed
<1> QED
  BY <1>1, <1>2, <1>3 DEF Inv

\* Only the part and a copy of its own are removed, never the file that was in the way.
LEMMA CommitFailsInv == ASSUME Inv, NEW c \in Call, CommitFails(c) PROVE Inv' /\ Keeps
<1> USE DEF CommitFails, Fails, Goto, Call
<1>1. Folder' /\ Files' /\ Keeps
  <2>1. CASE at[c] \in {"committing", "copying"} /\ Unlink({PartOf(c)})
    <3>1. Holds(c) /\ Holds(c)' = FALSE
      BY <2>1, IncomingFilesAssumption DEF Inv, Locals, Holds, Held, Order, Begun
    <3>2. \A d \in Call \ {c} : /\ Holds(d)' <=> Holds(d)
                                /\ at'[d] = at[d] /\ try'[d] = try[d]
      BY <2>1 DEF Inv, Locals, Holds
    <3>3. /\ DOMAIN saved' \subseteq DOMAIN saved \cup {c}
          /\ \A d \in DOMAIN saved' \ {c} : saved'[d] = saved[d]
          /\ c \in DOMAIN saved' => /\ at'[c] = "done" /\ try'[c] = try[c]
                                   /\ FinalOf(c) \in DOMAIN names \ {PartOf(c)}
                                   /\ names[FinalOf(c)] = saved'[c] /\ saved'[c][1] = c
      BY <2>1, Paths DEF Inv, Locals, Folder, FinalIsOwn, Exists, PartOf, FinalOf
    <3>4. at'[c] \notin {"copied", "promoted"}
      BY <2>1 DEF Inv, Locals, Order, Begun
    <3> HIDE DEF CommitFails, Fails, Goto
    <3> QED
      BY <2>1, <3>1, <3>2, <3>3, <3>4, UnlinkFolder DEF CommitFails, Fails, Call
  <2>2. CASE at[c] = "copied" /\ Unlink({PartOf(c), FinalOf(c)})
    <3>1. Holds(c) /\ Holds(c)' = FALSE
      BY <2>2, IncomingFilesAssumption DEF Inv, Locals, Holds, Held, Order, Begun
    <3>2. \A d \in Call \ {c} : /\ Holds(d)' <=> Holds(d)
                                /\ at'[d] = at[d] /\ try'[d] = try[d]
      BY <2>2 DEF Inv, Locals, Holds
    <3>3. /\ DOMAIN saved' \subseteq DOMAIN saved \cup {c}
          /\ \A d \in DOMAIN saved' \ {c} : saved'[d] = saved[d]
          /\ c \in DOMAIN saved' => /\ at'[c] = "done" /\ try'[c] = try[c]
                                   /\ FinalOf(c) \in DOMAIN names \ {PartOf(c), FinalOf(c)}
                                   /\ names[FinalOf(c)] = saved'[c] /\ saved'[c][1] = c
      BY <2>2, Paths DEF Inv, Locals, Folder, FinalIsOwn, Exists, PartOf, FinalOf
    <3>4. at'[c] = "done"
      BY <2>2 DEF Inv, Locals, Order, Begun
    <3> HIDE DEF CommitFails, Fails, Goto
    <3> QED
      BY <2>2, <3>1, <3>2, <3>3, <3>4, UnlinkFolder DEF CommitFails, Fails, Call
  <2> QED
    BY <2>1, <2>2
<1>2. Locals'
  BY IncomingFilesAssumption DEF Inv, Locals, Step
<1>3. Order'
  BY IncomingFilesAssumption DEF Inv, Locals, Order, Begun, WillBeClosed
<1> QED
  BY <1>1, <1>2, <1>3 DEF Inv

-----------------------------------------------------------------------------
(* Actions that make names, or try others.                                 *)

\* The candidate that was taken is left; the command holds nothing.
LEMMA PartIsTakenInv == ASSUME Inv, NEW c \in Call, PartIsTaken(c) PROVE Inv' /\ Keeps
<1> USE DEF PartIsTaken, ui, files, Call
<1>1. ~Holds(c) /\ \A d \in Call : Holds(d)' <=> Holds(d)
  BY IncomingFilesAssumption DEF Inv, Holds, Held, Order, Begun
<1>2. ASSUME NEW d \in Call PROVE PartIsHeld(d)' /\ FinalIsOwn(d)'
  <2>1. CASE d = c
    BY <1>1, <2>1 DEF Inv, Folder, PartIsHeld, FinalIsOwn
  <2>2. CASE d # c
    <3>1. PartOf(d)' = PartOf(d) /\ FinalOf(d)' = FinalOf(d) /\ try'[d] = try[d]
      BY <2>2 DEF PartOf, FinalOf, Inv, Locals
    <3> QED
      BY <1>1, <2>2, <3>1 DEF Inv, Folder, PartIsHeld, FinalIsOwn, Exists
  <2> QED
    BY <2>1, <2>2
<1>3. ASSUME NEW p \in DOMAIN names PROVE PartHasHolder(p)'
  <2> SUFFICES ASSUME p[1] = "part", names[p][1] # Other
               PROVE  /\ names[p][2] = p
                      /\ \E d \in Call : d = names'[p][1] /\ Holds(d)' /\ p = PartOf(d)'
    BY DEF PartHasHolder, Inv, Folder, Holds, PartOf
  <2>1. names[p][2] = p /\ Holds(names[p][1]) /\ p = PartOf(names[p][1])
    BY DEF Inv, Folder, PartHasHolder
  <2>2. names[p][1] \in Call /\ names[p][1] # c
    BY <1>1, <2>1 DEF Inv, Files, File
  <2> QED
    BY <1>1, <2>1, <2>2 DEF PartOf, Inv, Locals
<1>4. Folder'
  BY <1>2, <1>3 DEF Inv, Folder, OthersKeepTheirs
<1>5. Locals'
  BY IncomingFilesAssumption DEF Inv, Locals
<1>6. Order'
  BY DEF Inv, Order, WillBeClosed
<1> QED
  BY <1>4, <1>5, <1>6, QuietFiles DEF Inv

LEMMA ReservePartInv == ASSUME Inv, NEW c \in Call, ReservePart(c) PROVE Inv' /\ Keeps
<1> USE DEF ReservePart, Goto, ui, Call
<1> SUFFICES ASSUME NEW p, p = PartOf(c) PROVE Inv' /\ Keeps
  OBVIOUS
<1>1. try[c] \in 0 .. Attempts - 1 /\ p \in Path
  BY Paths, IncomingFilesAssumption DEF Inv, Locals, PartOf
<1>2. /\ Files' /\ Keeps
      /\ p \notin DOMAIN names /\ DOMAIN names' = DOMAIN names \cup {p}
      /\ names'[p] = Made(c, p)
      /\ \A q \in DOMAIN names : names'[q] = names[q]
  BY <1>1, CreateKeeps
<1>3. /\ Holds(c)' /\ \A d \in Call \ {c} : (Holds(d)' <=> Holds(d)) /\ at'[d] = at[d]
      /\ \A d \in Call : Holds(d) => Holds(d)'
  BY DEF Inv, Locals, Holds, Held
<1>4. ASSUME NEW d \in Call PROVE PartIsHeld(d)' /\ FinalIsOwn(d)'
  <2>1. CASE d # c
    BY <1>2, <1>3, <2>1, MoreNames
  <2>2. CASE d = c
    <3>1. PartIsHeld(c)'
      BY <1>1, <1>2 DEF PartIsHeld, Exists, PartOf
    <3>2. FinalIsOwn(c)'
      BY DEF FinalIsOwn, Inv, Locals, Folder
    <3> QED
      BY <2>2, <3>1, <3>2
  <2> QED
    BY <2>1, <2>2
<1>5. PartHasHolder(p)'
  <2>1. names'[p][1] = c /\ names'[p][2] = p /\ p = PartOf(c)'
    BY <1>2, Paths DEF PartOf
  <2>2. Holds(names[p][1])'
    BY <1>3, <2>1 DEF Holds
  <2> QED
    BY <2>1, <2>2 DEF PartHasHolder, PartOf, Holds
<1>6. OthersKeepTheirs'
  BY <1>2, Paths DEF Inv, Folder, OthersKeepTheirs
<1>7. Folder'
  BY <1>2, <1>3, <1>4, <1>5, <1>6, OldHolders DEF Folder
<1>8. Locals'
  BY DEF Inv, Locals, Step
<1>9. Order'
  BY IncomingFilesAssumption DEF Inv, Locals, Order, Begun, WillBeClosed
<1> QED
  BY <1>2, <1>7, <1>8, <1>9 DEF Inv

LEMMA OtherCreatesInv == ASSUME Inv, NEW p \in Path, OtherCreates(p) PROVE Inv' /\ Keeps
<1> USE DEF OtherCreates, ui, Call
<1>1. /\ Files' /\ Keeps
      /\ p \notin DOMAIN names /\ DOMAIN names' = DOMAIN names \cup {p}
      /\ names'[p] = Made(Other, p)
      /\ \A q \in DOMAIN names : names'[q] = names[q]
  BY CreateKeeps
<1>2. \A d \in Call : Holds(d)' <=> Holds(d)
  BY DEF Holds
<1>3. \A d \in Call : PartIsHeld(d)' /\ FinalIsOwn(d)'
  BY <1>1, <1>2, MoreNames
<1>4. PartHasHolder(p)' /\ OthersKeepTheirs'
  BY <1>1, Paths DEF Inv, Folder, PartHasHolder, OthersKeepTheirs
<1>5. Folder'
  BY <1>1, <1>2, <1>3, <1>4, OldHolders DEF Folder
<1>6. Locals' /\ Order'
  BY DEF Inv, Locals, Order, WillBeClosed
<1> QED
  BY <1>1, <1>5, <1>6 DEF Inv

LEMMA CreateCopyInv == ASSUME Inv, NEW c \in Call, CreateCopy(c) PROVE Inv' /\ Keeps
<1> USE DEF CreateCopy, Goto, ui, Call
<1> SUFFICES ASSUME NEW p, p = FinalOf(c) PROVE Inv' /\ Keeps
  OBVIOUS
<1>1. Holds(c) /\ PartIsHeld(c) /\ try[c] \in 0 .. Attempts - 1 /\ p \in Path
  BY Paths, IncomingFilesAssumption DEF Inv, Locals, Folder, PartIsHeld, Holds, Held, FinalOf
<1>2. /\ Files' /\ Keeps
      /\ p \notin DOMAIN names /\ DOMAIN names' = DOMAIN names \cup {p}
      /\ names'[p] = Made(c, p)
      /\ \A q \in DOMAIN names : names'[q] = names[q]
  BY <1>1, CreateKeeps
<1>3. \A d \in Call : (Holds(d)' <=> Holds(d)) /\ (d # c => at'[d] = at[d])
  BY DEF Inv, Locals, Holds, Held
<1>4. ASSUME NEW d \in Call PROVE PartIsHeld(d)' /\ FinalIsOwn(d)'
  <2>1. CASE d # c
    BY <1>2, <1>3, <2>1, MoreNames
  <2>2. CASE d = c
    <3>1. PartIsHeld(c)'
      BY <1>1, <1>2 DEF PartIsHeld, Exists, PartOf
    <3>2. FinalIsOwn(c)'
      BY <1>2 DEF FinalIsOwn, Exists, FinalOf, Inv, Locals, Folder
    <3> QED
      BY <2>2, <3>1, <3>2
  <2> QED
    BY <2>1, <2>2
<1>5. PartHasHolder(p)' /\ OthersKeepTheirs'
  BY <1>2, Paths DEF Inv, Folder, PartHasHolder, OthersKeepTheirs, FinalOf
<1>6. Folder'
  BY <1>2, <1>3, <1>4, <1>5, OldHolders DEF Folder
<1>7. Locals'
  BY DEF Inv, Locals, Step
<1>8. Order'
  BY IncomingFilesAssumption DEF Inv, Locals, Order, Begun, WillBeClosed
<1> QED
  BY <1>2, <1>6, <1>7, <1>8 DEF Inv

\* The final name is a second one of the part.
LEMMA LinkInv == ASSUME Inv, NEW c \in Call, Link(c) PROVE Inv' /\ Keeps
<1> USE DEF Link, Goto, ui, Call
<1> SUFFICES ASSUME NEW p, p = FinalOf(c) PROVE Inv' /\ Keeps
  OBVIOUS
<1>1. /\ Holds(c) /\ try[c] \in 0 .. Attempts - 1 /\ p \in Path
      /\ PartOf(c) \in DOMAIN names /\ names[PartOf(c)] = Made(c, PartOf(c))
  BY Paths, IncomingFilesAssumption
  DEF Inv, Locals, Folder, PartIsHeld, Holds, Held, FinalOf, Exists
<1>2. /\ p \notin DOMAIN names /\ DOMAIN names' = DOMAIN names \cup {p}
      /\ names'[p] = Made(c, PartOf(c))
      /\ \A q \in DOMAIN names : names'[q] = names[q]
  BY <1>1 DEF Put, Exists
<1>3. Files' /\ Keeps
  <2>1. Files'
    BY <1>1, <1>2 DEF Inv, Files
  <2>2. Keeps
    BY <1>2 DEF Keeps, KeepsName, Exists
  <2> QED
    BY <2>1, <2>2
<1>4. \A d \in Call : (Holds(d)' <=> Holds(d)) /\ (d # c => at'[d] = at[d])
  BY DEF Inv, Locals, Holds, Held
<1>5. ASSUME NEW d \in Call PROVE PartIsHeld(d)' /\ FinalIsOwn(d)'
  <2>1. CASE d # c
    BY <1>2, <1>4, <2>1, MoreNames
  <2>2. CASE d = c
    <3>1. PartIsHeld(c)'
      BY <1>1, <1>2, IncomingFilesAssumption DEF PartIsHeld, Exists, PartOf
    <3>2. FinalIsOwn(c)'
      BY <1>2, Paths DEF FinalIsOwn, Exists, FinalOf, Inv, Locals, Folder
    <3> QED
      BY <2>2, <3>1, <3>2
  <2> QED
    BY <2>1, <2>2
<1>6. PartHasHolder(p)' /\ OthersKeepTheirs'
  BY <1>2, Paths DEF Inv, Folder, PartHasHolder, OthersKeepTheirs, FinalOf
<1>7. Folder'
  BY <1>2, <1>4, <1>5, <1>6, OldHolders DEF Folder
<1>8. Locals'
  BY DEF Inv, Locals, Step
<1>9. Order'
  BY IncomingFilesAssumption DEF Inv, Locals, Order, Begun, WillBeClosed
<1> QED
  BY <1>3, <1>7, <1>8, <1>9 DEF Inv

-----------------------------------------------------------------------------
LEMMA InitInv == Init => Inv
<1> SUFFICES ASSUME Init PROVE Inv
  OBVIOUS
<1> USE IncomingFilesAssumption DEF Init, Call
<1>1. Files /\ Folder
  BY DEF Files, Folder, PartIsHeld, FinalIsOwn, OthersKeepTheirs, Holds, Held
<1>2. Locals
  BY DEF Locals, Step
<1>3. Order
  BY DEF Order
<1> QED
  BY <1>1, <1>2, <1>3 DEF Inv

LEMMA NextInv == ASSUME Inv, Next PROVE Inv' /\ Keeps
<1>1. ASSUME NEW c \in Call, Reserve(c) \/ Commit(c) PROVE Inv' /\ Keeps
  BY <1>1, ReservePartInv, PartIsTakenInv, FinalIsFreeInv, FinalIsTakenInv, ReserveFailsInv,
     LinkInv, LinkUnsupportedInv, CreateCopyInv, CopyDataInv, CommitFailsInv, RemovePartInv
  DEF Reserve, Commit
<1>2. ASSUME NEW c \in Saver, SaveRelayFile(c) \/ SaveData(c) \/ SaveFails(c) PROVE Inv' /\ Keeps
  BY <1>2, SaveRelayFileInv, SaveDataInv, SaveFailsInv
<1>3. ASSUME NEW t \in Token, Receive(t) \/ Close(t) PROVE Inv' /\ Keeps
  BY <1>3, InsertTransferInv, AcceptedInv, OpenPartInv, AppendChunkInv, WriteFailsInv,
     CloseTakesInv, CloseRemovesInv, RejectEndsInv
  DEF Receive, Close
<1>4. ASSUME NEW t \in Token,
             \/ AcceptFile(t) \/ RejectFile(t) \/ SessionEnds(t) \/ ConnectionFails(t)
             \/ ReceiveChunk(t) \/ FinishReceive(t) \/ Verify(t) \/ VerifyFails(t)
      PROVE  Inv' /\ Keeps
  BY <1>4, AcceptFileInv, RejectFileInv, SessionEndsInv, ConnectionFailsInv, ReceiveChunkInv,
     FinishReceiveInv, VerifyInv, VerifyFailsInv
<1> QED
  BY <1>1, <1>2, <1>3, <1>4, StopInv, OtherCreatesInv DEF Next

-----------------------------------------------------------------------------
(* The theorems.                                                           *)

\* The invariant holds in every state, whatever the number of transfers, names and chunks.
THEOREM IncomingFilesInvariant == Spec => []Inv
<1>1. Init => Inv
  BY InitInv
<1>2. Inv /\ [Next]_vars => Inv'
  <2> SUFFICES ASSUME Inv, UNCHANGED vars PROVE Inv'
    BY NextInv
  <2> QED
    BY DEF vars, files, ui, Inv, Files, Locals, Folder, PartIsHeld, PartHasHolder, FinalIsOwn,
           OthersKeepTheirs, Order, WillBeClosed, Holds, Exists, PartOf, FinalOf
<1> QED
  BY <1>1, <1>2, PTL DEF Spec

\* Every part is in the hands of a command or on record in rtc_incoming_files, and somebody will
\* remove or promote it, though commands run at once and sessions end at any moment: all but the
\* parts of offers rejected while they were accepted, and of transfers in place when stop() or a
\* failed connection closed their session (lib.rs, begin_rtc_file_receive to close_rtc_file;
\* peer-transport.ts, stop and closeSession).
THEOREM FolderStaysSound == Spec => []FolderIsSound
<1>1. Inv => FolderIsSound
  <2> SUFFICES ASSUME Inv PROVE FolderIsSound
    OBVIOUS
  <2>1. TypeOK
    BY TypeHalves DEF Inv
  <2>2. ASSUME NEW p \in DOMAIN names, p[1] = "part", names[p][1] # Other
        PROVE  /\ p = PartOf(names[p][1])
               /\ \/ Works(names[p][1])
                  \/ /\ names[p][1] \in Token
                     /\ OnRecord(names[p][1]) /\ WillBeClosed(names[p][1])
    <3>1. Holds(names[p][1]) /\ p = PartOf(names[p][1])
      BY <2>2 DEF Inv, Folder, PartHasHolder
    <3>2. CASE at[names[p][1]] \in Held
      BY <3>1, <3>2 DEF Works, Held
    <3>3. CASE names[p][1] \in Token /\ names[p][1] \in DOMAIN transfers
      BY <3>1, <3>3 DEF Inv, Order, OnRecord
    <3>4. CASE names[p][1] \in Token /\ closing[names[p][1]] = "removing"
      BY <3>1, <3>4 DEF WillBeClosed, OnRecord
    <3> QED
      BY <3>1, <3>2, <3>3, <3>4 DEF Holds
  <2> QED
    BY <2>1, <2>2 DEF FolderIsSound, PartsAreOwned
<1> QED
  BY <1>1, IncomingFilesInvariant, PTL

\* No step takes a name from a file that was downloaded, or from one another program made,
\* and none writes to the latter (incoming_file.rs, create_new and hard_link).
THEOREM NothingIsOverwritten == Spec => NothingOverwritten
<1>1. Inv /\ [Next]_vars => [Keeps]_vars
  BY NextInv
<1>2. Spec => [][Keeps]_vars
  BY <1>1, IncomingFilesInvariant, PTL DEF Spec
<1> QED
  BY <1>2, PTL DEF NothingOverwritten, Keeps

-----------------------------------------------------------------------------
(* What a saved file may hold besides what was offered.                    *)

\* The interface has forgotten t for good, and t will never be saved: what t still writes goes
\* to whatever file bears the name of its part
Given(t) ==
  /\ t \in Token /\ t \notin known /\ t \notin DOMAIN saved
  /\ at[t] \in {"ready", "writing", "opened", "done"}

\* A transfer writes to a file that is not its own only after it was closed
Late(t) ==
  /\ t \in known => closing[t] = "no" \/ at[t] = "done"
  /\ at[t] \in {"begun", "ready", "writing", "opened"} /\ t \in known => t \in DOMAIN transfers
  /\ at[t] = "opened" => handle[t][1] = t \/ Given(t)

OnlyGiven(f) == \A i \in 1 .. Len(disk[f]) : Given(disk[f][i][1])

WholeIn(c, f) ==
  /\ Len(disk[f]) >= Size
  /\ \A i \in 1 .. Len(disk[f]) :
       IF i <= Size THEN disk[f][i] = <<c, i>> ELSE Given(disk[f][i][1])

Contents(c) ==
  /\ c \in Saver /\ at[c] \in {"reserved", "saving"} =>
       OnlyGiven(Made(c, PartOf(c)))
  /\ at[c] \in {"committing", "copying", "copied"} => WholeIn(c, Made(c, PartOf(c)))
  /\ at[c] = "promoted" => WholeIn(c, names[FinalOf(c)])
  /\ c \in DOMAIN saved => WholeIn(c, saved[c])

Data ==
  /\ \A t \in Token : Late(t)
  /\ \A c \in Call : Contents(c)

\* What every step keeps
Kept == Inv /\ Inv' /\ Keeps /\ Data

\* The files a command has to do with are there
There(c) ==
  /\ at[c] \in Held => Made(c, PartOf(c)) \in DOMAIN disk
  /\ at[c] = "promoted" => names[FinalOf(c)] \in DOMAIN disk /\ names[FinalOf(c)][1] = c
  /\ c \in DOMAIN saved => saved[c] \in DOMAIN disk /\ saved[c][1] = c /\ at[c] = "done"
  /\ Made(c, PartOf(c))[1] = c

\* The invariant says so, before and after a step.
LEMMA FilesThere ==
  ASSUME NEW c \in Call
  PROVE  (Inv => There(c)) /\ (Inv' => There(c)')
<1>1. Inv => There(c)
  BY Paths DEF There, Inv, Folder, Files, PartIsHeld, FinalIsOwn, Holds, Exists
<1>2. Made(c, PartOf(c))'[1] = c
  BY Paths DEF Made
<1>3. Inv' => There(c)'
  BY <1>2 DEF There, Inv, Folder, Files, PartIsHeld, FinalIsOwn, Holds, Exists
<1> QED
  BY <1>1, <1>3

\* w written over the start of s leaves what was behind it.
LEMMA Overwritten ==
  ASSUME NEW S, NEW w \in Seq(S), NEW s \in Seq(S),
         NEW x, x = w \o SubSeq(s, Len(w) + 1, Len(s))
  PROVE  /\ Len(x) \in Nat /\ Len(x) >= Len(w)
         /\ \A i \in 1 .. Len(x) : IF i <= Len(w) THEN x[i] = w[i]
                                   ELSE i \in 1 .. Len(s) /\ x[i] = s[i]
<1> SUFFICES ASSUME NEW r, r = SubSeq(s, Len(w) + 1, Len(s)), x = w \o r
             PROVE  /\ Len(x) \in Nat /\ Len(x) >= Len(w)
                    /\ \A i \in 1 .. Len(x) : IF i <= Len(w) THEN x[i] = w[i]
                                              ELSE i \in 1 .. Len(s) /\ x[i] = s[i]
  OBVIOUS
<1>1. Len(w) \in Nat /\ Len(s) \in Nat /\ \A i \in Len(w) + 1 .. Len(s) : s[i] \in S
  OBVIOUS
<1>2. /\ r \in Seq(S)
      /\ Len(r) = IF Len(w) + 1 <= Len(s) THEN Len(s) - Len(w) ELSE 0
      /\ \A i \in 1 .. Len(s) - Len(w) : r[i] = s[Len(w) + i]
  <2>1. /\ SubSeq(s, Len(w) + 1, Len(s)) \in Seq(S)
        /\ Len(SubSeq(s, Len(w) + 1, Len(s))) =
             IF Len(w) + 1 <= Len(s) THEN Len(s) - (Len(w) + 1) + 1 ELSE 0
        /\ \A i \in 1 .. Len(s) - (Len(w) + 1) + 1 :
             SubSeq(s, Len(w) + 1, Len(s))[i] = s[Len(w) + 1 + i - 1]
    BY <1>1, SubSeqProperties
  <2> QED
    BY <1>1, <2>1
<1>3. /\ Len(w \o r) = Len(w) + Len(r)
      /\ \A i \in 1 .. Len(w) + Len(r) : (w \o r)[i] = IF i <= Len(w) THEN w[i] ELSE r[i - Len(w)]
  BY <1>2, ConcatProperties
<1>4. Len(x) = Len(w) + Len(r) /\ Len(r) \in Nat
  BY <1>2, <1>3
<1>5. ASSUME NEW i \in 1 .. Len(x), ~(i <= Len(w))
      PROVE  i \in 1 .. Len(s) /\ x[i] = s[i]
  <2>1. i - Len(w) \in 1 .. Len(s) - Len(w) /\ Len(w) + (i - Len(w)) = i
    BY <1>1, <1>2, <1>4, <1>5
  <2>2. r[i - Len(w)] = s[i]
    BY <1>2, <2>1
  <2> QED
    BY <1>1, <1>3, <1>4, <1>5, <2>1, <2>2
<1> QED
  BY <1>1, <1>3, <1>4, <1>5

\* What an unlink leaves is as it was.
LEMMA UnlinkQuiet ==
  ASSUME Inv, NEW P, Unlink(P)
  PROVE  \A f \in DOMAIN disk' : f \in DOMAIN disk /\ disk'[f] = disk[f]
BY DEF Unlink, Drop, Inv, Files

\* The files of c only get longer, by what transfers write that were given up.
LEMMA SameContents ==
  ASSUME Kept, NEW c \in Call,
         \A t : Given(t) => Given(t)',
         \A f \in DOMAIN disk' : f[1] = c =>
           /\ f \in DOMAIN disk
           /\ disk'[f] = disk[f] \/ \E x \in Chunk : Given(x[1])' /\ disk'[f] = Append(disk[f], x),
         try'[c] = try[c] \/ at'[c] = "reserve",
         at'[c] \in {"reserved", "saving"} => at[c] \in {"reserved", "saving"},
         at'[c] \in {"committing", "copying", "copied"} =>
           at[c] \in {"committing", "copying", "copied"},
         at'[c] = "promoted" => at[c] = "promoted",
         c \in DOMAIN saved' => c \in DOMAIN saved /\ saved'[c] = saved[c]
  PROVE  Contents(c)'
<1>1. ASSUME NEW f \in DOMAIN disk', f[1] = c, WholeIn(c, f)
      PROVE  WholeIn(c, f)'
  <2>1. f \in DOMAIN disk /\ disk[f] \in Seq(Chunk)
    BY <1>1 DEF Kept, Inv, Files
  <2>2. CASE disk'[f] = disk[f]
    BY <1>1, <2>2 DEF WholeIn
  <2>3. CASE \E x \in Chunk : Given(x[1])' /\ disk'[f] = Append(disk[f], x)
    <3>1. PICK x \in Chunk : Given(x[1])' /\ disk'[f] = Append(disk[f], x)
      BY <2>3
    <3>2. /\ Len(disk'[f]) = Len(disk[f]) + 1 /\ Len(disk[f]) \in Nat
          /\ disk'[f][Len(disk[f]) + 1] = x
          /\ \A i \in 1 .. Len(disk[f]) : disk'[f][i] = disk[f][i]
      BY <2>1, <3>1
    <3>3. Size \in Nat
      BY IncomingFilesAssumption
    <3> QED
      BY <1>1, <3>1, <3>2, <3>3 DEF WholeIn
  <2> QED
    BY <1>1, <2>2, <2>3
<1>2. at'[c] \in {"reserved", "saving"} /\ c \in Saver => OnlyGiven(Made(c, PartOf(c)))'
  <2> SUFFICES ASSUME at'[c] \in {"reserved", "saving"}, c \in Saver,
                      NEW f, f = Made(c, PartOf(c))
               PROVE  OnlyGiven(f)'
    BY DEF Made, PartOf, OnlyGiven
  <2>1. f \in DOMAIN disk' /\ f[1] = c
    BY FilesThere DEF Kept, There, Held, PartOf, Made
  <2>2. f \in DOMAIN disk /\ disk[f] \in Seq(Chunk)
    BY <2>1 DEF Kept, Inv, Files
  <2>3. \A j \in 1 .. Len(disk[f]) : Given(disk[f][j][1])
    BY DEF Kept, Data, Contents, OnlyGiven
  <2>4. CASE disk'[f] = disk[f]
    BY <2>3, <2>4 DEF OnlyGiven
  <2>5. CASE \E x \in Chunk : Given(x[1])' /\ disk'[f] = Append(disk[f], x)
    <3>1. PICK x \in Chunk : Given(x[1])' /\ disk'[f] = Append(disk[f], x)
      BY <2>5
    <3>2. /\ Len(disk'[f]) = Len(disk[f]) + 1 /\ Len(disk[f]) \in Nat
          /\ disk'[f][Len(disk[f]) + 1] = x
          /\ \A j \in 1 .. Len(disk[f]) : disk'[f][j] = disk[f][j]
      BY <2>2, <3>1
    <3> QED
      BY <2>3, <3>1, <3>2 DEF OnlyGiven
  <2> QED
    BY <2>1, <2>4, <2>5
<1>3. at'[c] \in {"committing", "copying", "copied"} => WholeIn(c, Made(c, PartOf(c)))'
  <2> SUFFICES ASSUME at'[c] \in {"committing", "copying", "copied"},
                      NEW f, f = Made(c, PartOf(c))
               PROVE  WholeIn(c, f)'
    BY DEF Made, PartOf, WholeIn
  <2>1. f \in DOMAIN disk' /\ f[1] = c
    <3>1. Made(c, PartOf(c))' = f
      BY FilesThere DEF Kept, There, PartOf, Made
    <3> QED
      BY <3>1, FilesThere DEF Kept, There, Held
  <2> QED
    BY <1>1, <2>1 DEF Kept, Data, Contents
<1>4. at'[c] = "promoted" => WholeIn(c, names[FinalOf(c)])'
  <2> SUFFICES ASSUME at'[c] = "promoted", NEW f, f = names[FinalOf(c)]
               PROVE  /\ WholeIn(c, f)'
                      /\ names'[FinalOf(c)'] = f
    BY DEF WholeIn
  <2>1. FinalOf(c) \in DOMAIN names /\ f[1] = c /\ FinalOf(c)' = FinalOf(c)
    BY DEF Kept, Inv, Folder, FinalIsOwn, Exists, FinalOf
  <2>2. names'[FinalOf(c)] = f
    BY <2>1, Paths DEF Kept, Keeps, KeepsName, FinalOf
  <2>3. f \in DOMAIN disk'
    BY <2>1, <2>2 DEF Kept, Inv, Folder, Files, FinalIsOwn, Exists
  <2> QED
    BY <1>1, <2>1, <2>2, <2>3 DEF Kept, Data, Contents
<1>5. c \in DOMAIN saved' => WholeIn(c, saved[c])'
  <2> SUFFICES ASSUME c \in DOMAIN saved', NEW f, f = saved[c]
               PROVE  WholeIn(c, f)'
    BY DEF WholeIn
  <2>1. f \in DOMAIN disk' /\ f[1] = c
    BY DEF Kept, Inv, Folder, Files, FinalIsOwn
  <2> QED
    BY <1>1, <2>1 DEF Kept, Data, Contents
<1> QED
  BY <1>2, <1>3, <1>4, <1>5 DEF Contents

\* A download of the relay holds no part yet.
LEMMA SaveRelayFileData == ASSUME Kept, NEW c \in Saver, SaveRelayFile(c) PROVE Data'
<1> USE DEF SaveRelayFile, Goto, files, ui, Call
<1>1. \A t : Given(t) => Given(t)'
  BY IncomingFilesAssumption DEF Given, Kept, Inv, Locals
<1>2. \A t \in Token : Late(t)'
  BY <1>1, IncomingFilesAssumption DEF Late, Given, Kept, Data, Inv, Locals
<1>3. ASSUME NEW d \in Call PROVE Contents(d)'
  BY <1>1, SameContents DEF Kept, Inv, Locals
<1> QED
  BY <1>2, <1>3 DEF Data

\* Nothing is written for an offer before it is accepted.
LEMMA AcceptFileData == ASSUME Kept, NEW c \in Token, AcceptFile(c) PROVE Data'
<1> USE DEF AcceptFile, Goto, files, ui, Call
<1>1. \A t : Given(t) => Given(t)'
  BY IncomingFilesAssumption DEF Given, Kept, Inv, Locals
<1>2. \A t \in Token : Late(t)'
  BY <1>1, IncomingFilesAssumption DEF Late, Given, Kept, Data, Inv, Locals
<1>3. ASSUME NEW d \in Call PROVE Contents(d)'
  BY <1>1, SameContents DEF Kept, Inv, Locals
<1> QED
  BY <1>2, <1>3 DEF Data

\* While its session lasts, the transfer just made is in the map.
LEMMA AcceptedData == ASSUME Kept, NEW c \in Token, Accepted(c) PROVE Data'
<1> USE DEF Accepted, Goto, files, ui, Call, CallClose
<1>1. \A t : Given(t) => Given(t)'
  BY IncomingFilesAssumption DEF Given, Kept, Inv, Locals
<1>2. \A t \in Token : Late(t)'
  BY <1>1, IncomingFilesAssumption DEF Late, Given, Kept, Data, Inv, Locals
<1>3. ASSUME NEW d \in Call PROVE Contents(d)'
  BY <1>1, SameContents DEF Kept, Inv, Locals
<1> QED
  BY <1>2, <1>3 DEF Data

\* An offer that is to be rejected is no longer known.
LEMMA RejectFileData == ASSUME Kept, NEW c \in Token, RejectFile(c) PROVE Data'
<1> USE DEF RejectFile, Goto, files, ui, Call, CallClose
<1>1. \A t : Given(t) => Given(t)'
  BY IncomingFilesAssumption DEF Given, Kept, Inv, Locals
<1>2. \A t \in Token : Late(t)'
  BY <1>1, IncomingFilesAssumption DEF Late, Given, Kept, Data, Inv, Locals
<1>3. ASSUME NEW d \in Call PROVE Contents(d)'
  BY <1>1, SameContents DEF Kept, Inv, Locals
<1> QED
  BY <1>2, <1>3 DEF Data

\* Whose session is closed was forgotten when the rejection was clicked.
LEMMA RejectEndsData == ASSUME Kept, NEW c \in Token, RejectEnds(c) PROVE Data'
<1> USE DEF RejectEnds, Goto, files, ui, Call
<1>1. \A t : Given(t) => Given(t)'
  BY IncomingFilesAssumption DEF Given, Kept, Inv, Locals
<1>2. \A t \in Token : Late(t)'
  BY <1>1, IncomingFilesAssumption DEF Late, Given, Kept, Data, Inv, Locals
<1>3. ASSUME NEW d \in Call PROVE Contents(d)'
  BY <1>1, SameContents DEF Kept, Inv, Locals
<1> QED
  BY <1>2, <1>3 DEF Data

\* Whoever loses the session is forgotten with it.
LEMMA SessionEndsData == ASSUME Kept, NEW c \in Token, SessionEnds(c) PROVE Data'
<1> USE DEF SessionEnds, Goto, files, ui, Call, CallClose
<1>1. \A t : Given(t) => Given(t)'
  BY IncomingFilesAssumption DEF Given, Kept, Inv, Locals
<1>2. \A t \in Token : Late(t)'
  BY <1>1, IncomingFilesAssumption DEF Late, Given, Kept, Data, Inv, Locals
<1>3. ASSUME NEW d \in Call PROVE Contents(d)'
  BY <1>1, SameContents DEF Kept, Inv, Locals
<1> QED
  BY <1>2, <1>3 DEF Data

\* The interface still knows of the transfer.
LEMMA ConnectionFailsData == ASSUME Kept, NEW c \in Token, ConnectionFails(c) PROVE Data'
<1> USE DEF ConnectionFails, Abandon, Goto, files, ui, Call
<1>1. \A t : Given(t) => Given(t)'
  BY IncomingFilesAssumption DEF Given, Kept, Inv, Locals
<1>2. \A t \in Token : Late(t)'
  BY <1>1, IncomingFilesAssumption DEF Late, Given, Kept, Data, Inv, Locals
<1>3. ASSUME NEW d \in Call PROVE Contents(d)'
  BY <1>1, SameContents DEF Kept, Inv, Locals
<1> QED
  BY <1>2, <1>3 DEF Data

\* What was in place is given up, what was not accepted writes nothing.
LEMMA StopData == ASSUME Kept, NEW T \in SUBSET Token, Stop(T) PROVE Data'
<1> USE DEF Stop, Abandon, Goto, files, ui, Call
<1>1. \A t : Given(t) => Given(t)'
  BY IncomingFilesAssumption DEF Given, Kept, Inv, Locals
<1>2. \A t \in Token : Late(t)'
  BY <1>1, IncomingFilesAssumption DEF Late, Given, Kept, Data, Inv, Locals
<1>3. ASSUME NEW d \in Call PROVE Contents(d)'
  BY <1>1, SameContents DEF Kept, Inv, Locals
<1> QED
  BY <1>2, <1>3 DEF Data

\* Another candidate is tried; nothing was written.
LEMMA PartIsTakenData == ASSUME Kept, NEW c \in Call, PartIsTaken(c) PROVE Data'
<1> USE DEF PartIsTaken, Goto, files, ui, Call
<1>1. \A t : Given(t) => Given(t)'
  BY IncomingFilesAssumption DEF Given, Kept, Inv, Locals
<1>2. \A t \in Token : Late(t)'
  BY <1>1, IncomingFilesAssumption DEF Late, Given, Kept, Data, Inv, Locals
<1>3. ASSUME NEW d \in Call PROVE Contents(d)'
  BY <1>1, SameContents DEF Kept, Inv, Locals
<1> QED
  BY <1>2, <1>3 DEF Data

\* The part of a download is still as it was created, or longer by strays.
LEMMA FinalIsFreeData == ASSUME Kept, NEW c \in Call, FinalIsFree(c) PROVE Data'
<1> USE DEF FinalIsFree, Goto, files, ui, Call
<1>1. \A t : Given(t) => Given(t)'
  BY IncomingFilesAssumption DEF Given, Kept, Inv, Locals
<1>2. \A t \in Token : Late(t)'
  BY <1>1, IncomingFilesAssumption DEF Late, Given, Kept, Data, Inv, Locals
<1>3. ASSUME NEW d \in Call PROVE Contents(d)'
  BY <1>1, SameContents DEF Kept, Inv, Locals
<1> QED
  BY <1>2, <1>3 DEF Data

\* The part is removed before the next candidate.
LEMMA FinalIsTakenData == ASSUME Kept, NEW c \in Call, FinalIsTaken(c) PROVE Data'
<1> USE DEF FinalIsTaken, Goto, files, ui, Call, Unlink, Drop
<1>1. \A t : Given(t) => Given(t)'
  BY IncomingFilesAssumption DEF Given, Kept, Inv, Locals
<1>2. \A t \in Token : Late(t)'
  BY <1>1, IncomingFilesAssumption DEF Late, Given, Kept, Data, Inv, Locals
<1>3. ASSUME NEW d \in Call PROVE Contents(d)'
  <2> SUFFICES ASSUME \A f \in DOMAIN disk' : f \in DOMAIN disk /\ disk'[f] = disk[f]
               PROVE  Contents(d)'
    BY UnlinkQuiet DEF Kept, Inv, Files
  <2> HIDE DEF Unlink
  <2> QED
    BY <1>1, SameContents DEF Kept, Inv, Locals
<1> QED
  BY <1>2, <1>3 DEF Data

\* A command that ends here has not saved anything.
LEMMA ReserveFailsData == ASSUME Kept, NEW c \in Call, ReserveFails(c) PROVE Data'
<1> USE DEF ReserveFails, Goto, files, ui, Call, Fails, Unlink, Drop
<1>1. \A t : Given(t) => Given(t)'
  BY IncomingFilesAssumption DEF Given, Kept, Inv, Locals
<1>2. \A t \in Token : Late(t)'
  BY <1>1, IncomingFilesAssumption DEF Late, Given, Kept, Data, Inv, Locals
<1>3. ASSUME NEW d \in Call PROVE Contents(d)'
  <2> SUFFICES ASSUME \A f \in DOMAIN disk' : f \in DOMAIN disk /\ disk'[f] = disk[f]
               PROVE  Contents(d)'
    BY UnlinkQuiet DEF Kept, Inv, Files
  <2> HIDE DEF Unlink
  <2> QED
    BY <1>1, SameContents DEF Kept, Inv, Locals
<1> QED
  BY <1>2, <1>3 DEF Data

\* The transfer comes into the map before it is ready.
LEMMA InsertTransferData == ASSUME Kept, NEW c \in Token, InsertTransfer(c) PROVE Data'
<1> USE DEF InsertTransfer, Goto, files, ui, Call, Put
<1>1. \A t : Given(t) => Given(t)'
  BY IncomingFilesAssumption DEF Given, Kept, Inv, Locals
<1>2. \A t \in Token : Late(t)'
  BY <1>1, IncomingFilesAssumption DEF Late, Given, Kept, Data, Inv, Locals
<1>3. ASSUME NEW d \in Call PROVE Contents(d)'
  BY <1>1, SameContents DEF Kept, Inv, Locals
<1> QED
  BY <1>2, <1>3 DEF Data

\* Only a transfer in the map takes a chunk; another one is given up.
LEMMA ReceiveChunkData == ASSUME Kept, NEW c \in Token, ReceiveChunk(c) PROVE Data'
<1> USE DEF ReceiveChunk, Goto, files, ui, Call, InOrder, ChainFails, CallClose
<1>1. \A t : Given(t) => Given(t)'
  BY IncomingFilesAssumption DEF Given, Kept, Inv, Locals
<1>2. \A t \in Token : Late(t)'
  BY <1>1, IncomingFilesAssumption DEF Late, Given, Kept, Data, Inv, Locals
<1>3. ASSUME NEW d \in Call PROVE Contents(d)'
  BY <1>1, SameContents DEF Kept, Inv, Locals
<1> QED
  BY <1>2, <1>3 DEF Data

\* From here on nobody writes for the transfer: its part is about to be verified.
LEMMA FinishReceiveData == ASSUME Kept, NEW c \in Token, FinishReceive(c) PROVE Data'
<1> USE DEF FinishReceive, Goto, files, ui, Call, Unlink, Drop
<1>1. \A t : Given(t) => Given(t)'
  BY IncomingFilesAssumption DEF Given, Kept, Inv, Locals
<1>2. \A t \in Token : Late(t)'
  BY <1>1, IncomingFilesAssumption DEF Late, Given, Kept, Data, Inv, Locals
<1>3. ASSUME NEW d \in Call PROVE Contents(d)'
  <2> SUFFICES ASSUME \A f \in DOMAIN disk' : f \in DOMAIN disk /\ disk'[f] = disk[f]
               PROVE  Contents(d)'
    BY UnlinkQuiet DEF Kept, Inv, Files
  <2> HIDE DEF Unlink
  <2> QED
    BY <1>1, SameContents DEF Kept, Inv, Locals
<1> QED
  BY <1>2, <1>3 DEF Data

\* The part goes, and with it what was wrong.
LEMMA VerifyFailsData == ASSUME Kept, NEW c \in Token, VerifyFails(c) PROVE Data'
<1> USE DEF VerifyFails, Goto, files, ui, Call, Fails, Unlink, Drop
<1>1. \A t : Given(t) => Given(t)'
  BY IncomingFilesAssumption DEF Given, Kept, Inv, Locals
<1>2. \A t \in Token : Late(t)'
  BY <1>1, IncomingFilesAssumption DEF Late, Given, Kept, Data, Inv, Locals
<1>3. ASSUME NEW d \in Call PROVE Contents(d)'
  <2> SUFFICES ASSUME \A f \in DOMAIN disk' : f \in DOMAIN disk /\ disk'[f] = disk[f]
               PROVE  Contents(d)'
    BY UnlinkQuiet DEF Kept, Inv, Files
  <2> HIDE DEF Unlink
  <2> QED
    BY <1>1, SameContents DEF Kept, Inv, Locals
<1> QED
  BY <1>2, <1>3 DEF Data

\* The part goes, and nothing is reported.
LEMMA SaveFailsData == ASSUME Kept, NEW c \in Saver, SaveFails(c) PROVE Data'
<1> USE DEF SaveFails, Goto, files, ui, Call, Fails, Unlink, Drop
<1>1. \A t : Given(t) => Given(t)'
  BY IncomingFilesAssumption DEF Given, Kept, Inv, Locals
<1>2. \A t \in Token : Late(t)'
  BY <1>1, IncomingFilesAssumption DEF Late, Given, Kept, Data, Inv, Locals
<1>3. ASSUME NEW d \in Call PROVE Contents(d)'
  <2> SUFFICES ASSUME \A f \in DOMAIN disk' : f \in DOMAIN disk /\ disk'[f] = disk[f]
               PROVE  Contents(d)'
    BY UnlinkQuiet DEF Kept, Inv, Files
  <2> HIDE DEF Unlink
  <2> QED
    BY <1>1, SameContents DEF Kept, Inv, Locals
<1> QED
  BY <1>2, <1>3 DEF Data

\* Whose transfer is taken was forgotten when the closing was called.
LEMMA CloseTakesData == ASSUME Kept, NEW c \in Token, CloseTakes(c) PROVE Data'
<1> USE DEF CloseTakes, Goto, files, ui, Call, Drop
<1>1. \A t : Given(t) => Given(t)'
  BY IncomingFilesAssumption DEF Given, Kept, Inv, Locals
<1>2. \A t \in Token : Late(t)'
  BY <1>1, IncomingFilesAssumption DEF Late, Given, Kept, Data, Inv, Locals
<1>3. ASSUME NEW d \in Call PROVE Contents(d)'
  BY <1>1, SameContents DEF Kept, Inv, Locals
<1> QED
  BY <1>2, <1>3 DEF Data

\* The name is freed; who still has the file open writes to nobody's.
LEMMA CloseRemovesData == ASSUME Kept, NEW c \in Token, CloseRemoves(c) PROVE Data'
<1> USE DEF CloseRemoves, Goto, files, ui, Call, Unlink, Drop
<1>1. \A t : Given(t) => Given(t)'
  BY IncomingFilesAssumption DEF Given, Kept, Inv, Locals
<1>2. \A t \in Token : Late(t)'
  BY <1>1, IncomingFilesAssumption DEF Late, Given, Kept, Data, Inv, Locals
<1>3. ASSUME NEW d \in Call PROVE Contents(d)'
  <2> SUFFICES ASSUME \A f \in DOMAIN disk' : f \in DOMAIN disk /\ disk'[f] = disk[f]
               PROVE  Contents(d)'
    BY UnlinkQuiet DEF Kept, Inv, Files
  <2> HIDE DEF Unlink
  <2> QED
    BY <1>1, SameContents DEF Kept, Inv, Locals
<1> QED
  BY <1>2, <1>3 DEF Data

\* The verified part waits to be copied.
LEMMA LinkUnsupportedData == ASSUME Kept, NEW c \in Call, LinkUnsupported(c) PROVE Data'
<1> USE DEF LinkUnsupported, Goto, files, ui, Call
<1>1. \A t : Given(t) => Given(t)'
  BY IncomingFilesAssumption DEF Given, Kept, Inv, Locals
<1>2. \A t \in Token : Late(t)'
  BY <1>1, IncomingFilesAssumption DEF Late, Given, Kept, Data, Inv, Locals
<1>3. ASSUME NEW d \in Call PROVE Contents(d)'
  BY <1>1, SameContents DEF Kept, Inv, Locals
<1> QED
  BY <1>2, <1>3 DEF Data

\* Neither the part nor the unfinished copy is reported.
LEMMA CommitFailsData == ASSUME Kept, NEW c \in Call, CommitFails(c) PROVE Data'
<1> USE DEF CommitFails, Goto, files, ui, Call, Fails, Unlink, Drop
<1>1. \A t : Given(t) => Given(t)'
  BY IncomingFilesAssumption DEF Given, Kept, Inv, Locals
<1>2. \A t \in Token : Late(t)'
  BY <1>1, IncomingFilesAssumption DEF Late, Given, Kept, Data, Inv, Locals
<1>3. ASSUME NEW d \in Call PROVE Contents(d)'
  <2> SUFFICES ASSUME \A f \in DOMAIN disk' : f \in DOMAIN disk /\ disk'[f] = disk[f]
               PROVE  Contents(d)'
    BY UnlinkQuiet DEF Kept, Inv, Files
  <2> HIDE DEF Unlink
  <2> QED
    BY <1>1, SameContents DEF Kept, Inv, Locals
<1> QED
  BY <1>2, <1>3 DEF Data

\* A new part is empty.
LEMMA ReservePartData == ASSUME Kept, NEW c \in Call, ReservePart(c) PROVE Data'
<1> USE DEF ReservePart, Goto, files, ui, Call, Create, Put
<1>1. \A t : Given(t) => Given(t)'
  BY IncomingFilesAssumption DEF Given, Kept, Inv, Locals
<1>2. \A t \in Token : Late(t)'
  BY <1>1, IncomingFilesAssumption DEF Late, Given, Kept, Data, Inv, Locals
<1>3. ASSUME NEW d \in Call PROVE Contents(d)'
  <2>1. CASE d # c
    <3>1. \A f \in DOMAIN disk' : f[1] = d => f \in DOMAIN disk /\ disk'[f] = disk[f]
      BY <2>1, Paths
    <3>2. at'[d] = at[d] /\ try'[d] = try[d] /\ saved' = saved
      BY <2>1 DEF Kept, Inv, Locals
    <3> QED
      BY <1>1, <3>1, <3>2, SameContents
  <2>2. CASE d = c
    <3> SUFFICES ASSUME NEW f, f = Made(c, PartOf(c)) PROVE OnlyGiven(f)'
      BY <2>2, FilesThere DEF Contents, Kept, There, PartOf, Made, Inv, Locals, OnlyGiven
    <3>1. disk'[f] = <<>>
      OBVIOUS
    <3> QED
      BY <3>1 DEF OnlyGiven
  <2> QED
    BY <2>1, <2>2
<1> QED
  BY <1>2, <1>3 DEF Data

\* A file of another program is nobody's download.
LEMMA OtherCreatesData == ASSUME Kept, NEW p \in Path, OtherCreates(p) PROVE Data'
<1> USE DEF OtherCreates, Goto, files, ui, Call, Create, Put
<1>1. \A t : Given(t) => Given(t)'
  BY IncomingFilesAssumption DEF Given, Kept, Inv, Locals
<1>2. \A t \in Token : Late(t)'
  BY <1>1, IncomingFilesAssumption DEF Late, Given, Kept, Data, Inv, Locals
<1>3. ASSUME NEW d \in Call PROVE Contents(d)'
  BY <1>1, SameContents, Paths DEF Kept, Inv, Locals
<1> QED
  BY <1>2, <1>3 DEF Data

\* The copy is another file; the part stays verified.
LEMMA CreateCopyData == ASSUME Kept, NEW c \in Call, CreateCopy(c) PROVE Data'
<1> USE DEF CreateCopy, Goto, files, ui, Call, Create, Put
<1>1. \A t : Given(t) => Given(t)'
  BY IncomingFilesAssumption DEF Given, Kept, Inv, Locals
<1>2. \A t \in Token : Late(t)'
  BY <1>1, IncomingFilesAssumption DEF Late, Given, Kept, Data, Inv, Locals
<1>3. ASSUME NEW d \in Call PROVE Contents(d)'
  <2>1. CASE d # c
    <3>1. \A f \in DOMAIN disk' : f[1] = d => f \in DOMAIN disk /\ disk'[f] = disk[f]
      BY <2>1, Paths
    <3>2. at'[d] = at[d] /\ try'[d] = try[d] /\ saved' = saved
      BY <2>1 DEF Kept, Inv, Locals
    <3> QED
      BY <1>1, <3>1, <3>2, SameContents
  <2>2. CASE d = c
    <3>1. WholeIn(c, Made(c, PartOf(c)))
      BY DEF Kept, Data, Contents
    <3>0. /\ at'[c] = "copied" /\ c \notin DOMAIN saved'
          /\ Made(c, PartOf(c))' = Made(c, PartOf(c))
      BY FilesThere DEF Kept, There, PartOf, Made, Inv, Locals
    <3>00. Contents(c)' <=> WholeIn(c, Made(c, PartOf(c)))'
      BY <3>0 DEF Contents
    <3> SUFFICES ASSUME NEW f, f = Made(c, PartOf(c)) PROVE WholeIn(c, f)'
      BY <2>2, <3>0, <3>00 DEF WholeIn
    <3>2. f \in DOMAIN disk
      BY FilesThere DEF Kept, There, Held
    <3>3. f[2] # FinalOf(c) /\ Made(c, FinalOf(c))[2] = FinalOf(c)
      BY Paths DEF PartOf, FinalOf
    <3>4. disk'[f] = disk[f]
      BY <3>2, <3>3
    <3> QED
      BY <1>1, <3>1, <3>4 DEF WholeIn
  <2> QED
    BY <2>1, <2>2
<1> QED
  BY <1>2, <1>3 DEF Data

\* The name is that of the transfer's own part, or the transfer was given up.
LEMMA OpenPartData == ASSUME Kept, NEW c \in Token, OpenPart(c) PROVE Data'
<1> USE DEF OpenPart, Goto, files, ui, Call, Put
<1>1. \A t : Given(t) => Given(t)'
  BY IncomingFilesAssumption DEF Given, Kept, Inv, Locals
<1>2. \A t \in Token : Late(t)'
  <2>1. names[PartOf(c)][1] = c \/ Given(c)
    <3>1. CASE c \in DOMAIN transfers
      BY <3>1, Paths DEF Kept, Inv, Folder, PartIsHeld, Holds
    <3>2. CASE c \notin DOMAIN transfers
      BY <3>2 DEF Kept, Inv, Folder, FinalIsOwn, Data, Late, Given
    <3> QED
      BY <3>1, <3>2
  <2> SUFFICES ASSUME NEW t \in Token PROVE Late(t)'
    OBVIOUS
  <2>2. Late(t)
    BY DEF Kept, Data
  <2>3. CASE t = c
    BY <1>1, <2>1, <2>2, <2>3 DEF Late, Kept, Inv, Locals
  <2>4. CASE t # c
    <3>1. at'[t] = at[t] /\ (at[t] = "opened" => handle'[t] = handle[t])
      BY <2>4 DEF Kept, Inv, Locals, Order
    <3> QED
      BY <1>1, <2>2, <3>1 DEF Late
  <2> QED
    BY <2>3, <2>4
<1>3. ASSUME NEW d \in Call PROVE Contents(d)'
  BY <1>1, SameContents DEF Kept, Inv, Locals
<1> QED
  BY <1>2, <1>3 DEF Data

\* The next chunk of c goes to the file c has open.
LEMMA WrittenContents ==
  ASSUME Kept, NEW c \in Token, NEW x \in Chunk, x[1] = c, NEW d \in Call,
         at[c] = "opened", Write(handle[c], x), UNCHANGED <<names, try, saved>>,
         \E step \in {"ready", "done"} : Goto(c, step),
         \A t : Given(t) => Given(t)'
  PROVE  Contents(d)'
<1> USE DEF Call
<1>1. at'[d] = at[d] \/ (d = c /\ at'[d] \in {"ready", "done"})
  BY DEF Kept, Inv, Locals, Goto
<1>2. CASE d = c
  BY <1>1, <1>2, FilesThere, IncomingFilesAssumption DEF Kept, There, Contents
<1>3. CASE d # c
  <2>1. ASSUME NEW f \in DOMAIN disk', f[1] = d
        PROVE  /\ f \in DOMAIN disk
               /\ \/ disk'[f] = disk[f]
                  \/ \E y \in Chunk : Given(y[1])' /\ disk'[f] = Append(disk[f], y)
    <3>1. f \in DOMAIN disk /\ (f # handle[c] => disk'[f] = disk[f])
      BY DEF Write
    <3>2. CASE f = handle[c]
      <4>1. Given(c)'
        BY <1>3, <2>1, <3>2 DEF Kept, Data, Late
      <4>2. disk'[f] = Append(disk[f], x)
        BY <3>1, <3>2 DEF Write
      <4> QED
        BY <3>1, <4>1, <4>2
    <3> QED
      BY <3>1, <3>2
  <2> QED
    BY <1>1, <1>3, <2>1, SameContents
<1> QED
  BY <1>2, <1>3

\* The chunk goes to the transfer's own part, or to a file it was given up over.
LEMMA AppendChunkData == ASSUME Kept, NEW c \in Token, AppendChunk(c) PROVE Data'
<1> USE DEF AppendChunk, Goto, files, ui, Call, Drop
<1>1. \A t : Given(t) => Given(t)'
  BY IncomingFilesAssumption DEF Given, Kept, Inv, Locals
<1>2. \A t \in Token : Late(t)'
  BY <1>1, IncomingFilesAssumption DEF Late, Given, Kept, Data, Inv, Locals, Order
<1>3. ASSUME NEW d \in Call PROVE Contents(d)'
  <2>1. PICK x \in Read(c, received[c]) : Write(handle[c], x)
    OBVIOUS
  <2>2. x \in Chunk /\ x[1] = c
    BY IncomingFilesAssumption DEF Read, Chunk, Kept, Inv, Locals
  <2> QED
    BY <1>1, <2>1, <2>2, WrittenContents
<1> QED
  BY <1>2, <1>3 DEF Data

\* What was torn goes where the chunk would have gone.
LEMMA WriteFailsData == ASSUME Kept, NEW c \in Token, WriteFails(c) PROVE Data'
<1> USE DEF WriteFails, Goto, files, ui, Call, Drop, ChainFails, CallClose
<1>1. \A t : Given(t) => Given(t)'
  BY IncomingFilesAssumption DEF Given, Kept, Inv, Locals
<1>2. \A t \in Token : Late(t)'
  BY <1>1, IncomingFilesAssumption DEF Late, Given, Kept, Data, Inv, Locals, Order
<1>3. ASSUME NEW d \in Call PROVE Contents(d)'
  <2>1. CASE UNCHANGED disk
    BY <1>1, <2>1, SameContents DEF Kept, Inv, Locals
  <2>2. CASE at[c] = "opened" /\ Write(handle[c], <<c, 0>>)
    <3>1. <<c, 0>> \in Chunk /\ <<c, 0>>[1] = c
      BY IncomingFilesAssumption DEF Chunk
    <3> QED
      BY <1>1, <2>2, <3>1, WrittenContents
  <2> QED
    BY <2>1, <2>2
<1> QED
  BY <1>2, <1>3 DEF Data

\* The part is what was offered.
LEMMA VerifyData == ASSUME Kept, NEW c \in Token, Verify(c) PROVE Data'
<1> USE DEF Verify, Goto, files, ui, Call, HashMatches
<1>1. \A t : Given(t) => Given(t)'
  BY IncomingFilesAssumption DEF Given, Kept, Inv, Locals
<1>2. \A t \in Token : Late(t)'
  BY <1>1, IncomingFilesAssumption DEF Late, Given, Kept, Data, Inv, Locals
<1>3. ASSUME NEW d \in Call PROVE Contents(d)'
  <2>1. CASE d # c
    <3>1. \A f \in DOMAIN disk' : f[1] = d => f \in DOMAIN disk /\ disk'[f] = disk[f]
      BY <2>1, Paths
    <3>2. at'[d] = at[d] /\ try'[d] = try[d] /\ saved' = saved
      BY <2>1 DEF Kept, Inv, Locals
    <3> QED
      BY <1>1, <3>1, <3>2, SameContents
  <2>2. CASE d = c
    <3>0. /\ at'[c] = "committing" /\ c \notin DOMAIN saved'
          /\ Made(c, PartOf(c))' = Made(c, PartOf(c))
      BY FilesThere DEF Kept, There, PartOf, Made, Inv, Locals
    <3>00. Contents(c)' <=> WholeIn(c, Made(c, PartOf(c)))'
      BY <3>0 DEF Contents
    <3> SUFFICES ASSUME NEW f, f = Made(c, PartOf(c)) PROVE WholeIn(c, f)'
      BY <2>2, <3>0, <3>00 DEF WholeIn
    <3>1. names[PartOf(c)] = f
      BY Paths DEF Kept, Inv, Folder, PartIsHeld, Holds, Held
    <3>2. disk'[f] = Whole(c)
      BY <3>1
    <3>3. Len(Whole(c)) = Size /\ \A i \in 1 .. Size : Whole(c)[i] = <<c, i>>
      BY IncomingFilesAssumption DEF Whole
    <3> QED
      BY <3>2, <3>3, IncomingFilesAssumption DEF WholeIn
  <2> QED
    BY <2>1, <2>2
<1> QED
  BY <1>2, <1>3 DEF Data

\* What was downloaded replaces the start of the part; behind it are strays at most.
LEMMA SaveDataData == ASSUME Kept, NEW c \in Saver, SaveData(c) PROVE Data'
<1> USE DEF SaveData, Goto, files, ui, Call
<1>1. \A t : Given(t) => Given(t)'
  BY IncomingFilesAssumption DEF Given, Kept, Inv, Locals
<1>2. \A t \in Token : Late(t)'
  BY <1>1, IncomingFilesAssumption DEF Late, Given, Kept, Data, Inv, Locals
<1>3. ASSUME NEW d \in Call PROVE Contents(d)'
  <2>1. CASE d # c
    <3>1. \A f \in DOMAIN disk' : f[1] = d => f \in DOMAIN disk /\ disk'[f] = disk[f]
      BY <2>1, Paths
    <3>2. at'[d] = at[d] /\ try'[d] = try[d] /\ saved' = saved
      BY <2>1 DEF Kept, Inv, Locals
    <3> QED
      BY <1>1, <3>1, <3>2, SameContents
  <2>2. CASE d = c
    <3>0. /\ at'[c] = "committing" /\ c \notin DOMAIN saved'
          /\ Made(c, PartOf(c))' = Made(c, PartOf(c))
      BY FilesThere DEF Kept, There, PartOf, Made, Inv, Locals
    <3>00. Contents(c)' <=> WholeIn(c, Made(c, PartOf(c)))'
      BY <3>0 DEF Contents
    <3> SUFFICES ASSUME NEW f, f = Made(c, PartOf(c)) PROVE WholeIn(c, f)'
      BY <2>2, <3>0, <3>00 DEF WholeIn
    <3>1. f \in DOMAIN disk /\ OnlyGiven(f) /\ disk[f] \in Seq(Chunk)
      BY FilesThere DEF Kept, There, Held, Data, Contents, Inv, Files
    <3>2. disk'[f] = Whole(c) \o SubSeq(disk[f], Size + 1, Len(disk[f]))
      BY <3>1
    <3>3. /\ Whole(c) \in Seq(Chunk)
          /\ Len(Whole(c)) = Size /\ \A i \in 1 .. Size : Whole(c)[i] = <<c, i>>
      BY IncomingFilesAssumption DEF Whole, Chunk
    <3>4. /\ Len(disk'[f]) \in Nat /\ Len(disk'[f]) >= Size
          /\ \A i \in 1 .. Len(disk'[f]) :
               IF i <= Size THEN disk'[f][i] = Whole(c)[i]
               ELSE i \in 1 .. Len(disk[f]) /\ disk'[f][i] = disk[f][i]
      <4> DEFINE x == disk'[f]
                 w == Whole(c)
                 s == disk[f]
      <4>1. x = w \o SubSeq(s, Len(w) + 1, Len(s)) /\ w \in Seq(Chunk) /\ s \in Seq(Chunk)
        BY <3>1, <3>2, <3>3
      <4> HIDE DEF x, w, s
      <4>2. /\ Len(x) \in Nat /\ Len(x) >= Len(w)
            /\ \A i \in 1 .. Len(x) : IF i <= Len(w) THEN x[i] = w[i]
                                      ELSE i \in 1 .. Len(s) /\ x[i] = s[i]
        BY <4>1, Overwritten
      <4> QED
        BY <3>3, <4>2 DEF x, w, s
    <3>5. ASSUME NEW i \in 1 .. Len(disk'[f])
          PROVE  IF i <= Size THEN disk'[f][i] = <<c, i>> ELSE Given(disk[f][i][1])'
      <4>1. CASE i <= Size
        BY <3>3, <3>4, <4>1, IncomingFilesAssumption
      <4>2. CASE ~(i <= Size)
        <5>1. Given(disk[f][i][1]) /\ disk'[f][i] = disk[f][i]
          BY <3>1, <3>4, <4>2 DEF OnlyGiven
        <5> QED
          BY <1>1, <4>2, <5>1
      <4> QED
        BY <4>1, <4>2
    <3> QED
      BY <3>4, <3>5 DEF WholeIn
  <2> QED
    BY <2>1, <2>2
<1> QED
  BY <1>2, <1>3 DEF Data

\* The final name is that of the verified part.
LEMMA LinkData == ASSUME Kept, NEW c \in Call, Link(c) PROVE Data'
<1> USE DEF Link, Goto, files, ui, Call, Put
<1>1. \A t : Given(t) => Given(t)'
  BY IncomingFilesAssumption DEF Given, Kept, Inv, Locals
<1>2. \A t \in Token : Late(t)'
  BY <1>1, IncomingFilesAssumption DEF Late, Given, Kept, Data, Inv, Locals
<1>3. ASSUME NEW d \in Call PROVE Contents(d)'
  <2>1. CASE d # c
    <3>1. \A f \in DOMAIN disk' : f[1] = d => f \in DOMAIN disk /\ disk'[f] = disk[f]
      BY <2>1, Paths
    <3>2. at'[d] = at[d] /\ try'[d] = try[d] /\ saved' = saved
      BY <2>1 DEF Kept, Inv, Locals
    <3> QED
      BY <1>1, <3>1, <3>2, SameContents
  <2>2. CASE d = c
    <3>1. WholeIn(c, Made(c, PartOf(c))) /\ names[PartOf(c)] = Made(c, PartOf(c))
      BY DEF Kept, Data, Contents, Inv, Folder, PartIsHeld, Holds, Held
    <3>2. names'[FinalOf(c)'] = Made(c, PartOf(c))
      BY <3>1 DEF FinalOf
    <3> SUFFICES WholeIn(c, names[FinalOf(c)])'
      BY <2>2, FilesThere DEF Contents, Kept, There, Inv, Locals
    <3> QED
      BY <1>1, <3>1, <3>2 DEF WholeIn
  <2> QED
    BY <2>1, <2>2
<1> QED
  BY <1>2, <1>3 DEF Data

\* The copy is what the part is now.
LEMMA CopyDataData == ASSUME Kept, NEW c \in Call, CopyData(c) PROVE Data'
<1> USE DEF CopyData, Goto, files, ui, Call
<1>1. \A t : Given(t) => Given(t)'
  BY IncomingFilesAssumption DEF Given, Kept, Inv, Locals
<1>2. \A t \in Token : Late(t)'
  BY <1>1, IncomingFilesAssumption DEF Late, Given, Kept, Data, Inv, Locals
<1>3. ASSUME NEW d \in Call PROVE Contents(d)'
  <2>1. CASE d # c
    <3>0. names[FinalOf(c)][1] = c
      BY Paths DEF Kept, Inv, Folder, FinalIsOwn
    <3>1. \A f \in DOMAIN disk' : f[1] = d => f \in DOMAIN disk /\ disk'[f] = disk[f]
      BY <2>1, <3>0
    <3>2. at'[d] = at[d] /\ try'[d] = try[d] /\ saved' = saved
      BY <2>1 DEF Kept, Inv, Locals
    <3> QED
      BY <1>1, <3>1, <3>2, SameContents
  <2>2. CASE d = c
    <3>1. /\ WholeIn(c, Made(c, PartOf(c))) /\ names[PartOf(c)] = Made(c, PartOf(c))
          /\ names[FinalOf(c)] \in DOMAIN disk
      BY DEF Kept, Data, Contents, Inv, Files, Folder, PartIsHeld, FinalIsOwn, Holds, Held, Exists
    <3>2. disk'[names'[FinalOf(c)']] = disk[Made(c, PartOf(c))]
      BY <3>1 DEF FinalOf
    <3> SUFFICES WholeIn(c, names[FinalOf(c)])'
      BY <2>2, FilesThere DEF Contents, Kept, There, Inv, Locals
    <3> QED
      BY <1>1, <3>1, <3>2 DEF WholeIn
  <2> QED
    BY <2>1, <2>2
<1> QED
  BY <1>2, <1>3 DEF Data

\* The file under the final name is reported, and was verified.
LEMMA RemovePartData == ASSUME Kept, NEW c \in Call, RemovePart(c) PROVE Data'
<1> USE DEF RemovePart, Goto, files, ui, Call, Put
<1>1. \A t : Given(t) => Given(t)'
  BY IncomingFilesAssumption DEF Given, Kept, Inv, Locals
<1>2. \A t \in Token : Late(t)'
  BY <1>1, IncomingFilesAssumption DEF Late, Given, Kept, Data, Inv, Locals
<1>3. ASSUME NEW d \in Call PROVE Contents(d)'
  <2> SUFFICES ASSUME \A f \in DOMAIN disk' : f \in DOMAIN disk /\ disk'[f] = disk[f]
               PROVE  Contents(d)'
    BY UnlinkQuiet DEF Kept
  <2>1. CASE d # c
    BY <1>1, <2>1, SameContents DEF Kept, Inv, Locals
  <2>2. CASE d = c
    <3>1. WholeIn(c, names[FinalOf(c)])
      BY DEF Kept, Data, Contents
    <3> SUFFICES ASSUME NEW f, f = names[FinalOf(c)] PROVE WholeIn(c, f)'
      BY <2>2 DEF Contents, Kept, Inv, Locals, WholeIn
    <3>2. f \in DOMAIN disk'
      BY DEF Kept, Inv, Files
    <3>3. disk'[f] = disk[f]
      BY <3>2
    <3> QED
      BY <1>1, <3>1, <3>3 DEF WholeIn
  <2> QED
    BY <2>1, <2>2
<1> QED
  BY <1>2, <1>3 DEF Data

\* Every step keeps the contents right.
LEMMA NextData == ASSUME Kept, Next PROVE Data'
<1>1. ASSUME NEW c \in Call, Reserve(c) \/ Commit(c) PROVE Data'
  BY <1>1, ReservePartData, PartIsTakenData, FinalIsFreeData, FinalIsTakenData, ReserveFailsData,
     LinkData, LinkUnsupportedData, CreateCopyData, CopyDataData, CommitFailsData, RemovePartData
  DEF Reserve, Commit
<1>2. ASSUME NEW c \in Saver, SaveRelayFile(c) \/ SaveData(c) \/ SaveFails(c) PROVE Data'
  BY <1>2, SaveRelayFileData, SaveDataData, SaveFailsData
<1>3. ASSUME NEW t \in Token, Receive(t) \/ Close(t) PROVE Data'
  BY <1>3, InsertTransferData, AcceptedData, OpenPartData, AppendChunkData, WriteFailsData,
     CloseTakesData, CloseRemovesData, RejectEndsData
  DEF Receive, Close
<1>4. ASSUME NEW t \in Token,
             \/ AcceptFile(t) \/ RejectFile(t) \/ SessionEnds(t) \/ ConnectionFails(t)
             \/ ReceiveChunk(t) \/ FinishReceive(t) \/ Verify(t) \/ VerifyFails(t)
      PROVE  Data'
  BY <1>4, AcceptFileData, RejectFileData, SessionEndsData, ConnectionFailsData, ReceiveChunkData,
     FinishReceiveData, VerifyData, VerifyFailsData
<1> QED
  BY <1>1, <1>2, <1>3, <1>4, StopData, OtherCreatesData DEF Next

-----------------------------------------------------------------------------
\* What is reported as saved is whole, and only transfers that were given up while they wrote
\* may have added to it (lib.rs, write_rtc_file_chunk and close_rtc_file).
THEOREM SavedFilesAreVerified == Spec => []SavedIsVerified
<1>1. Init => Data
  BY IncomingFilesAssumption DEF Init, Data, Late, Contents, Call
<1>2. Inv /\ Data /\ [Next]_vars /\ Inv' => Data'
  <2> SUFFICES ASSUME Inv, Data, UNCHANGED vars PROVE Data'
    BY NextInv, NextData DEF Kept
  <2> QED
    <3> USE DEF vars, files, ui
    <3>1. \A t : Given(t)' <=> Given(t)
      BY DEF Given
    <3>2. \A t \in Token : Late(t)'
      BY <3>1 DEF Data, Late
    <3>3. ASSUME NEW c \in Call PROVE Contents(c)'
      <4>1. Made(c, PartOf(c))' = Made(c, PartOf(c)) /\ FinalOf(c)' = FinalOf(c)
        BY DEF Made, PartOf, FinalOf
      <4>2. \A f : (OnlyGiven(f)' <=> OnlyGiven(f)) /\ (WholeIn(c, f)' <=> WholeIn(c, f))
        BY <3>1 DEF OnlyGiven, WholeIn
      <4> QED
        BY ZenonT(60), <3>1, <4>1, <4>2 DEF Data, Contents, OnlyGiven, WholeIn
    <3> QED
      BY <3>2, <3>3 DEF Data
<1>3. Inv /\ Data => SavedIsVerified
  <2> SUFFICES ASSUME Inv, Data, NEW c \in DOMAIN saved, NEW data, data = disk[saved[c]]
               PROVE  /\ Len(data) >= Size /\ SubSeq(data, 1, Size) = Whole(c)
                      /\ \A i \in Size + 1 .. Len(data) :
                           /\ data[i][1] # c /\ data[i][1] \in Token
                           /\ data[i][1] \notin DOMAIN saved /\ data[i][1] \notin known
    BY DEF SavedIsVerified
  <2>1. c \in Call /\ data \in Seq(Chunk) /\ WholeIn(c, saved[c])
    BY DEF Inv, Files, Data, Contents
  <2>2. Len(data) \in Nat /\ Len(data) >= Size /\ Size \in Nat
    BY <2>1, IncomingFilesAssumption DEF WholeIn
  <2>3. \A i \in 1 .. Size : data[i] = <<c, i>> /\ <<c, i>> \in Chunk
    BY <2>1, <2>2 DEF WholeIn, Chunk
  <2>4. SubSeq(data, 1, Size) = Whole(c)
    <3>0. 1 \in Int /\ Size \in Int /\ \A i \in 1 .. Size : data[i] \in Chunk
      <4>1. \A i \in 1 .. Size : i \in 1 .. Len(data)
        BY <2>2
      <4> QED
        BY <2>1, <2>2, <4>1
    <3>1. /\ SubSeq(data, 1, Size) \in Seq(Chunk)
          /\ Len(SubSeq(data, 1, Size)) = IF 1 <= Size THEN Size - 1 + 1 ELSE 0
          /\ \A i \in 1 .. Size - 1 + 1 : SubSeq(data, 1, Size)[i] = data[1 + i - 1]
      BY <3>0, SubSeqProperties
    <3>2. /\ Len(SubSeq(data, 1, Size)) = Size
          /\ \A i \in 1 .. Size : SubSeq(data, 1, Size)[i] = data[i]
      BY <2>2, <3>1
    <3>3. /\ Whole(c) \in Seq(Chunk) /\ Len(Whole(c)) = Size
          /\ \A i \in 1 .. Size : Whole(c)[i] = <<c, i>>
      BY <2>2, <2>3 DEF Whole
    <3> QED
      <4>1. \A i \in 1 .. Len(Whole(c)) : SubSeq(data, 1, Size)[i] = Whole(c)[i]
        BY <2>3, <3>2, <3>3
      <4> QED
        BY <3>1, <3>2, <3>3, <4>1, SeqEqual
  <2>5. ASSUME NEW i \in Size + 1 .. Len(data)
        PROVE  /\ data[i][1] # c /\ data[i][1] \in Token
               /\ data[i][1] \notin DOMAIN saved /\ data[i][1] \notin known
    <3>1. i \in 1 .. Len(data) /\ ~(i <= Size)
      BY <2>2
    <3> QED
      BY <2>1, <3>1 DEF WholeIn, Given
  <2> QED
    BY <2>2, <2>4, <2>5
<1> QED
  BY <1>1, <1>2, <1>3, IncomingFilesInvariant, PTL DEF Spec
=============================================================================
