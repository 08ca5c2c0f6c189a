------------------------------ MODULE SideFiles ------------------------------
(***************************************************************************)
(* The store file and the -wal beside it, as commands open, check, use and *)
(* close them and are stopped hard, and what a refusal of a damaged store  *)
(* says (service/store.py: checked_at_rest, _partly_folded, __init__,      *)
(* close; service/cli.py: open_store, _damaged).  What SQLite does with    *)
(* the two files is modelled as its documentation of WAL mode gives it.    *)
(*                                                                         *)
(* A page is told by the commit that wrote it, 0 for the empty store's.    *)
(***************************************************************************)
EXTENDS Integers, Sequences, FiniteSets, FiniteSetsExt, Functions

CONSTANTS Processes,    \* commands, a service among them; each opens the store over and over
          Pages,        \* page numbers
          Damaged,      \* what a damaged page holds
          WalCap,       \* CLOSE_WAL_CAP, in commits
          MaxTries,     \* how many tries fit in CLOSE_TRIES_MS
          MaxCommits, MaxStops, MaxDamages

ASSUME SideFilesAssumption ==
    /\ Pages \subseteq Nat /\ Pages # {} /\ IsFiniteSet(Pages)
    /\ Damaged \notin Int /\ WalCap \in Nat /\ MaxTries \in Nat
    /\ MaxCommits \in Nat /\ MaxStops \in Nat /\ MaxDamages \in Nat

VARIABLES file,       \* its pages
          wal,        \* the -wal: commits, [pages, version, bad: pages whose frames are damaged]
          folded,     \* how many of them SQLite knows to be in the file
          history,    \* observed: the pages each commit since the last restore wrote
          act,        \* each process
          told,       \* the last refusal of a damaged store
          verdict,    \* what integrity_check says of pages of several states, once asked
          spoilt,     \* observed: damage since the last restore
          stops, damages

files == <<file, wal, folded>>
vars == <<files, history, act, told, verdict, spoilt, stops, damages>>

NoReport == [refused |-> FALSE]
NoRead == -1
Idle == [at |-> "idle", reads |-> FALSE, left |-> FALSE, keepWal |-> FALSE, found |-> FALSE,
         mark |-> NoRead, state |-> 0, again |-> FALSE, tries |-> 0]

-----------------------------------------------------------------------------
(* SQLite: what a connection reads, and what a fold writes.                *)

\* Commits up to the first frame whose checksum does not hold.
ReadableLen(w) == Max({n \in 0..Len(w) : \A i \in 1..n : w[i].bad = {}})

\* The last of the first n commits that wrote page p, or 0.
Latest(w, n, p) == Max({0} \cup {i \in 1..n : p \in w[i].pages})

View(f, w, n) ==
    [p \in Pages |-> IF Latest(w, n, p) = 0 THEN f[p] ELSE w[Latest(w, n, p)].version]

\* A fold up to commit n goes by page number, and may be stopped after page `last`.
FoldedTo(n, last) ==
    [p \in Pages |->
        LET i == Latest(wal, ReadableLen(wal), p)
        IN  IF p <= last /\ i \in 1..n THEN wal[i].version ELSE file[p]]

State(n) == [p \in Pages |-> Max({0} \cup {i \in 1..n : p \in history[i]})]

Mixed(pages) == Damaged \notin Range(pages) /\ \A n \in 0..Len(history) : pages # State(n)

\* integrity_check: a committed state passes, a damaged page fails, pages of several states
\* may do either, and always the same.
Checks(pages) ==
    IF pages \in DOMAIN verdict THEN {verdict[pages]}
    ELSE IF Mixed(pages) THEN BOOLEAN
    ELSE {Damaged \notin Range(pages)}

Asked(says) ==
    verdict' = [pages \in DOMAIN verdict \cup {q \in DOMAIN says : Mixed(q)} |->
                   IF pages \in DOMAIN verdict THEN verdict[pages] ELSE says[pages]]

\* The -wal is read up to what every other process's open read may see.
FoldsUpTo(p) ==
    Min({ReadableLen(wal)} \cup {act[q].mark : q \in {r \in Processes \ {p} : act[r].mark # NoRead}})

NoReadBeside(p) == \A q \in Processes \ {p} : act[q].mark = NoRead
LastOpen(p) == \A q \in Processes \ {p} : act[q].at = "idle"

\* The last connection to close folds all and removes the -wal, unless it was told not to.
LastClose(p, keeps) ==
    IF LastOpen(p) /\ ~keeps
    THEN /\ file' = FoldedTo(ReadableLen(wal), Max(Pages))
         /\ wal' = <<>> /\ folded' = 0
    ELSE UNCHANGED files

-----------------------------------------------------------------------------
(* What the store makes of a file at rest.                                 *)

HoldsWal == wal # <<>>

\* Mutant: only a page's latest copy is looked for in the file.
PartlyFolded_LatestOnly ==
    LET latest(p) == Latest(wal, Len(wal), p)
        holds(p) == latest(p) # 0 /\ p \notin wal[latest(p)].bad /\ file[p] = wal[latest(p)].version
    IN  \E p, q \in Pages : holds(p) /\ latest(q) # 0 /\ ~holds(q)

\* Some page is in the file as one of its copies in the -wal, and some is not as its latest.
\* The frames' checksums are not looked at.
PartlyFolded ==
    LET holds(p, i) == p \in wal[i].pages \ wal[i].bad /\ file[p] = wal[i].version
        latest(p) == Latest(wal, Len(wal), p)
    IN  /\ \E p \in Pages : \E i \in DOMAIN wal : holds(p, i)
        /\ \E p \in Pages : latest(p) # 0 /\ ~holds(p, latest(p))

\* checked_at_rest found the store damaged: what AtRest holds.
Report(left, alone) ==
    [refused |-> TRUE, walKept |-> left, fileAlonePasses |-> left /\ alone,
     partlyFolded |-> left /\ ~alone /\ PartlyFolded]

\* Mutant: the line does not say that the side files go aside with the file.
MovesWalAside_Never(report) == FALSE

\* What the line tells to move aside before a good copy is put where the file was.
MovesWalAside(report) == report.walKept

\* The line says where the damage is: in the file, in the -wal only, or that it cannot tell.
SaysWal(report) == report.refused /\ report.walKept /\ report.fileAlonePasses
CannotTell(report) == report.refused /\ report.walKept /\ report.partlyFolded
SaysFile(report) == report.refused /\ ~SaysWal(report) /\ ~CannotTell(report)

-----------------------------------------------------------------------------
Init ==
    /\ file = [p \in Pages |-> 0]
    /\ wal = <<>> /\ folded = 0 /\ history = <<>>
    /\ act = [p \in Processes |-> Idle]
    /\ told = NoReport /\ verdict = <<>> /\ spoilt = FALSE /\ stops = 0 /\ damages = 0

Goes(p, place) == act' = [act EXCEPT ![p].at = place]
GoesLast(p) == act' = [act EXCEPT ![p].at = "last", ![p].again = FALSE, ![p].tries = 0]
Ends(p) == act' = [act EXCEPT ![p] = Idle]

\* open_store on an existing file, for reads only or not: the look for a -wal, then the
\* check's connection.  The first connection to a file builds the index of its -wal again.
Begin(p, reads) ==
    /\ act[p].at = "idle"
    /\ act' = [act EXCEPT ![p] = [Idle EXCEPT !.at = "check", !.reads = reads,
                                              !.left = HoldsWal]]
    /\ folded' = IF LastOpen(p) THEN 0 ELSE folded
    /\ UNCHANGED <<file, wal, history, told, verdict, spoilt, stops, damages>>

Check(p) ==
    /\ act[p].at = "check"
    /\ LET read == View(file, wal, ReadableLen(wal))
       IN  \E says \in [{read, file} -> BOOLEAN] :
              /\ \A pages \in {read, file} : says[pages] \in Checks(pages)
              /\ IF says[read]
                 THEN Goes(p, "open") /\ Asked([pages \in {read} |-> TRUE]) /\ UNCHANGED told
                 ELSE /\ told' = Report(act[p].left, says[file])
                      /\ Goes(p, "refused") /\ Asked(says)
    /\ UNCHANGED <<files, history, spoilt, stops, damages>>

\* Mutant: the check's connection closes as any other does.
RefusedKeeps_Never(p) == FALSE

\* NO_CKPT_ON_CLOSE, set when a -wal was there.
RefusedKeeps(p) == act[p].left

Refused(p) ==
    /\ act[p].at = "refused"
    /\ LastClose(p, RefusedKeeps(p))
    /\ Ends(p)
    /\ UNCHANGED <<history, told, verdict, spoilt, stops, damages>>

\* Mutant: a store opened for reads only folds the -wal it found.
KeepsWal_Never(p) == FALSE

KeepsWal(p) == act[p].reads /\ HoldsWal

\* Store(), while the check's connection is still open.
Open(p) ==
    /\ act[p].at = "open"
    /\ act' = [act EXCEPT ![p] = [Idle EXCEPT !.at = "using", !.reads = act[p].reads,
                                              !.keepWal = KeepsWal(p),
                                              !.found = act[p].reads /\ HoldsWal]]
    /\ UNCHANGED <<files, history, told, verdict, spoilt, stops, damages>>

Read(p) ==
    /\ act[p].at = "using" /\ act[p].mark = NoRead
    /\ act' = [act EXCEPT ![p].mark = ReadableLen(wal), ![p].state = Len(history)]
    /\ UNCHANGED <<files, history, told, verdict, spoilt, stops, damages>>

EndRead(p) ==
    /\ act[p].mark # NoRead
    /\ act' = [act EXCEPT ![p].mark = NoRead, ![p].state = 0]
    /\ UNCHANGED <<files, history, told, verdict, spoilt, stops, damages>>

\* A commit starts the -wal over once all of it is in the file and no read uses it.
Commit(p, pages) ==
    /\ act[p].at = "using" /\ ~act[p].reads /\ ~spoilt
    /\ Len(history) < MaxCommits
    /\ LET commit == [pages |-> pages, version |-> Len(history) + 1, bad |-> {}]
       IN  IF wal # <<>> /\ folded = Len(wal) /\ \A q \in Processes : act[q].mark = NoRead
           THEN wal' = <<commit>> /\ folded' = 0
           ELSE wal' = Append(wal, commit) /\ UNCHANGED folded
    /\ history' = Append(history, pages)
    /\ UNCHANGED <<file, act, told, verdict, spoilt, stops, damages>>

Fold(p) ==
    /\ file' = FoldedTo(FoldsUpTo(p), Max(Pages))
    /\ folded' = FoldsUpTo(p)

\* The store's own checkpoint, while it is open.
Checkpoint(p) ==
    /\ act[p].at = "using" /\ ~act[p].reads /\ act[p].mark = NoRead
    /\ Fold(p)
    /\ UNCHANGED <<wal, history, act, told, verdict, spoilt, stops, damages>>

-----------------------------------------------------------------------------
(* close: the reading connections, PASSIVE, TRUNCATE and more tries of it  *)
(* when the -wal is past its cap, then the writing connection.             *)

\* Mutant: the reading connections stay open.
ReadsClosed_Not(a) == a

ReadsClosed(a) == [a EXCEPT !.mark = NoRead, !.state = 0]

Close(p) ==
    /\ act[p].at = "using"
    /\ act' = [act EXCEPT ![p] =
                  [ReadsClosed(@) EXCEPT !.at = IF act[p].reads THEN "last" ELSE "passive"]]
    /\ UNCHANGED <<files, history, told, verdict, spoilt, stops, damages>>

Passive(p) ==
    /\ act[p].at = "passive"
    /\ Fold(p)
    /\ act' = [act EXCEPT ![p].at = "truncate", ![p].again = Len(wal) > WalCap]
    /\ UNCHANGED <<wal, history, told, verdict, spoilt, stops, damages>>

Truncate(p) ==
    /\ act[p].at = "truncate" /\ NoReadBeside(p)
    /\ file' = FoldedTo(ReadableLen(wal), Max(Pages))
    /\ wal' = <<>> /\ folded' = 0
    /\ GoesLast(p)
    /\ UNCHANGED <<history, told, verdict, spoilt, stops, damages>>

\* Mutant: it tries until one starts the -wal over.
TriesAgain_Always(a) == a.again

TriesAgain(a) == a.again /\ a.tries < MaxTries

\* The lock is another's, or a read of an older state did not end within the wait.
TruncateBusy(p) ==
    /\ act[p].at = "truncate"
    /\ \/ UNCHANGED files
       \/ ~NoReadBeside(p) /\ Fold(p) /\ UNCHANGED wal
    /\ IF TriesAgain(act[p]) THEN Goes(p, "pause") ELSE GoesLast(p)
    /\ UNCHANGED <<history, told, verdict, spoilt, stops, damages>>

Pause(p) ==
    /\ act[p].at = "pause"
    /\ act' = [act EXCEPT ![p].at = "truncate",
                          ![p].tries = IF @ < MaxTries THEN @ + 1 ELSE @]
    /\ UNCHANGED <<files, history, told, verdict, spoilt, stops, damages>>

Last(p) ==
    /\ act[p].at = "last"
    /\ LastClose(p, act[p].keepWal)
    /\ Ends(p)
    /\ UNCHANGED <<history, told, verdict, spoilt, stops, damages>>

-----------------------------------------------------------------------------
(* Outside: a process stopped hard, the files damaged at rest, and a good   *)
(* copy put back as the line says.                                         *)

\* Whether p may be folding when it is stopped, and how far it got.
MayBeFolding(p) ==
    \/ act[p].at \in {"passive", "truncate"}
    \/ act[p].at = "using" /\ ~act[p].reads /\ act[p].mark = NoRead
    \/ act[p].at = "last" /\ LastOpen(p) /\ ~act[p].keepWal

Stop(p) ==
    /\ act[p].at # "idle" /\ stops < MaxStops
    /\ stops' = stops + 1
    /\ Ends(p)
    /\ \/ UNCHANGED file
       \/ MayBeFolding(p) /\ \E last \in Pages : file' = FoldedTo(FoldsUpTo(p), last)
    /\ UNCHANGED <<wal, folded, history, told, verdict, spoilt, damages>>

AtRest == \A p \in Processes : act[p].at = "idle"

Damage ==
    /\ AtRest /\ damages < MaxDamages
    /\ damages' = damages + 1
    /\ spoilt' = TRUE
    /\ \/ \E p \in Pages : file' = [file EXCEPT ![p] = Damaged] /\ UNCHANGED wal
       \/ \E i \in DOMAIN wal : \E p \in wal[i].pages :
             wal' = [wal EXCEPT ![i].bad = {p}] /\ UNCHANGED file
    /\ UNCHANGED <<folded, history, act, told, verdict, stops>>

\* A copy of an earlier state, and the files moved aside as the last line said.
Restore(n) ==
    /\ AtRest /\ told.refused
    /\ file' = State(n)
    /\ wal' = IF MovesWalAside(told) THEN <<>> ELSE wal
    /\ history' = SubSeq(history, 1, n)
    /\ told' = NoReport /\ verdict' = <<>> /\ spoilt' = FALSE
    /\ folded' = 0 /\ UNCHANGED <<act, stops, damages>>

-----------------------------------------------------------------------------
Closing(p) == Passive(p) \/ Truncate(p) \/ TruncateBusy(p) \/ Pause(p) \/ Last(p)

Next ==
    \/ \E p \in Processes :
          \/ \E reads \in BOOLEAN : Begin(p, reads)
          \/ Check(p) \/ Refused(p) \/ Open(p) \/ Read(p) \/ EndRead(p)
          \/ \E pages \in (SUBSET Pages) \ {{}} : Commit(p, pages)
          \/ Checkpoint(p) \/ Close(p) \/ Closing(p) \/ Stop(p)
    \/ Damage
    \/ \E n \in 0..Len(history) : Restore(n)

Spec == Init /\ [][Next]_vars

\* A close is of its process alone, and goes on.
FairSpec == Spec /\ \A p \in Processes : WF_vars(Closing(p))

-----------------------------------------------------------------------------
Places == {"idle", "check", "refused", "open", "using", "passive", "truncate", "pause", "last"}

\* Only a store in use has a read open: a close ends its own reads first.
TypeOK ==
    /\ file \in [Pages -> 0..MaxCommits \cup {Damaged}]
    /\ wal \in Seq([pages : SUBSET Pages, version : 1..MaxCommits, bad : SUBSET Pages])
    /\ folded \in 0..Len(wal)
    /\ \A p \in Processes :
          /\ act[p].at \in Places
          /\ act[p].mark # NoRead => act[p].at = "using" /\ act[p].mark \in 0..Len(wal)

\* Short of damage, what is committed is read by the next command, wherever commands were
\* stopped, and an open read keeps its state: no page it needs is cut.  After damage the same
\* holds of the copy once it is put back as the refusal says.
NothingIsLost ==
    /\ TypeOK
    /\ ~spoilt =>
        /\ View(file, wal, ReadableLen(wal)) = State(Len(history))
        /\ \A p \in Processes :
              act[p].mark # NoRead => View(file, wal, act[p].mark) = State(act[p].state)

\* Any command refused for a damaged file leaves the file and the -wal as they were.
RefusedChangesNothing ==
    [][\A p \in Processes : act[p].at \in {"check", "refused"} /\ act[p] # act'[p] =>
          UNCHANGED <<file, wal>>]_vars

\* A command that only reads, and found a -wal, leaves both files as they were, however it
\* ends and whoever closed meanwhile.
ReadsLeaveTheWal ==
    [][\A p \in Processes : act[p].found /\ act[p] # act'[p] =>
          UNCHANGED <<file, wal>>]_vars

\* Whoever is refused or only reads leaves the file and a -wal it found as they were.
LeftAsFound == RefusedChangesNothing /\ ReadsLeaveTheWal

\* Not even the whole -wal would make a committed state of it.
FileIsDamaged ==
    \/ Damaged \in Range(file)
    \/ \A n \in 0..Len(history) : View(file, wal, Len(wal)) # State(n)
WalIsDamaged == \E i \in DOMAIN wal : wal[i].bad # {}

\* The frame that no longer holds is the very copy a fold had put in the file: nothing is left
\* to tell a fold cut short by.
FoldedCopyIsDamaged == \E i \in DOMAIN wal : \E p \in wal[i].bad : file[p] = wal[i].version

\* A refusal that says where the damage is says it right, wherever folds were cut short or held
\* back by a read, but for a fold cut short whose own copies in the -wal are then damaged.
DamageIsPlaced ==
    [][/\ told' # told /\ SaysWal(told') => WalIsDamaged /\ ~FileIsDamaged
       /\ told' # told /\ SaysFile(told') => FileIsDamaged \/ FoldedCopyIsDamaged]_vars

\* A close ends, whatever reads follow one another beside it.
CloseEnds ==
    \A p \in Processes :
        act[p].at \in {"passive", "truncate", "pause", "last"} ~> act[p].at = "idle"

=============================================================================
