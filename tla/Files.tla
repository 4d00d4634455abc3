------------------------------- MODULE Files --------------------------------
(***************************************************************************)
(* The file tools of a session (zhen_tool/builtin/fs): read_file,          *)
(* write_file, patch_file and revert_file, the freshness gate between them *)
(* (stems/action.rs), their backups, the pruning of backups at the end of  *)
(* a run, and worktrees.  A user edits the same files meanwhile.           *)
(*                                                                         *)
(* A content is its number, a modification time the number of the write.   *)
(* Backups are kept by second and file name: all Paths here have the same  *)
(* file name, in different directories.                                    *)
(***************************************************************************)
EXTENDS Integers, Sequences, FiniteSets, SequencesExt

CONSTANTS
    FileCalls,     \* tool calls that may be under way together
    Paths,
    CacheSize,     \* capacity of read_state (64)
    KeptBackups,   \* directories that pruning leaves (30)
    MaxSeconds, MaxFileOps   \* bounds: seconds; calls, edits and ends of runs

ASSUME FilesAssumption == CacheSize \in Nat \ {0} /\ KeptBackups \in Nat /\ MaxSeconds \in Nat /\ MaxFileOps \in Nat

Roots == {"main", "worktree"}

VARIABLES
    disk,       \* root, path -> [content, mtime]; content 0: no such file
    root,       \* workspace root of the ExecContext
    readState,  \* read_state: <<path, mtime>>, least recently used first
    backups,    \* root -> second -> [path, content] of the backup (or NoBackup)
    op,         \* the tool calls under way
    second, fileOps, writes,
    known,      \* history: contents that the session read or wrote
    slipped     \* history: contents it has a record of and did not see

fileVars == <<disk, root, readState, backups, op, second, fileOps, writes, known, slipped>>

NoBackup == [path |-> "none", content |-> 0]
NoOp == [tool |-> "none", pc |-> "idle"]
Seconds == 0..MaxSeconds

FilesInit ==
    /\ disk = [r \in Roots |-> [p \in Paths |-> [content |-> 1, mtime |-> 1]]]
    /\ root = "main" /\ readState = <<>>
    /\ backups = [r \in Roots |-> [t \in Seconds |-> NoBackup]]
    /\ op = [c \in FileCalls |-> NoOp]
    /\ second = 0 /\ fileOps = 0 /\ writes = 1 /\ known = {} /\ slipped = {}

(* record_read and check_freshness: an LRU cache; both make the path the   *)
(* most recent.                                                            *)
Cached(p) == {i \in DOMAIN readState : readState[i][1] = p}
Without(p) == SelectSeq(readState, LAMBDA e : e[1] # p)

(* Mutant: an entry is added beside the one for the same path.             *)
record_read_Twice(p, mtime) ==
    LET kept == Append(readState, <<p, mtime>>)
    IN  readState' = IF Len(kept) > CacheSize THEN Tail(kept) ELSE kept

record_read(p, mtime) ==
    LET kept == Append(Without(p), <<p, mtime>>)
    IN  readState' = IF Len(kept) > CacheSize THEN Tail(kept) ELSE kept

Fresh(p) == \E i \in Cached(p) : readState[i][2] = disk[root][p].mtime

(* Mutant: a file that was read is taken for fresh.                        *)
check_freshness_Any(p) ==
    /\ readState' = IF Cached(p) = {} THEN readState
                    ELSE Append(Without(p), readState[CHOOSE i \in Cached(p) : TRUE])
    /\ Cached(p) # {}

check_freshness(p) ==
    /\ readState' = IF Cached(p) = {} THEN readState
                    ELSE Append(Without(p), readState[CHOOSE i \in Cached(p) : TRUE])
    /\ Fresh(p)

(* Calls of a batch are on different files (ToolScheduler).                *)
accesses(c, p) == \A d \in FileCalls \ {c} : op[d] # NoOp => op[d].path # p

Begin(c, p, call) ==
    /\ fileOps < MaxFileOps /\ fileOps' = fileOps + 1 /\ op[c] = NoOp /\ accesses(c, p)
    /\ op' = [op EXCEPT ![c] = call]

Call(tool, p, t) ==
    [tool |-> tool, pc |-> "check", path |-> p, base |-> 0, raw |-> 0, own |-> 0,
     chosen |-> backups[root][t], at |-> t]

Goes(c, pc) == op' = [op EXCEPT ![c].pc = pc]
Ends(c) == op' = [op EXCEPT ![c] = NoOp]
Here(c) == disk[root][op[c].path]

(* read_file: the time is taken and recorded before the content is read; a *)
(* file that did not change is not read again.                             *)
read_file(c, p) ==
    /\ disk[root][p].content # 0
    /\ Begin(c, p, IF Fresh(p) THEN NoOp
                   ELSE [tool |-> "read", pc |-> "read", path |-> p, seen |-> disk[root][p].content])
    /\ IF Fresh(p) THEN UNCHANGED readState ELSE record_read(p, disk[root][p].mtime)
    /\ UNCHANGED <<disk, root, backups, second, writes, known, slipped>>

(* The file is opened and read line by line, or that fails: the record     *)
(* stays.                                                                  *)
ReadContent(c) ==
    /\ op[c].pc = "read" /\ Ends(c)
    /\ known' = known \cup ({Here(c).content} \ {0})
    /\ UNCHANGED <<disk, root, readState, backups, second, fileOps, writes, slipped>>

ReadFails(c) ==
    /\ op[c].pc = "read" /\ Ends(c)
    /\ slipped' = slipped \cup {op[c].seen}
    /\ UNCHANGED <<disk, root, readState, backups, second, fileOps, writes, known>>

write_file(c, p) ==
    /\ Begin(c, p, Call("write", p, 0))
    /\ UNCHANGED <<disk, root, readState, backups, second, writes, known, slipped>>

patch_file(c, p) ==
    /\ Begin(c, p, Call("patch", p, 0)) /\ disk[root][p].content # 0
    /\ UNCHANGED <<disk, root, readState, backups, second, writes, known, slipped>>

(* list_backups and select_backup.                                         *)
revert_file(c, p, t) ==
    /\ Begin(c, p, Call("revert", p, t)) /\ backups[root][t] # NoBackup
    /\ UNCHANGED <<disk, root, readState, backups, second, writes, known, slipped>>

(* The gate; a file that does not exist needs none.                        *)
CheckFreshness(c) ==
    /\ op[c].pc = "check"
    /\ \/ Here(c).content # 0 /\ check_freshness(op[c].path)
          /\ op' = [op EXCEPT ![c].pc = "backup", ![c].base = Here(c).content]
       \/ Here(c).content = 0 /\ Goes(c, "backup") /\ UNCHANGED readState
    /\ UNCHANGED <<disk, root, backups, second, fileOps, writes, known, slipped>>

GateRejects(c) ==
    /\ op[c].pc = "check" /\ Here(c).content # 0 /\ ~Fresh(op[c].path)
    /\ Ends(c)
    /\ UNCHANGED <<disk, root, readState, backups, second, fileOps, writes, known, slipped>>

(* patch_file reads the file after the gate; the text may not match, or in *)
(* several places.                                                         *)
ReadRaw(c, matches) ==
    /\ op[c].pc = "backup" /\ op[c].tool = "patch"
    /\ IF matches /\ Here(c).content # 0
       THEN op' = [op EXCEPT ![c].pc = "matched", ![c].raw = Here(c).content] ELSE Ends(c)
    /\ UNCHANGED <<disk, root, readState, backups, second, fileOps, writes, known, slipped>>

Backup(c, t, content) ==
    backups' = [backups EXCEPT ![root][t] = [path |-> op[c].path, content |-> content]]

(* A second has one backup of a name; the later replaces the earlier.      *)
BackupBeforeWrite(c) ==
    LET content == IF op[c].tool = "patch" THEN op[c].raw ELSE Here(c).content
    IN  /\ op[c].pc = "matched" \/ (op[c].pc = "backup" /\ op[c].tool = "write")
        /\ IF content # 0 THEN Backup(c, second, content) ELSE UNCHANGED backups
        /\ Goes(c, "write")
        /\ UNCHANGED <<disk, root, readState, second, fileOps, writes, known, slipped>>

(* Mutant: the revert's own backup takes this second.                      *)
FreeSecond_Now == second

(* Reverting moves on to a second without a backup of the name.            *)
FreeSecond ==
    CHOOSE t \in Seconds : t >= second /\ backups[root][t] = NoBackup
                           /\ \A u \in second..(t - 1) : backups[root][u] # NoBackup

(* The current content is read and a second found for it, which another    *)
(* call may take before the backup is written.                             *)
FindSecond(c) ==
    /\ op[c].pc = "backup" /\ op[c].tool = "revert"
    /\ \E t \in second..MaxSeconds : backups[root][t] = NoBackup
    /\ op' = [op EXCEPT ![c].pc = IF Here(c).content = 0 THEN "write" ELSE "found",
                        ![c].raw = Here(c).content, ![c].own = FreeSecond]
    /\ UNCHANGED <<disk, root, readState, backups, second, fileOps, writes, known, slipped>>

BackupBeforeRevert(c) ==
    /\ op[c].pc = "found" /\ Backup(c, op[c].own, op[c].raw) /\ Goes(c, "write")
    /\ UNCHANGED <<disk, root, readState, second, fileOps, writes, known, slipped>>

Put(p, content) ==
    /\ writes' = writes + 1
    /\ disk' = [disk EXCEPT ![root][p] = [content |-> content, mtime |-> writes + 1]]

(* A write or a patch makes a new content; a revert copies the backup as   *)
(* it is now.                                                              *)
WriteContent(c) ==
    LET new == IF op[c].tool = "revert" THEN backups[root][op[c].at].content ELSE writes + 1
    IN  /\ op[c].pc = "write" /\ Put(op[c].path, new)
        /\ known' = known \cup {new}
        /\ Goes(c, "record")
        /\ UNCHANGED <<root, readState, backups, second, fileOps, slipped>>

RecordWrite(c) ==
    /\ op[c].pc = "record" /\ Ends(c)
    /\ IF Here(c).content # 0
       THEN record_read(op[c].path, Here(c).mtime) ELSE UNCHANGED readState
    /\ UNCHANGED <<disk, root, backups, second, fileOps, writes, known, slipped>>

-----------------------------------------------------------------------------
(* The user edits or deletes a file.                                       *)
UserWrites(p, gone) ==
    /\ fileOps < MaxFileOps /\ fileOps' = fileOps + 1
    /\ disk[root][p].content # 0 \/ ~gone
    /\ Put(p, IF gone THEN 0 ELSE writes + 1)
    /\ slipped' = IF \E c \in FileCalls : op[c].pc = "record" /\ op[c].path = p
                  THEN slipped \cup {writes + 1} ELSE slipped
    /\ UNCHANGED <<root, readState, backups, op, second, known>>

NextSecond ==
    /\ second < MaxSeconds /\ second' = second + 1
    /\ UNCHANGED <<disk, root, readState, backups, op, fileOps, writes, known, slipped>>

AllDone == \A c \in FileCalls : op[c] = NoOp

(* The end of a run: the oldest backups go.                                *)
PruneBackups ==
    LET made == {t \in Seconds : backups["main"][t] # NoBackup}
        old == {t \in made : Cardinality({u \in made : u > t}) >= KeptBackups}
    IN  /\ AllDone /\ old # {}
        /\ backups' = [backups EXCEPT !["main"] = [t \in Seconds |-> IF t \in old THEN NoBackup ELSE @[t]]]
        /\ UNCHANGED <<disk, root, readState, op, second, fileOps, writes, known, slipped>>

(* Worktrees: a new context has an empty cache, leaving keeps the cache.   *)
enter_worktree ==
    /\ AllDone /\ root = "main" /\ fileOps < MaxFileOps /\ fileOps' = fileOps + 1
    /\ root' = "worktree" /\ readState' = <<>>
    /\ UNCHANGED <<disk, backups, op, second, writes, known, slipped>>

(* The cache holds absolute paths; those of the worktree match nothing, so *)
(* they are dropped here.                                                  *)
exit_worktree ==
    /\ AllDone /\ root = "worktree" /\ root' = "main" /\ readState' = <<>>
    /\ UNCHANGED <<disk, backups, op, second, fileOps, writes, known, slipped>>

FileStep(c) ==
    \/ ReadContent(c) \/ ReadFails(c) \/ CheckFreshness(c) \/ GateRejects(c)
    \/ BackupBeforeWrite(c) \/ FindSecond(c) \/ BackupBeforeRevert(c)
    \/ \E matches \in BOOLEAN : ReadRaw(c, matches)
    \/ WriteContent(c) \/ RecordWrite(c)

FilesNext ==
    \/ NextSecond \/ PruneBackups \/ enter_worktree \/ exit_worktree
    \/ \E p \in Paths, gone \in BOOLEAN : UserWrites(p, gone)
    \/ \E c \in FileCalls : FileStep(c)
    \/ \E c \in FileCalls, p \in Paths :
        \/ read_file(c, p) \/ write_file(c, p) \/ patch_file(c, p)
        \/ \E t \in Seconds : revert_file(c, p, t)

FilesSpec == FilesInit /\ [][FilesNext]_fileVars

-----------------------------------------------------------------------------
FilesTypeOK ==
    /\ root \in Roots /\ Len(readState) <= CacheSize
    /\ \A i, j \in DOMAIN readState : readState[i][1] = readState[j][1] => i = j

(* What the freshness gate lets a tool overwrite is a content the session  *)
(* has seen, however reads, calls beside, edits by the user, evictions and *)
(* worktrees interleave.  Two pass unseen: an edit that slips in between a *)
(* tool's write and its record, and a content whose read failed after its  *)
(* time was recorded.                                                      *)
GateMeansSeen ==
    \A c \in FileCalls :
        op[c].pc \in {"backup", "matched", "found", "write"} => op[c].base \in known \cup slipped \cup {0}

(* A revert restores the backup that was chosen, and what it found in the  *)
(* file is backed up beside it, even within one second, so that it can     *)
(* itself be reverted; unless a call beside it, on a file of the same name *)
(* elsewhere, took the place of one of the two.                            *)
RevertUndoable ==
    [][\A c \in FileCalls :
        op[c].pc = "write" /\ op[c].tool = "revert" /\ op'[c].pc = "record" =>
            LET chosen == backups[root][op[c].at]
                own == backups[root][op[c].own]
            IN  /\ \/ Here(c)'.content = op[c].chosen.content
                   \/ chosen # op[c].chosen /\ chosen.path # op[c].path
                /\ op[c].raw = 0 \/ own.content = op[c].raw \/ own.path # op[c].path]_fileVars

-----------------------------------------------------------------------------
(***************************************************************************)
(* How patch_file (zhen_tool/builtin/fs/patch_file.rs) finds the text to   *)
(* replace and writes the file back: in a view without carriage returns    *)
(* for files that have them on every line, on the raw text otherwise, and  *)
(* with curly quotes read as straight ones when nothing else matches.      *)
(*                                                                         *)
(* A text is a sequence of characters: "n" is a newline, "r" a carriage    *)
(* return, "c" a curly and "q" a straight quote.                           *)
(***************************************************************************)

CONSTANTS Characters, MaxText, Olds, News    \* texts to search for and to put in

VARIABLES raw, old, new, outcome, result     \* the patched text, if the outcome is "One"

patchVars == <<raw, old, new, outcome, result>>

NotFound == -1
Multiple == -2

detect_line_endings(s) ==
    LET lf == {i \in DOMAIN s : s[i] = "n"}
        crlf == {i \in lf : i > 1 /\ s[i - 1] = "r"}
    IN  CASE crlf = {} -> "Lf" [] crlf = lf -> "Crlf" [] OTHER -> "Mixed"

ToLf(s) == FoldLeftDomain(LAMBDA out, i :
              IF s[i] = "r" /\ i < Len(s) /\ s[i + 1] = "n" THEN out ELSE Append(out, s[i]), <<>>, s)
ToCrlf(s) == FlattenSeq([i \in DOMAIN s |-> IF s[i] = "n" THEN <<"r", "n">> ELSE <<s[i]>>])

normalize_quotes(s) == [i \in DOMAIN s |-> IF s[i] = "c" THEN "q" ELSE s[i]]

Found(view, text) ==
    {i \in 0..(Len(view) - Len(text)) : SubSeq(view, i + 1, i + Len(text)) = text}

(* The position of the only match; matches that overlap the first are not  *)
(* looked for.                                                             *)
Unique(view, text) ==
    LET first == CHOOSE i \in Found(view, text) : \A j \in Found(view, text) : i <= j
    IN  CASE Found(view, text) = {} -> NotFound
          [] Found(view, text) # {} /\ \E j \in Found(view, text) : j >= first + Len(text) -> Multiple
          [] OTHER -> first

quote_fallback(view, text) == Unique(normalize_quotes(view), normalize_quotes(text))

find_unique(view, text) ==
    IF Unique(view, text) = NotFound THEN quote_fallback(view, text) ELSE Unique(view, text)

Replaced(view, at, text, by) == SubSeq(view, 1, at) \o by \o SubSeq(view, at + Len(text) + 1, Len(view))

(* Mutant: the new text goes in with its own line endings.                 *)
Patched_AsIs(at, crlf) ==
    IF crlf THEN ToCrlf(Replaced(ToLf(raw), at, ToLf(old), new)) ELSE Replaced(raw, at, old, new)

(* Mutant: the file is left in the view's line endings.                    *)
Patched_View(at, crlf) ==
    IF crlf THEN Replaced(ToLf(raw), at, ToLf(old), ToLf(new)) ELSE Replaced(raw, at, old, new)

Patched(at, crlf) ==
    IF crlf THEN ToCrlf(Replaced(ToLf(raw), at, ToLf(old), ToLf(new))) ELSE Replaced(raw, at, old, new)

PatchInit ==
    /\ raw \in UNION {[1..n -> Characters] : n \in 0..MaxText}
    /\ old \in Olds /\ new \in News /\ outcome = "none" /\ result = <<>>

Patch ==
    LET crlf == detect_line_endings(raw) = "Crlf"
        at == IF crlf THEN find_unique(ToLf(raw), ToLf(old)) ELSE find_unique(raw, old)
    IN  /\ outcome = "none"
        /\ outcome' = CASE at = NotFound -> "NotFound" [] at = Multiple -> "Multiple" [] OTHER -> "One"
        /\ result' = IF at >= 0 THEN Patched(at, crlf) ELSE <<>>
        /\ UNCHANGED <<raw, old, new>>

PatchSpec == PatchInit /\ [][Patch]_patchVars

-----------------------------------------------------------------------------
Shown(s) == IF detect_line_endings(raw) = "Crlf" THEN ToLf(s) ELSE s

(* After a patch the file shows what it showed before with one place that  *)
(* matches, but for the kind of quotes, replaced by the new text, and all  *)
(* of the rest as it was.                                                  *)
OnePlaceReplaced ==
    outcome = "One" => \E i \in 0..(Len(Shown(raw)) - Len(Shown(old))) :
        /\ normalize_quotes(SubSeq(Shown(raw), i + 1, i + Len(Shown(old)))) = normalize_quotes(Shown(old))
        /\ Shown(result) = Replaced(Shown(raw), i, Shown(old), Shown(new))

(* A file with carriage returns on every line keeps them on every line.    *)
EndingsKept ==
    outcome = "One" /\ detect_line_endings(raw) = "Crlf" =>
        \A i \in DOMAIN result : result[i] = "n" => i > 1 /\ result[i - 1] = "r"
=============================================================================
