----------------------------- MODULE FileGateway -----------------------------
(***************************************************************************)
(* The controlled file gateway (tools/file_gateway.py): seven file tools   *)
(* over one authorized root. list, search, read and execute await a        *)
(* subprocess; write, edit and rollback run to their end without           *)
(* suspending. A SHA-256 is the content it is taken of, a version id the   *)
(* content it names, and an edit may turn a text into any other text.      *)
(***************************************************************************)
EXTENDS Refusals

CONSTANTS
  Callers,        \* concurrent tool calls
  Files,          \* paths inside the authorized root
  DeniedPaths,    \* paths _path refuses: absolute, control or shell characters,
                  \* "..", the version root, or outside the root once resolved
  ImmutableFiles, \* files below an immutable prefix
  Texts,          \* contents that decode
  Binary,         \* a content that does not
  Huge            \* a content above the read and output limits

VARIABLES
  disk,           \* content at each path, or NoFile
  store,          \* the version files under .ndt-versions
  versions,       \* _versions: the version ids this gateway knows
  verified,       \* the executables still match their approved hashes
  fileCall,       \* state of each call
  lastReply,      \* the latest answer
  replaced        \* contents that successful edits replaced

fileVars == <<disk, store, versions, verified, fileCall, lastReply, replaced>>

Idle == [at |-> "idle"]

NoFile == "absent"
Contents == Texts \cup {Binary, Huge}
Paths == Files \cup DeniedPaths
Readers == {"LIST", "SEARCH", "READ", "EXECUTE"}

-----------------------------------------------------------------------------
\* _decode: a strict codec accepts the bytes and the text has no NUL.
Decodes(raw) == raw # Binary

\* _path: a literal path inside the root, existing if it must, and mutable.
PathError(p, exists, mutation) ==
  FirstRefusal(<< <<p \in DeniedPaths, "FILE_PATH_DENIED">>,
                  <<exists /\ disk[p] = NoFile, "FILE_NOT_FOUND">>,
                  <<mutation /\ p \in ImmutableFiles, "FILE_IMMUTABLE">> >>)

\* _FileAdapter.execute: what becomes of an error, an I/O failure, a result.
Denied == [status |-> "DENIED"]
Failed == [status |-> "FAILED"]
Success(content, hash) == [status |-> "SUCCESS", content |-> content, hash |-> hash]

Reply(c, result) ==
  /\ fileCall' = [fileCall EXCEPT ![c] = Idle]
  /\ lastReply' = result

Init ==
  /\ disk \in {d \in [Paths -> Contents \cup {NoFile}] : \A p \in DeniedPaths : d[p] = NoFile}
  /\ store = {}
  /\ versions = {}
  /\ verified = TRUE
  /\ fileCall = [c \in Callers |-> Idle]
  /\ lastReply = Failed
  /\ replaced = {}

\* _check_scope: the caller's tenant and project do not own the root.
ScopeDenied(c) ==
  /\ fileCall[c] = Idle
  /\ Reply(c, Denied)
  /\ UNCHANGED <<disk, store, versions, verified, replaced>>

\* What list, search, read and execute check before they start their command:
\* a pattern without control characters or a registered template with few
\* enough paths, the path, the size of the file, the executable's hash.
ReaderError(op, p, registered) ==
  FirstRefusal(<< <<op = "SEARCH" /\ ~registered, "FILE_PATTERN_DENIED">>,
                  <<op = "EXECUTE" /\ ~registered, "FILE_COMMAND_DENIED">>,
                  <<PathError(p, TRUE, FALSE) # None, PathError(p, TRUE, FALSE)>>,
                  <<op = "READ" /\ disk[p] = Huge, "FILE_INPUT_TOO_LARGE">>,
                  <<~verified, "FILE_EXECUTABLE_CHANGED">> >>)

RefuseReader(c, op, p, registered) ==
  /\ fileCall[c] = Idle
  /\ ReaderError(op, p, registered) # None
  /\ Reply(c, Denied)
  /\ UNCHANGED <<disk, store, versions, verified, replaced>>

StartReader(c, op, p) ==
  /\ fileCall[c] = Idle
  /\ ReaderError(op, p, TRUE) = None
  /\ fileCall' = [fileCall EXCEPT ![c] = [at |-> "command", read |-> op = "READ", path |-> p]]
  /\ UNCHANGED <<lastReply, disk, store, versions, verified, replaced>>

\* The subprocess reads the file some time after it was started.
CommandReads(c) ==
  /\ fileCall[c].at = "command"
  /\ fileCall' = [fileCall EXCEPT ![c] =
       [at |-> "output", read |-> @.read, path |-> @.path, raw |-> disk[@.path]]]
  /\ UNCHANGED <<lastReply, disk, store, versions, verified, replaced>>

\* The command fails, or the caller is cancelled and the process killed.
CommandFails(c) ==
  /\ fileCall[c].at = "command"
  /\ \/ Reply(c, Denied)
     \/ fileCall' = [fileCall EXCEPT ![c] = Idle] /\ UNCHANGED lastReply
  /\ UNCHANGED <<disk, store, versions, verified, replaced>>

\* The rest of execute once the command's output is there. read hashes the
\* file as it is now; the other three return no hash of the source.
EndReader(c) ==
  LET r == fileCall[c]
      error == FirstRefusal(<< <<r.raw = Huge, "FILE_OUTPUT_TOO_LARGE">>,
                               <<~Decodes(r.raw), "FILE_ENCODING_UNCERTAIN">> >>) IN
  /\ r.at = "output"
  /\ Reply(c, IF error # None THEN Denied
              ELSE Success(r.raw, IF r.read THEN disk[r.path] ELSE NoFile))
  /\ UNCHANGED <<disk, store, versions, verified, replaced>>

-----------------------------------------------------------------------------
\* An atomic write that failed leaves the target as it was. Reading the file
\* back for output_sha256 may fail after the write succeeded.
Written(c, p, raw) ==
  /\ disk' = [disk EXCEPT ![p] = raw]
  /\ Reply(c, Success(raw, raw)) \/ Reply(c, Failed)

WriteError(p) ==
  FirstRefusal(<< <<PathError(p, FALSE, TRUE) # None, PathError(p, FALSE, TRUE)>>,
                  <<disk[p] # NoFile, "FILE_OVERWRITE_DENIED">> >>)

Write(c, p, raw) ==
  /\ fileCall[c] = Idle
  /\ IF WriteError(p) # None
     THEN Reply(c, Denied) /\ UNCHANGED disk
     ELSE Written(c, p, raw) \/ (Reply(c, Failed) /\ UNCHANGED disk)
  /\ UNCHANGED <<store, versions, verified, replaced>>

\* edit before its first effect: path, expected hash, encoding, line range.
EditError(p, expected, inRange) ==
  FirstRefusal(<< <<PathError(p, TRUE, TRUE) # None, PathError(p, TRUE, TRUE)>>,
                  <<disk[p] # expected, "FILE_VERSION_CONFLICT">>,
                  <<~Decodes(expected), "FILE_ENCODING_UNCERTAIN">>,
                  <<~inRange, "FILE_EDIT_RANGE_INVALID">> >>)

\* _save_version: the version file may exist from an earlier edit or gateway.
SaveVersion(raw) ==
  /\ store' = store \cup {raw}
  /\ versions' = versions \cup {raw}

\* Mutant: the file is replaced before its version is saved.
EditBeforeSave(c, p, expected, inRange, raw) ==
  /\ fileCall[c] = Idle
  /\ EditError(p, expected, inRange) = None
  /\ replaced' = replaced \cup {expected}
  /\ Written(c, p, raw)
  /\ SaveVersion(expected) \/ UNCHANGED <<store, versions>>
  /\ UNCHANGED verified

\* file.edit. The version is saved first, and either write may fail.
Edit(c, p, expected, inRange, raw) ==
  /\ fileCall[c] = Idle
  /\ IF EditError(p, expected, inRange) # None
     THEN /\ Reply(c, Denied)
          /\ UNCHANGED <<disk, store, versions, replaced>>
     ELSE \/ /\ replaced' = replaced \cup {expected}
             /\ Written(c, p, raw)
             /\ SaveVersion(expected)
          \/ /\ Reply(c, Failed)
             /\ SaveVersion(expected) \/ UNCHANGED <<store, versions>>
             /\ UNCHANGED <<disk, replaced>>
  /\ UNCHANGED verified

RollbackError(p, expected, version) ==
  FirstRefusal(<< <<PathError(p, TRUE, TRUE) # None, PathError(p, TRUE, TRUE)>>,
                  <<disk[p] # expected, "FILE_VERSION_CONFLICT">>,
                  <<version \notin versions \cap store, "FILE_VERSION_NOT_FOUND">> >>)

\* file.rollback restores any known version, of whatever path, and decodes
\* it only after the file has been written.
Rollback(c, p, expected, version) ==
  /\ fileCall[c] = Idle
  /\ IF RollbackError(p, expected, version) # None
     THEN /\ Reply(c, Denied)
          /\ UNCHANGED disk
     ELSE \/ Reply(c, Failed) /\ UNCHANGED disk
          \/ Decodes(version) /\ Written(c, p, version)
          \/ /\ ~Decodes(version)
             /\ disk' = [disk EXCEPT ![p] = version]
             /\ Reply(c, Denied)
  /\ UNCHANGED <<store, versions, verified, replaced>>

\* read_source_bytes, for knowledge intake, within one step: another process
\* may have changed the file between the two stat calls.
ReadSource(c, p, changed) ==
  /\ fileCall[c] = Idle
  /\ LET error == FirstRefusal(
           << <<PathError(p, TRUE, FALSE) # None, PathError(p, TRUE, FALSE)>>,
              <<disk[p] = Huge, "FILE_INPUT_TOO_LARGE">>,
              <<changed, "FILE_SOURCE_CHANGED">> >>)
     IN Reply(c, IF error = None THEN Success(disk[p], disk[p])
                 ELSE Denied)
  /\ UNCHANGED <<disk, store, versions, verified, replaced>>

\* A new gateway over the same root: the version files stay, _versions is
\* empty, and the identities of the executables are discovered anew.
RestartGateway ==
  /\ \A c \in Callers : fileCall[c] = Idle
  /\ versions' = {}
  /\ verified' = TRUE
  /\ replaced' = {}
  /\ UNCHANGED <<fileCall, lastReply>>
  /\ UNCHANGED <<disk, store>>

\* An executable is replaced on the host.
ExecutableChanges ==
  /\ verified' = FALSE
  /\ UNCHANGED <<disk, store, versions, fileCall, lastReply, replaced>>

Next ==
  \/ \E c \in Callers :
       \/ ScopeDenied(c) \/ CommandReads(c) \/ CommandFails(c) \/ EndReader(c)
       \/ \E op \in Readers, p \in Paths :
            \/ StartReader(c, op, p)
            \/ \E registered \in BOOLEAN : RefuseReader(c, op, p, registered)
       \/ \E p \in Paths :
            \/ \E raw \in Texts \cup {Binary} : Write(c, p, raw)
            \/ \E expected \in Contents, raw \in Texts \cup {Binary}, inRange \in BOOLEAN :
                 Edit(c, p, expected, inRange, raw)
            \/ \E expected, version \in Contents : Rollback(c, p, expected, version)
            \/ \E changed \in BOOLEAN : ReadSource(c, p, changed)
  \/ RestartGateway
  \/ ExecutableChanges

Spec == Init /\ [][Next]_fileVars
-----------------------------------------------------------------------------
\* Every content a successful edit of this gateway replaced can be rolled back
\* to: its version file exists and its id is known, although saving it and
\* writing the new content can each fail (file_gateway.py, edit and
\* _save_version).
EditedContentIsKept == replaced \subseteq versions /\ versions \subseteq store

\* A call that answers DENIED has not changed a file: rollback decodes only
\* after it has written, so this rests on edit never saving a version that
\* does not decode (file_gateway.py, the order of the checks in edit).
DeniedLeavesFiles == disk' # disk => lastReply' # Denied

\* No sequence of edits, rollbacks and restarts loses what the version store
\* promises to keep, and no refused one has touched a file.
FilesAreSafe == [][EditedContentIsKept' /\ DeniedLeavesFiles]_fileVars
=============================================================================
