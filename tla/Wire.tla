-------------------------------- MODULE Wire --------------------------------
(***************************************************************************)
(* The messages between the main process and the daemon                    *)
(* (generated/treeterm.ts): what encode() writes of a message and what     *)
(* decode() makes of it, field by field, when the other side may have been *)
(* built from an older or a newer treeterm.proto: a remote daemon may be   *)
(* used although it is outdated (allowOutdatedDaemon).                     *)
(*                                                                         *)
(* A message is a function from fields to sequences of values: of a plain  *)
(* field exactly one, of an optional one at most one.  Scalars are 0, the  *)
(* default ("" and false too), 1, and Huge, an integer that is not safe.   *)
(* The wire is a sequence of tokens, a field's tag with its value; a       *)
(* message's own tokens follow its tag, which tells their number.  What    *)
(* decodes is this code, on either side: the daemon has its own (prost),   *)
(* which refuses a known field of another wire type instead of skipping it *)
(* and has 64 bits for every integer, and it is left out.                  *)
(***************************************************************************)
EXTENDS Naturals, Sequences, SequencesExt

VARIABLES
  ours,    \* the schema of the side that decodes
  theirs,  \* the schema of the side that encodes
  message, \* what is sent
  wire,    \* its tokens
  pos,     \* reader.pos
  frames,  \* the calls of decode() under way, outermost first
  outcome  \* "unsent", "reading", "done", "failed"
vars == <<ours, theirs, message, wire, pos, frames, outcome>>

-----------------------------------------------------------------------------
(* The messages.                                                           *)

Varint == [wt |-> 0, long |-> FALSE]
Long == [wt |-> 0, long |-> TRUE]  \* 64 bits, read through longToNumber
Double == [wt |-> 1, long |-> FALSE]
Bytes == [wt |-> 2, long |-> FALSE] \* also strings and messages

Huge == 2
Highest == 15 \* bound: field numbers

NoFields == <<>>
Field(n, type, rule, of) == [no |-> n, type |-> type, rule |-> rule, of |-> of]
Plain(n, type) == Field(n, type, "plain", <<>>)
Optional(n, type) == Field(n, type, "optional", <<>>)
Repeated(n, type) == Field(n, type, "repeated", <<>>)
Message(n, schema) == Field(n, Bytes, "optional", <<schema>>)
Messages(n, schema) == Field(n, Bytes, "repeated", <<schema>>)

Nested(d) == d.of # <<>>

Empty == NoFields
SandboxConfig ==
  [enabled |-> Plain(1, Varint), allowNetwork |-> Plain(2, Varint),
   allowedPaths |-> Repeated(3, Bytes)]
WorkspaceRef == [id |-> Plain(1, Bytes), path |-> Plain(2, Bytes)]
SessionLock == [acquiredAt |-> Plain(2, Long), expiresAt |-> Plain(3, Long)]
Session ==
  [id |-> Plain(1, Bytes), createdAt |-> Plain(3, Long), lastActivity |-> Plain(4, Long),
   version |-> Plain(5, Long), lock |-> Message(6, SessionLock),
   workspaceRefs |-> Messages(7, WorkspaceRef), workspaceDataDir |-> Plain(8, Bytes)]
PtySessionInfo ==
  [id |-> Plain(1, Bytes), cwd |-> Plain(2, Bytes), cols |-> Plain(3, Varint),
   rows |-> Plain(4, Varint), createdAt |-> Plain(5, Long), lastActivity |-> Plain(6, Long)]
CreatePtyRequest_EnvEntry == [key |-> Plain(1, Bytes), value |-> Plain(2, Bytes)]
CreatePtyRequest ==
  [cwd |-> Plain(1, Bytes), env |-> Messages(2, CreatePtyRequest_EnvEntry),
   cols |-> Optional(3, Varint), rows |-> Optional(4, Varint),
   sandbox |-> Message(5, SandboxConfig), startupCommand |-> Optional(6, Bytes),
   handle |-> Optional(7, Bytes)]
CreatePtyResponse == [sessionId |-> Plain(1, Bytes)]
KillPtyRequest == [sessionId |-> Plain(1, Bytes)]
ListPtySessionsResponse == [sessions |-> Messages(1, PtySessionInfo)]
PtyStartData == [sessionId |-> Plain(1, Bytes), kind |-> Plain(2, Varint)]
PtyWriteData == [data |-> Plain(1, Bytes)]
PtyResizeData == [cols |-> Plain(1, Varint), rows |-> Plain(2, Varint)]
PtyInput ==
  [start |-> Message(1, PtyStartData), write |-> Message(2, PtyWriteData),
   resize |-> Message(3, PtyResizeData), focus |-> Message(4, Empty)]
PtyData == [data |-> Plain(1, Bytes)]
PtyExit == [exitCode |-> Plain(1, Varint), signal |-> Optional(2, Varint)]
PtyOutput ==
  [data |-> Message(1, PtyData), exit |-> Message(2, PtyExit),
   resize |-> Message(3, PtyResizeData), replayStart |-> Message(4, Empty),
   replayEnd |-> Message(5, Empty)]
ExecStart_EnvEntry == [key |-> Plain(1, Bytes), value |-> Plain(2, Bytes)]
ExecStart ==
  [cwd |-> Plain(1, Bytes), command |-> Plain(2, Bytes), args |-> Repeated(3, Bytes),
   env |-> Messages(4, ExecStart_EnvEntry), timeoutMs |-> Optional(5, Varint)]
ExecSignal == [signal |-> Plain(1, Varint)]
ExecInput ==
  [start |-> Message(1, ExecStart), stdin |-> Optional(2, Bytes),
   signal |-> Message(3, ExecSignal)]
ExecStdout == [data |-> Plain(1, Bytes)]
ExecStderr == [data |-> Plain(1, Bytes)]
ExecResult == [exitCode |-> Plain(1, Varint), error |-> Optional(2, Bytes)]
ExecOutput ==
  [stdout |-> Message(1, ExecStdout), stderr |-> Message(2, ExecStderr),
   result |-> Message(3, ExecResult)]
UpdateSessionRequest ==
  [senderId |-> Optional(3, Bytes), expectedVersion |-> Optional(4, Long),
   workspaceRefs |-> Messages(5, WorkspaceRef)]
SessionWatchRequest == [listenerId |-> Plain(2, Bytes)]
SessionWatchEvent == [session |-> Message(2, Session), senderId |-> Plain(3, Bytes)]
LockSessionRequest == [ttlMs |-> Optional(2, Long)]
LockSessionResponse == [acquired |-> Plain(1, Varint), session |-> Message(2, Session)]
UnlockSessionRequest == NoFields
ForceUnlockSessionRequest == NoFields
FileReadHeader ==
  [path |-> Plain(1, Bytes), size |-> Plain(2, Long), language |-> Plain(3, Bytes)]
FileReadData == [data |-> Plain(1, Bytes)]
FileReadEnd == [success |-> Plain(1, Varint), error |-> Optional(2, Bytes)]
FileReadChunk ==
  [header |-> Message(1, FileReadHeader), data |-> Message(2, FileReadData),
   end |-> Message(3, FileReadEnd)]
FileWriteHeader ==
  [workspacePath |-> Plain(1, Bytes), filePath |-> Plain(2, Bytes),
   expectedSha256 |-> Optional(3, Bytes)]
FileWriteData == [data |-> Plain(1, Bytes)]
FileWriteEnd == NoFields
FileWriteChunk ==
  [header |-> Message(1, FileWriteHeader), data |-> Message(2, FileWriteData),
   end |-> Message(3, FileWriteEnd)]
WatchFileRequest ==
  [workspacePath |-> Plain(1, Bytes), filePath |-> Plain(2, Bytes),
   watcherId |-> Plain(3, Bytes)]
FilePresent == [content |-> Plain(1, Bytes), sha256 |-> Plain(2, Bytes)]
FileAbsent == NoFields
FileWatchEvent == [present |-> Message(1, FilePresent), absent |-> Message(2, FileAbsent)]
FileSignalPresent == [sha256 |-> Plain(1, Bytes)]
FileSignalEvent ==
  [present |-> Message(1, FileSignalPresent), absent |-> Message(2, FileAbsent)]
DeleteFileRequest == [workspacePath |-> Plain(1, Bytes), filePath |-> Plain(2, Bytes)]
DeleteFileResponse == [success |-> Plain(1, Varint), error |-> Optional(2, Bytes)]
FileEntry ==
  [name |-> Plain(1, Bytes), path |-> Plain(2, Bytes), relativePath |-> Plain(3, Bytes),
   isDirectory |-> Plain(4, Varint), size |-> Optional(5, Long),
   modifiedTime |-> Optional(6, Double)]
DirectoryContents == [path |-> Plain(1, Bytes), entries |-> Messages(2, FileEntry)]
SearchFilesRequest == [workspacePath |-> Plain(1, Bytes), query |-> Plain(2, Bytes)]
SearchFilesResponse ==
  [success |-> Plain(1, Varint), entries |-> Messages(2, FileEntry),
   error |-> Optional(3, Bytes)]
ReadDirectoryRequest == [workspacePath |-> Plain(1, Bytes), dirPath |-> Plain(2, Bytes)]
ReadDirectoryResponse ==
  [success |-> Plain(1, Varint), contents |-> Message(2, DirectoryContents),
   error |-> Optional(3, Bytes)]
FileContents ==
  [path |-> Plain(1, Bytes), content |-> Plain(2, Bytes), size |-> Plain(3, Long),
   language |-> Plain(4, Bytes)]
ReadFileRequest == [workspacePath |-> Plain(1, Bytes), filePath |-> Plain(2, Bytes)]
ReadFileResponse ==
  [success |-> Plain(1, Varint), file |-> Message(2, FileContents),
   error |-> Optional(3, Bytes)]
WriteFileRequest ==
  [workspacePath |-> Plain(1, Bytes), filePath |-> Plain(2, Bytes),
   content |-> Plain(3, Bytes)]
WriteFileResponse ==
  [success |-> Plain(1, Varint), error |-> Optional(2, Bytes),
   conflict |-> Plain(3, Varint)]

(* The calls of the service: what is asked and what is answered.           *)
Calls ==
  {<<CreatePtyRequest, CreatePtyResponse>>, <<KillPtyRequest, Empty>>,
   <<Empty, ListPtySessionsResponse>>, <<PtyInput, PtyOutput>>, <<ExecInput, ExecOutput>>,
   <<UpdateSessionRequest, Session>>, <<SessionWatchRequest, SessionWatchEvent>>,
   <<LockSessionRequest, LockSessionResponse>>, <<UnlockSessionRequest, Session>>,
   <<ForceUnlockSessionRequest, Session>>, <<Empty, Empty>>,
   <<ReadDirectoryRequest, ReadDirectoryResponse>>, <<ReadFileRequest, FileReadChunk>>,
   <<FileWriteChunk, WriteFileResponse>>, <<DeleteFileRequest, DeleteFileResponse>>,
   <<SearchFilesRequest, SearchFilesResponse>>, <<WatchFileRequest, FileWatchEvent>>,
   <<WatchFileRequest, FileSignalEvent>>}

Top == UNION {{c[1], c[2]} : c \in Calls}

-----------------------------------------------------------------------------
(* Encoding.                                                               *)

(* createBase*.                                                            *)
Base(schema) ==
  [f \in DOMAIN schema |-> IF schema[f].rule = "plain" THEN <<0>> ELSE <<>>]

(* A plain field is left out when it has the default, an optional one only *)
(* when it is undefined.                                                   *)
Written(d, values) ==
  IF d.rule = "plain" /\ values = <<0>> THEN <<>> ELSE values

RECURSIVE Encode(_, _)
Encode(schema, m) ==
  LET Token(d, v) ==
        IF Nested(d)
          THEN LET body == Encode(d.of[1], v)
               IN  <<[no |-> d.no, wt |-> 2, body |-> Len(body), value |-> 1]>> \o body
          ELSE <<[no |-> d.no, wt |-> d.type.wt, body |-> 0, value |-> v]>>
      Tokens(d, values) ==
        FlattenSeq([i \in DOMAIN Written(d, values) |-> Token(d, values[i])])
  IN  FlattenSeq([n \in 1..Highest |->
        FlattenSeq(SetToSeq({Tokens(schema[f], m[f]) : f \in {g \in DOMAIN schema : schema[g].no = n}}))])

-----------------------------------------------------------------------------
(* The other side's schema, and what it may send.                          *)

Without(schema, f) == [g \in DOMAIN schema \ {f} |-> schema[g]]
With(schema, f, d) == [g \in DOMAIN schema \cup {f} |-> IF g = f THEN d ELSE schema[g]]

(* One field is missing, new or of another type, at any depth.             *)
RECURSIVE Changed(_)
Changed(schema) ==
  {Without(schema, f) : f \in DOMAIN schema}
  \cup {With(schema, "extra", d) :
          d \in {Plain(Highest, Varint), Message(Highest, PtyExit)}}
  \cup {With(schema, f, Plain(schema[f].no, Double)) :
          f \in {g \in DOMAIN schema : schema[g].type # Double}}
  \cup UNION {{[schema EXCEPT ![f].of = <<of>>] : of \in Changed(schema[f].of[1])} :
                 f \in {g \in DOMAIN schema : Nested(schema[g])}}

RECURSIVE Samples(_)
Samples(schema) ==
  LET Some(d) ==
        LET one == IF Nested(d) THEN Samples(d.of[1])
                   ELSE IF d.type.long THEN {1, Huge} ELSE {1}
        IN  CASE d.rule = "plain" -> {<<v>> : v \in one}
              [] d.rule = "optional" -> {<<v>> : v \in one \cup (IF Nested(d) THEN {} ELSE {0})}
              [] OTHER -> {<<v>> : v \in one}
                            \cup {<<v, CHOOSE w \in one : TRUE>> : v \in one}
      full == [f \in DOMAIN schema |-> CHOOSE s \in Some(schema[f]) : TRUE]
  IN  {Base(schema), full}
      \cup UNION {{[Base(schema) EXCEPT ![f] = s] : s \in Some(schema[f])} : f \in DOMAIN schema}

Init ==
  /\ ours \in Top
  /\ theirs \in {ours} \cup Changed(ours)
  /\ message = <<>> /\ wire = <<>> /\ pos = 1 /\ frames = <<>>
  /\ outcome = "unsent"

Send ==
  /\ outcome = "unsent"
  /\ message' \in Samples(theirs)
  /\ wire' = Encode(theirs, message')
  /\ frames' = <<[schema |-> ours, end |-> Len(wire') + 1, made |-> Base(ours), field |-> "none"]>>
  /\ outcome' = "reading"
  /\ UNCHANGED <<ours, theirs, pos>>

-----------------------------------------------------------------------------
(* Decoding.                                                               *)

Frame == frames[Len(frames)]
Reading == outcome = "reading" /\ pos < Frame.end
Known(t) ==
  {f \in DOMAIN Frame.schema : Frame.schema[f].no = t.no /\ Frame.schema[f].type.wt = t.wt}

Set(frame, f, v) ==
  [frame EXCEPT !.made[f] = IF frame.schema[f].rule = "repeated" THEN Append(@, v) ELSE <<v>>]

ReadScalar ==
  /\ Reading
  /\ \E f \in Known(wire[pos]) :
       /\ ~Nested(Frame.schema[f])
       /\ IF Frame.schema[f].type.long /\ wire[pos].value = Huge
            THEN outcome' = "failed" /\ UNCHANGED <<pos, frames>> \* longToNumber throws
            ELSE /\ frames' = [frames EXCEPT ![Len(frames)] = Set(Frame, f, wire[pos].value)]
                 /\ pos' = pos + 1
                 /\ UNCHANGED outcome
  /\ UNCHANGED <<ours, theirs, message, wire>>

ReadMessage ==
  /\ Reading
  /\ \E f \in Known(wire[pos]) :
       /\ Nested(Frame.schema[f])
       /\ LET of == Frame.schema[f].of[1]
          IN  frames' = Append(frames, [schema |-> of, end |-> pos + 1 + wire[pos].body,
                                        made |-> Base(of), field |-> f])
  /\ pos' = pos + 1
  /\ UNCHANGED <<ours, theirs, message, wire, outcome>>

SkipTagOnly == \* a slip: what belongs to an unknown field is read as the message's own
  /\ Reading /\ Known(wire[pos]) = {}
  /\ pos' = pos + 1
  /\ UNCHANGED <<ours, theirs, message, wire, frames, outcome>>

(* reader.skip: an unknown number, or another type.                        *)
Skip ==
  /\ Reading /\ Known(wire[pos]) = {}
  /\ pos' = pos + 1 + wire[pos].body
  /\ UNCHANGED <<ours, theirs, message, wire, frames, outcome>>

(* decode() returns to the one that called it.                             *)
Return ==
  /\ outcome = "reading" /\ pos = Frame.end
  /\ IF Len(frames) = 1
       THEN outcome' = "done" /\ UNCHANGED frames
       ELSE /\ frames' = [i \in 1..(Len(frames) - 1) |->
                           IF i = Len(frames) - 1
                             THEN Set(frames[i], Frame.field, Frame.made) ELSE frames[i]]
            /\ UNCHANGED outcome
  /\ UNCHANGED <<ours, theirs, message, wire, pos>>

Next == Send \/ ReadScalar \/ ReadMessage \/ Skip \/ Return

Spec == Init /\ [][Next]_vars

-----------------------------------------------------------------------------
(* What the two sides agree on.                                            *)
Shared(mine, other) ==
  {f \in DOMAIN mine \cap DOMAIN other :
     mine[f].no = other[f].no /\ mine[f].type.wt = other[f].type.wt}

RECURSIVE Agreed(_, _, _)
Agreed(mine, other, m) ==
  [f \in DOMAIN mine |->
     IF f \notin Shared(mine, other) THEN Base(mine)[f]
     ELSE IF Nested(mine[f])
       THEN [i \in DOMAIN m[f] |-> Agreed(mine[f].of[1], other[f].of[1], m[f][i])]
       ELSE m[f]]

RECURSIVE Unsafe(_, _, _)
Unsafe(mine, other, m) ==
  \E f \in Shared(mine, other) : \E i \in DOMAIN m[f] :
    IF Nested(mine[f]) THEN Unsafe(mine[f].of[1], other[f].of[1], m[f][i])
    ELSE mine[f].type.long /\ m[f][i] = Huge

(* A message arrives as it was sent, but for the fields the sides do not   *)
(* share, which get their defaults: undefined is told from a default that  *)
(* was sent, repeated fields keep their order, and a nested message ends   *)
(* where it ended.  Only an unsafe integer makes decode() throw.           *)
WireAgrees ==
  /\ outcome = "done" => frames[1].made = Agreed(ours, theirs, message)
  /\ outcome \in {"done", "failed"} =>
       ((outcome = "failed") <=> Unsafe(ours, theirs, message))
  /\ \A i \in DOMAIN frames : i = Len(frames) => pos <= frames[i].end
=============================================================================
