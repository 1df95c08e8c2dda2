------------------------------ MODULE FileTools ------------------------------
(***************************************************************************)
(* server.py: the tools that are more than one call of the core, on one    *)
(* file.  write_file counts the versions, puts, and counts again; restore  *)
(* appends; read_version looks the version up before it streams it;        *)
(* check_permission asks for the permission and then for the file; reads   *)
(* go through guards.read_capped.                                          *)
(*                                                                         *)
(* A tool runs synchronously on the event loop, so this process has one    *)
(* call at a time, but between two of its RPCs other doors write, cull,    *)
(* delete and undelete the file and edit its ACL.  Content is abstracted to *)
(* its size, a version's timestamp to its number.                          *)
(*                                                                         *)
(* Operators named X_Remark are deviations of the X that follows them.     *)
(***************************************************************************)
EXTENDS Integers, Sequences

CONSTANTS
  ReadCap,     \* MCP_MAX_READ_BYTES, 0 for no cap
  WriteCap,    \* MCP_MAX_WRITE_BYTES, 0 for no cap
  MaxChunk,    \* the core streams content in chunks of at most this size
  MaxSize,     \* bound: contents are of 0..MaxSize
  MaxVersion,  \* bound: versions ever made
  None         \* no call

Size    == 0..MaxSize
Name    == 1..MaxVersion
Version == [name : Name, size : Size]
Tool    == {"write_file", "restore_version", "read_file", "read_version",
            "check_permission", "resource"}

ASSUME CapAssumption   == ReadCap \in Nat /\ WriteCap \in Nat
ASSUME BoundAssumption == /\ MaxSize \in Nat /\ MaxVersion \in Nat /\ MaxVersion > 0
                          /\ MaxChunk \in Int /\ MaxChunk > 0
ASSUME NoneAssumption  == None \notin [tool : Tool] /\ None \notin Nat

VARIABLES
  exists,    \* the file is there, and not deleted (external)
  granted,   \* what the core's CheckPermission answers (external)
  versions,  \* the file's history, newest first (external)
  last,      \* the newest name ever given (external)
  call       \* the tool in progress

store == <<exists, granted, versions, last>>
vars  == <<exists, granted, versions, last, call>>

Names == {versions[i].name : i \in DOMAIN versions}
Find(v) == CHOOSE i \in DOMAIN versions : versions[i].name = v

Init ==
  /\ exists \in BOOLEAN /\ granted \in BOOLEAN
  /\ last \in 0..1
  /\ versions \in [1..last -> [name : {1}, size : Size]]
  /\ call = None
-----------------------------------------------------------------------------
\* In a call: size and version are arguments; before, after and current make up
\* the answer of write_file; got counts the bytes in memory, of the opened ones;
\* puts, changes, readable and culled are history.
Begin(tool, size, version) ==
  /\ call = None
  /\ call' = [tool |-> tool, size |-> size, version |-> version,
              phase |-> "begun", before |-> 0, after |-> 0, current |-> 0,
              got |-> 0, opened |-> 0, answer |-> FALSE,
              puts |-> 0, mine |-> 0, changes |-> 0,
              readable |-> exists /\ granted, culled |-> FALSE]
  /\ UNCHANGED store

At(tools, phase) == call # None /\ call.tool \in tools /\ call.phase = phase
Goes(phase) == call' = [call EXCEPT !.phase = phase]

\* cap_write_bytes, before anything is asked of the core.
TooBig == WriteCap > 0 /\ call.size > WriteCap

RefuseWrite ==
  /\ At({"write_file"}, "begun") /\ TooBig
  /\ Goes("denied") /\ UNCHANGED store

Count ==
  /\ At({"write_file"}, "begun") /\ ~TooBig /\ exists
  /\ call' = [call EXCEPT !.phase = "counted", !.before = Len(versions)]
  /\ UNCHANGED store

\* The core appends a version.  It has done so also when its reply is lost.
Appended(size, phases) ==
  /\ exists /\ last < MaxVersion
  /\ last' = last + 1
  /\ versions' = <<[name |-> last', size |-> size]>> \o versions
  /\ \E phase \in phases : call' = [call EXCEPT !.phase = phase, !.mine = last',
                                                !.puts = @ + 1]
  /\ UNCHANGED <<exists, granted>>

Put == At({"write_file"}, "counted") /\ Appended(call.size, {"put", "error"})

Recount_OldestFirst ==
  /\ At({"write_file"}, "put") /\ exists
  /\ call' = [call EXCEPT !.phase = "done", !.after = Len(versions),
                          !.current = versions[Len(versions)].name]
  /\ UNCHANGED store
Recount ==
  /\ At({"write_file"}, "put") /\ exists
  /\ call' = [call EXCEPT !.phase = "done", !.after = Len(versions),
                          !.current = versions[1].name]
  /\ UNCHANGED store

\* The restored version's content once more, as the newest.
Restore_KeepsName ==
  /\ At({"restore_version"}, "begun") /\ exists /\ call.version \in Names
  /\ versions' = <<versions[Find(call.version)]>> \o versions
  /\ Goes("done") /\ UNCHANGED <<exists, granted, last>>
Restore ==
  /\ At({"restore_version"}, "begun") /\ call.version \in Names
  /\ Appended(versions[Find(call.version)].size, {"done", "error"})
-----------------------------------------------------------------------------
\* The newest content; nothing, of a file never written.
Newest == IF versions = <<>> THEN 0 ELSE versions[1].size

OpenCurrent ==
  /\ At({"read_file"}, "begun") /\ exists
  /\ call' = [call EXCEPT !.phase = "stream", !.opened = Newest]
  /\ UNCHANGED store

\* file_resource gets the same into a buffer.
OpenResource ==
  /\ At({"resource"}, "begun") /\ exists
  /\ call' = [call EXCEPT !.phase = "stream", !.opened = Newest]
  /\ UNCHANGED store

\* _read_version_bytes: the version must be in the history, and then is opened.
LookUp ==
  /\ At({"read_version"}, "begun") /\ exists
  /\ Goes(IF call.version \in Names THEN "found" ELSE "error")
  /\ UNCHANGED store

OpenVersion ==
  /\ At({"read_version"}, "found") /\ exists /\ call.version \in Names
  /\ call' = [call EXCEPT !.phase = "stream",
                          !.opened = versions[Find(call.version)].size]
  /\ UNCHANGED store

\* read_capped; a resource is read whole into a buffer instead.
OverCap(got) == call.tool # "resource" /\ ReadCap > 0 /\ got > ReadCap

Chunk_CapAtEnd ==
  /\ At(Tool, "stream") /\ call.got < call.opened
  /\ \E n \in 1..MaxChunk :
       LET got == call.got + n
       IN  /\ got <= call.opened
           /\ call' = [call EXCEPT !.got = got,
                                   !.phase = IF got = call.opened /\ OverCap(got)
                                             THEN "denied" ELSE @]
  /\ UNCHANGED store
Chunk ==
  /\ At(Tool, "stream") /\ call.got < call.opened
  /\ \E n \in 1..MaxChunk :
       LET got == call.got + n
       IN  /\ got <= call.opened
           /\ call' = [call EXCEPT !.got = got,
                                   !.phase = IF OverCap(got) THEN "denied" ELSE @]
  /\ UNCHANGED store

EndOfStream_AtCap ==
  /\ At(Tool, "stream")
  /\ call.got = call.opened \/ (ReadCap > 0 /\ call.got >= ReadCap)
  /\ Goes("done") /\ UNCHANGED store
EndOfStream ==
  /\ At(Tool, "stream") /\ call.got = call.opened
  /\ Goes("done") /\ UNCHANGED store

\* CheckPermission evaluates ACL rules only: what does not exist has none, and
\* no matching rule means READ.  So the tool asks for existence as well.
AskPermission_Only ==
  /\ At({"check_permission"}, "begun")
  /\ call' = [call EXCEPT !.phase = "done", !.answer = granted]
  /\ UNCHANGED store
AskPermission ==
  /\ At({"check_permission"}, "begun")
  /\ Goes(IF granted THEN "permitted" ELSE "done")
  /\ UNCHANGED store

AskExists ==
  /\ At({"check_permission"}, "permitted")
  /\ call' = [call EXCEPT !.phase = "done", !.answer = exists]
  /\ UNCHANGED store

\* Any RPC may fail, or find no file, and then the tool raises.
Raise ==
  /\ At({"write_file"}, "begun") => ~TooBig
  /\ \E phase \in {"begun", "counted", "put", "found", "stream", "permitted"} :
       At(Tool, phase)
  /\ Goes("error") /\ UNCHANGED store

Return ==
  /\ \E phase \in {"done", "denied", "error"} : At(Tool, phase)
  /\ call' = None
  /\ UNCHANGED store
-----------------------------------------------------------------------------
\* What the call in progress has lived through (history).
Changed(culled) ==
  call' = IF call = None THEN None
          ELSE [call EXCEPT !.changes = IF @ < 2 THEN @ + 1 ELSE @,
                            !.readable = @ \/ (exists' /\ granted'),
                            !.culled = @ \/ culled]

\* Other doors (external).  After a call's last RPC they wait for its end.
Others == call # None => call.phase \notin {"done", "denied", "error"}

OthersWrite(size) ==
  /\ Others /\ exists /\ last < MaxVersion
  /\ last' = last + 1
  /\ versions' = <<[name |-> last', size |-> size]>> \o versions
  /\ UNCHANGED <<exists, granted>> /\ Changed(FALSE)

\* An operator culls the oldest versions; the newest stays.
OthersCull(kept) ==
  /\ Others /\ kept < Len(versions)
  /\ versions' = SubSeq(versions, 1, kept)
  /\ UNCHANGED <<exists, granted, last>> /\ Changed(TRUE)

OthersDeleteOrUndelete ==
  /\ Others /\ exists' = ~exists
  /\ UNCHANGED <<granted, versions, last>> /\ Changed(FALSE)

OthersGrant ==
  /\ Others /\ granted' = ~granted
  /\ UNCHANGED <<exists, versions, last>> /\ Changed(FALSE)

Door == \/ RefuseWrite \/ Count \/ Put \/ Recount \/ Restore
        \/ OpenCurrent \/ OpenResource \/ LookUp \/ OpenVersion \/ Chunk \/ EndOfStream
        \/ AskPermission \/ AskExists \/ Raise \/ Return

Next ==
  \/ \E size \in Size : Begin("write_file", size, 0)
  \/ \E tool \in {"restore_version", "read_version"}, v \in Name :
       Begin(tool, 0, v)
  \/ \E tool \in {"read_file", "resource", "check_permission"} : Begin(tool, 0, 0)
  \/ Door
  \/ \E size \in Size : OthersWrite(size)
  \/ \E kept \in Name : OthersCull(kept)
  \/ OthersDeleteOrUndelete \/ OthersGrant

Spec == Init /\ [][Next]_vars
-----------------------------------------------------------------------------
\* The history is newest first and its names are in use once.
TypeOK ==
  /\ exists \in BOOLEAN /\ granted \in BOOLEAN /\ last \in 0..MaxVersion
  /\ \A i \in DOMAIN versions : versions[i] \in Version
  /\ \A i, j \in DOMAIN versions : i < j => versions[i].name > versions[j].name
  /\ call # None => /\ call.tool \in Tool /\ call.got \in 0..call.opened
                    /\ call.opened \in Size /\ call.answer \in BOOLEAN

\* One call makes one version at most, though the reply of the core be lost or
\* the second count fail; one that succeeds has made it, and one that the write cap
\* refuses has not.  (One that reports an error may have: its put, or the second
\* count, failed after the version was made.)
\* write_file reads the history before and after its put, and others may write
\* in between.  The current version it reports is its own or a later one, and
\* the count it reports has grown unless an operator culled meanwhile.
WriteReported ==
  /\ call # None => call.puts <= IF call.phase = "denied" THEN 0 ELSE 1
  /\ At({"write_file", "restore_version"}, "done") => call.puts = 1
  /\ At({"write_file"}, "done") =>
       /\ call.current >= call.mine
       /\ call.culled \/ call.after > call.before

\* A read answers with the whole content of the version it opened or not at all.
\* read_capped: "peak memory is bounded by the cap regardless of how large the
\* file is" -- by the cap and the chunk that passes it; nothing above the cap is
\* returned, and nothing within it refused.
ReadIsWhole ==
  /\ At({"read_file", "read_version"}, "done") =>
       call.got = call.opened /\ (ReadCap > 0 => call.got <= ReadCap)
  /\ (call # None /\ call.tool # "resource" /\ ReadCap > 0) =>
       /\ call.got <= ReadCap + MaxChunk
       /\ call.tool # "write_file" /\ call.phase = "denied" => call.opened > ReadCap

\* check_permission reads twice.  If one thing at most changed meanwhile, a True
\* is the truth of one moment: the file was there and the permission granted.
\* (After two it need not be: the permission withdrawn, then the file undeleted.)
PermittedAtOnce ==
  (At({"check_permission"}, "done") /\ call.answer /\ call.changes <= 1)
    => call.readable
=============================================================================
