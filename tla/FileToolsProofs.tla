-------------------------- MODULE FileToolsProofs --------------------------
(***************************************************************************)
(* Every property of FileTools, for any caps, sizes and chunks and for     *)
(* histories of any length.                                                *)
(*                                                                         *)
(* What a tool answers is made of what it read at earlier RPCs, so IInv    *)
(* says for each phase what the call still knows of the file: that the     *)
(* history has not shrunk below what it counted, that the newest version is *)
(* its own or a later one, that it was readable if it seems so.            *)
(***************************************************************************)
EXTENDS FileTools, SequenceTheorems, TLAPS

Phases == {"begun", "counted", "put", "found", "stream", "permitted",
           "done", "denied", "error"}

CallType ==
  [tool : Tool, size : Size, version : Int, phase : Phases, before : Nat, after : Nat,
   current : Int, got : Nat, opened : Size, answer : BOOLEAN, puts : Nat, mine : Int,
   changes : 0..2, readable : BOOLEAN, culled : BOOLEAN]

Typed ==
  /\ exists \in BOOLEAN /\ granted \in BOOLEAN /\ last \in 0..MaxVersion
  /\ versions \in Seq(Version)
  /\ call \in CallType \cup {None}

\* Newest first, every name given once.
HistorySound ==
  /\ \A i \in 1..Len(versions) : versions[i].name <= last
  /\ \A i, j \in 1..Len(versions) : i < j => versions[i].name > versions[j].name

\* What the writes of the call have done.
WriteSound ==
  call # None =>
    /\ call.puts <= 1
    /\ call.phase \notin {"put", "done", "error"} => call.puts = 0
    /\ call.phase \in {"counted", "put"} => call.tool = "write_file"
    /\ call.phase = "put" => call.puts = 1
    /\ call.phase \in {"found", "stream", "permitted"} => call.tool # "restore_version"
    /\ call.phase = "done" /\ call.tool \in {"write_file", "restore_version"} => call.puts = 1
    /\ call.phase = "counted" => call.culled \/ Len(versions) >= call.before
    /\ call.phase = "put" =>
         /\ Len(versions) >= 1 /\ versions[1].name >= call.mine
         /\ call.culled \/ Len(versions) > call.before

\* What its reads have in memory.
ReadSound ==
  call # None =>
    /\ call.got <= call.opened
    /\ call.phase \in {"begun", "found"} => call.got = 0
    /\ call.phase = "stream" => call.tool # "write_file"
    /\ (call.phase = "stream" /\ ReadCap > 0 /\ call.tool # "resource") => call.got <= ReadCap

\* What it knows of the permission.
PermissionSound ==
  call # None =>
    /\ exists /\ granted => call.readable
    /\ call.phase # "done" => ~call.answer
    /\ (call.phase = "permitted" /\ call.changes = 0) => granted
    /\ (call.phase = "permitted" /\ call.changes <= 1 /\ exists) => call.readable

IInv ==
  /\ Typed /\ HistorySound /\ WriteSound /\ ReadSound /\ PermissionSound
  /\ WriteReported /\ ReadIsWhole /\ PermittedAtOnce
-----------------------------------------------------------------------------
\* A version put before a history: the history follows it unchanged.
LEMMA Prepended ==
  ASSUME NEW v \in Version, NEW s \in Seq(Version)
  PROVE  /\ <<v>> \o s \in Seq(Version)
         /\ Len(<<v>> \o s) = Len(s) + 1
         /\ (<<v>> \o s)[1] = v
         /\ \A i \in 1..Len(s) : (<<v>> \o s)[i + 1] = s[i]
<1> DEFINE t == <<v>> \o s
<1>1. <<v>> \in Seq(Version) /\ Len(<<v>>) = 1
  OBVIOUS
<1>2. /\ t \in Seq(Version) /\ Len(t) = Len(s) + 1
      /\ \A i \in 1..Len(t) : t[i] = IF i <= 1 THEN <<v>>[i] ELSE s[i - 1]
  BY <1>1, ConcatProperties
<1>3. Len(s) \in Nat
  BY LenProperties
<1>4. t[1] = v /\ \A i \in 1..Len(s) : t[i + 1] = s[i]
  BY <1>2, <1>3
<1> QED
  BY <1>2, <1>4

\* The newest versions of a history.
LEMMA Culled ==
  ASSUME NEW s \in Seq(Version), NEW k \in Nat, k >= 1, k < Len(s)
  PROVE  /\ SubSeq(s, 1, k) \in Seq(Version)
         /\ Len(SubSeq(s, 1, k)) = k
         /\ \A i \in 1..k : SubSeq(s, 1, k)[i] = s[i]
<1>1. Len(s) \in Nat /\ \A i \in 1..k : s[i] \in Version
  BY LenProperties, ElementOfSeq
<1> QED
  BY <1>1, SubSeqProperties

\* The version of a name in use is in the history.
LEMMA Found ==
  ASSUME Typed, NEW v, v \in Names
  PROVE  versions[Find(v)] \in Version
<1>1. PICK i \in DOMAIN versions : versions[i].name = v
  BY DEF Names
<1>2. Find(v) \in DOMAIN versions
  BY <1>1 DEF Find
<1>3. DOMAIN versions = 1..Len(versions)
  BY LenProperties DEF Typed
<1> QED
  BY <1>2, <1>3, ElementOfSeq DEF Typed

LEMMA Initially == Init => IInv
<1> SUFFICES ASSUME Init PROVE IInv
  OBVIOUS
<1>1. call = None
  BY DEF Init
<1>2. /\ last \in Nat /\ last <= 1 /\ last <= MaxVersion /\ 1 \in Name
      /\ versions \in [1..last -> [name : {1}, size : Size]]
  BY BoundAssumption DEF Init, Name
<1>3. versions \in [1..last -> Version]
  BY <1>2 DEF Version
<1>4. versions \in Seq(Version) /\ Len(versions) = last
  <2>1. versions \in Seq(Version)
    BY <1>2, <1>3, SeqDef
  <2> QED
    BY <1>2, <2>1, LenProperties
<1>5. HistorySound
  <2>1. \A i \in 1..Len(versions) : versions[i].name = 1 /\ i = 1
    BY <1>2, <1>4
  <2> QED
    BY <1>2, <1>4, <2>1 DEF HistorySound
<1>6. Typed
  BY <1>1, <1>2, <1>4, BoundAssumption DEF Typed, Init
<1>7. WriteSound /\ ReadSound /\ PermissionSound
  BY <1>1 DEF WriteSound, ReadSound, PermissionSound
<1>8. WriteReported /\ ReadIsWhole /\ PermittedAtOnce
  BY <1>1 DEF WriteReported, ReadIsWhole, PermittedAtOnce, At
<1> QED
  BY <1>5, <1>6, <1>7, <1>8 DEF IInv
-----------------------------------------------------------------------------
LEMMA BeginStep ==
  ASSUME IInv, NEW tool \in Tool, NEW size \in Size, NEW version \in Int,
         Begin(tool, size, version)
  PROVE  IInv'
<1> DEFINE c == [tool |-> tool, size |-> size, version |-> version,
                 phase |-> "begun", before |-> 0, after |-> 0, current |-> 0,
                 got |-> 0, opened |-> 0, answer |-> FALSE,
                 puts |-> 0, mine |-> 0, changes |-> 0,
                 readable |-> exists /\ granted, culled |-> FALSE]
<1>1. call' = c /\ UNCHANGED <<exists, granted, versions, last>>
  BY DEF Begin, store
<1>2. c \in CallType
  <2>1. (exists /\ granted) \in BOOLEAN /\ 0 \in Size
    BY BoundAssumption DEF Size
  <2> QED
    BY <2>1 DEF CallType, Phases
<1>3. Typed' /\ HistorySound'
  BY <1>1, <1>2 DEF IInv, Typed, HistorySound
<1>4. /\ call'.phase = "begun" /\ call'.got = 0 /\ call'.opened = 0 /\ call'.puts = 0
      /\ call'.answer = FALSE /\ call'.tool = tool
  BY <1>1
<1>5. call'.readable = (exists /\ granted)
  BY <1>1
<1>6. WriteSound' /\ ReadSound'
  BY <1>4 DEF WriteSound, ReadSound
<1>7. PermissionSound'
  BY <1>1, <1>4, <1>5, Zenon DEF PermissionSound
<1>8. WriteReported' /\ ReadIsWhole' /\ PermittedAtOnce'
  BY <1>4, CapAssumption, BoundAssumption DEF WriteReported, ReadIsWhole, PermittedAtOnce, At
<1> QED
  BY <1>3, <1>6, <1>7, <1>8 DEF IInv

\* The end of a call leaves nothing to keep.
LEMMA ReturnStep == ASSUME IInv, Return PROVE IInv'
<1>1. call' = None /\ UNCHANGED <<exists, granted, versions, last>>
  BY DEF Return, store
<1>2. Typed' /\ HistorySound'
  BY <1>1 DEF IInv, Typed, HistorySound
<1> QED
  BY <1>1, <1>2 DEF IInv, WriteSound, ReadSound, PermissionSound, WriteReported, ReadIsWhole,
                    PermittedAtOnce, At
-----------------------------------------------------------------------------
\* Steps of the call that leave the file alone.

LEMMA StoreKept ==
  ASSUME IInv, UNCHANGED store, call' \in CallType
  PROVE  /\ Typed' /\ HistorySound'
         /\ UNCHANGED <<exists, granted, versions, last>>
BY DEF IInv, Typed, HistorySound, store

\* Another phase, and all else of the call as it was.
LEMMA PhaseOnly ==
  ASSUME call \in CallType, NEW p \in Phases, Goes(p)
  PROVE  /\ call' \in CallType /\ call'.phase = p
         /\ call'.tool = call.tool /\ call'.size = call.size /\ call'.version = call.version
         /\ call'.before = call.before /\ call'.after = call.after
         /\ call'.current = call.current /\ call'.got = call.got
         /\ call'.opened = call.opened /\ (call'.answer <=> call.answer)
         /\ call'.puts = call.puts /\ call'.mine = call.mine
         /\ call'.changes = call.changes /\ (call'.readable <=> call.readable)
         /\ (call'.culled <=> call.culled)
BY DEF Goes, CallType

\* A write refused by the cap, a look-up, an error: phases that claim little.
LEMMA AsideStep == ASSUME IInv, RefuseWrite \/ LookUp \/ Raise PROVE IInv'
<1>1. call # None /\ call \in CallType /\ UNCHANGED store
  BY DEF RefuseWrite, LookUp, Raise, At, IInv, Typed
<1>2. PICK p \in {"denied", "found", "error"} :
        /\ Goes(p)
        /\ p = "denied" => call.tool = "write_file" /\ call.phase = "begun"
        /\ p = "found" => call.tool = "read_version" /\ call.phase = "begun"
        /\ call.phase \notin {"done", "denied", "error"}
  BY DEF RefuseWrite, LookUp, Raise, At
<1>3. /\ call' \in CallType /\ call'.phase = p
      /\ call'.tool = call.tool /\ call'.got = call.got /\ call'.opened = call.opened
      /\ (call'.answer <=> call.answer) /\ call'.puts = call.puts
      /\ (call'.readable <=> call.readable)
  BY <1>1, <1>2, PhaseOnly DEF Phases
<1>4. Typed' /\ HistorySound' /\ UNCHANGED <<exists, granted, versions, last>>
  BY <1>1, <1>3, StoreKept
<1>5. WriteSound' /\ ReadSound'
  BY <1>1, <1>2, <1>3 DEF IInv, WriteSound, ReadSound
<1>6. PermissionSound'
  BY <1>1, <1>2, <1>3, <1>4 DEF IInv, PermissionSound
<1>7. WriteReported'
  BY <1>1, <1>2, <1>3 DEF IInv, WriteSound, WriteReported, At
<1>8. ReadIsWhole' /\ PermittedAtOnce'
  BY <1>1, <1>2, <1>3 DEF IInv, ReadIsWhole, PermittedAtOnce, At
<1> QED
  BY <1>4, <1>5, <1>6, <1>7, <1>8 DEF IInv

\* The first count of write_file.
LEMMA CountStep == ASSUME IInv, Count PROVE IInv'
<1>1. /\ call # None /\ call \in CallType /\ UNCHANGED store
      /\ call.tool = "write_file" /\ call.phase = "begun"
      /\ call' = [call EXCEPT !.phase = "counted", !.before = Len(versions)]
  BY DEF Count, At, IInv, Typed
<1>2. Len(versions) \in Nat
  BY LenProperties DEF IInv, Typed
<1>3. /\ call' \in CallType /\ call'.phase = "counted" /\ call'.before = Len(versions)
      /\ call'.tool = call.tool /\ call'.got = call.got /\ call'.opened = call.opened
      /\ (call'.answer <=> call.answer) /\ call'.puts = call.puts
      /\ (call'.readable <=> call.readable)
  BY <1>1, <1>2 DEF CallType, Phases
<1>4. Typed' /\ HistorySound' /\ UNCHANGED <<exists, granted, versions, last>>
  BY <1>1, <1>3, StoreKept
<1>5. WriteSound' /\ ReadSound'
  BY <1>1, <1>2, <1>3, <1>4 DEF IInv, WriteSound, ReadSound
<1>6. PermissionSound'
  BY <1>1, <1>3, <1>4 DEF IInv, PermissionSound
<1>7. WriteReported' /\ ReadIsWhole' /\ PermittedAtOnce'
  BY <1>1, <1>3, <1>5 DEF IInv, WriteSound, WriteReported, ReadIsWhole, PermittedAtOnce, At
<1> QED
  BY <1>4, <1>5, <1>6, <1>7 DEF IInv

\* The second: the newest version is its own or a later one.
LEMMA RecountStep == ASSUME IInv, Recount PROVE IInv'
<1>1. /\ call # None /\ call \in CallType /\ UNCHANGED store
      /\ call.tool = "write_file" /\ call.phase = "put"
      /\ call' = [call EXCEPT !.phase = "done", !.after = Len(versions),
                              !.current = versions[1].name]
  BY DEF Recount, At, IInv, Typed
<1>2. /\ Len(versions) \in Nat /\ Len(versions) >= 1 /\ versions[1].name >= call.mine
      /\ call.culled \/ Len(versions) > call.before
  BY <1>1, LenProperties DEF IInv, Typed, WriteSound
<1>3. versions[1].name \in Int
  <2>1. 1 \in 1..Len(versions)
    BY <1>2
  <2>2. versions[1] \in Version
    BY <2>1, ElementOfSeq DEF IInv, Typed
  <2> QED
    BY <2>2 DEF Version, Name
<1>4. /\ call' \in CallType /\ call'.phase = "done"
      /\ call'.after = Len(versions) /\ call'.current = versions[1].name
      /\ call'.before = call.before /\ call'.mine = call.mine
      /\ (call'.culled <=> call.culled)
      /\ call'.tool = call.tool /\ call'.got = call.got /\ call'.opened = call.opened
      /\ call'.puts = call.puts
      /\ (call'.readable <=> call.readable)
  BY <1>1, <1>2, <1>3 DEF CallType, Phases
<1>5. Typed' /\ HistorySound' /\ UNCHANGED <<exists, granted, versions, last>>
  BY <1>1, <1>4, StoreKept
<1>6. WriteSound' /\ ReadSound'
  BY <1>1, <1>4 DEF IInv, WriteSound, ReadSound
<1>7. PermissionSound'
  BY <1>1, <1>4, <1>5 DEF IInv, PermissionSound
<1>8. WriteReported'
  BY <1>1, <1>2, <1>4 DEF IInv, WriteSound, WriteReported, At
<1>9. ReadIsWhole' /\ PermittedAtOnce'
  BY <1>1, <1>4 DEF IInv, ReadIsWhole, PermittedAtOnce, At
<1> QED
  BY <1>5, <1>6, <1>7, <1>8, <1>9 DEF IInv

\* A read opens what it will answer with; nothing is in memory yet.
LEMMA OpenStep == ASSUME IInv, OpenCurrent \/ OpenResource \/ OpenVersion PROVE IInv'
<1>1. /\ call # None /\ call \in CallType /\ UNCHANGED store
      /\ call.tool \in {"read_file", "resource", "read_version"}
      /\ call.phase \in {"begun", "found"}
  BY DEF OpenCurrent, OpenResource, OpenVersion, At, IInv, Typed
<1>2. PICK size \in Size : call' = [call EXCEPT !.phase = "stream", !.opened = size]
  <2>1. CASE OpenVersion
    <3>1. versions[Find(call.version)] \in Version
      BY <2>1, Found DEF OpenVersion, IInv
    <3> QED
      BY <2>1, <3>1 DEF OpenVersion, Version
  <2>2. CASE OpenCurrent \/ OpenResource
    <3>1. Newest \in Size
      <4>1. CASE versions = <<>>
        BY <4>1, BoundAssumption DEF Newest, Size
      <4>2. CASE versions # <<>>
        <5>1. 1 \in 1..Len(versions)
          BY <4>2, EmptySeq DEF IInv, Typed
        <5>2. versions[1] \in Version
          BY <5>1, ElementOfSeq DEF IInv, Typed
        <5> QED
          BY <4>2, <5>2 DEF Newest, Version
      <4> QED
        BY <4>1, <4>2
    <3> QED
      BY <2>2, <3>1 DEF OpenCurrent, OpenResource
  <2> QED
    BY <1>1, <2>1, <2>2
<1>3. /\ call' \in CallType /\ call'.phase = "stream" /\ call'.opened = size
      /\ call'.tool = call.tool /\ call'.got = call.got
      /\ (call'.answer <=> call.answer) /\ call'.puts = call.puts
      /\ (call'.readable <=> call.readable)
  BY <1>1, <1>2 DEF CallType, Phases
<1>4. Typed' /\ HistorySound' /\ UNCHANGED <<exists, granted, versions, last>>
  BY <1>1, <1>3, StoreKept
<1>5. call.got = 0 /\ call.puts = 0 /\ size >= 0
  BY <1>1 DEF IInv, ReadSound, WriteSound, Size
<1>6. WriteSound' /\ ReadSound' /\ WriteReported' /\ ReadIsWhole' /\ PermittedAtOnce'
  BY <1>1, <1>3, <1>5, CapAssumption, BoundAssumption
     DEF WriteSound, ReadSound, WriteReported, ReadIsWhole, PermittedAtOnce, At
<1>7. PermissionSound'
  BY <1>1, <1>3, <1>4 DEF IInv, PermissionSound
<1> QED
  BY <1>4, <1>6, <1>7 DEF IInv

\* A chunk more: the cap is passed by this one, or not yet.
LEMMA ChunkStep == ASSUME IInv, Chunk PROVE IInv'
<1>1. /\ call # None /\ call \in CallType /\ UNCHANGED store /\ call.phase = "stream"
  BY DEF Chunk, At, IInv, Typed
<1>2. PICK n \in 1..MaxChunk :
        /\ call.got + n <= call.opened
        /\ call' = [call EXCEPT !.got = call.got + n,
                                !.phase = IF OverCap(call.got + n) THEN "denied"
                                          ELSE call.phase]
  BY DEF Chunk
<1> DEFINE got == call.got + n
<1>3. /\ call.got \in Nat /\ call.opened \in Nat /\ n \in Nat /\ got \in Nat /\ n <= MaxChunk
      /\ MaxChunk \in Int /\ ReadCap \in Nat
  BY <1>1, <1>2, CapAssumption, BoundAssumption DEF CallType, Size
<1>4. /\ call' \in CallType /\ call'.got = got
      /\ call'.phase = IF OverCap(got) THEN "denied" ELSE "stream"
      /\ call'.tool = call.tool /\ call'.opened = call.opened
      /\ (call'.answer <=> call.answer) /\ call'.puts = call.puts
      /\ (call'.readable <=> call.readable)
  BY <1>1, <1>2, <1>3 DEF CallType, Phases
<1>5. Typed' /\ HistorySound' /\ UNCHANGED <<exists, granted, versions, last>>
  BY <1>1, <1>4, StoreKept
<1>6. /\ call.puts = 0 /\ (call.tool # "resource" /\ ReadCap > 0 => call.got <= ReadCap)
      /\ call.tool \notin {"write_file", "restore_version"}
  BY <1>1 DEF IInv, WriteSound, ReadSound
<1>7. WriteSound' /\ WriteReported' /\ PermittedAtOnce'
  BY <1>4, <1>6 DEF WriteSound, WriteReported, PermittedAtOnce, At
<1>8. ReadSound'
  BY <1>1, <1>2, <1>3, <1>4 DEF IInv, ReadSound, OverCap
<1>9. ReadIsWhole'
  BY <1>2, <1>3, <1>4, <1>6 DEF ReadIsWhole, OverCap, At
<1>10. PermissionSound'
  BY <1>1, <1>4, <1>5 DEF IInv, PermissionSound
<1> QED
  BY <1>5, <1>7, <1>8, <1>9, <1>10 DEF IInv

\* The stream ends: what was opened is all there, and within the cap.
LEMMA EndStep == ASSUME IInv, EndOfStream PROVE IInv'
<1>1. /\ call # None /\ call \in CallType /\ UNCHANGED store /\ call.phase = "stream"
      /\ call.got = call.opened /\ Goes("done")
  BY DEF EndOfStream, At, IInv, Typed
<1>2. /\ call' \in CallType /\ call'.phase = "done"
      /\ call'.tool = call.tool /\ call'.got = call.got /\ call'.opened = call.opened
      /\ (call'.answer <=> call.answer) /\ call'.puts = call.puts
      /\ (call'.readable <=> call.readable)
  BY <1>1, PhaseOnly DEF Phases
<1>3. Typed' /\ HistorySound' /\ UNCHANGED <<exists, granted, versions, last>>
  BY <1>1, <1>2, StoreKept
<1>4. call.puts = 0 /\ ~call.answer
  BY <1>1 DEF IInv, WriteSound, PermissionSound
<1>5. call.tool # "write_file"
  BY <1>1 DEF IInv, ReadSound
<1>6. WriteSound' /\ WriteReported' /\ PermittedAtOnce' /\ PermissionSound'
  BY <1>1, <1>2, <1>3, <1>4, <1>5
     DEF IInv, WriteSound, WriteReported, PermittedAtOnce, PermissionSound, At
<1>7. ReadSound' /\ ReadIsWhole'
  BY <1>1, <1>2 DEF IInv, ReadSound, ReadIsWhole, At
<1> QED
  BY <1>3, <1>6, <1>7 DEF IInv

\* The first answer of check_permission, and, granted, the second.
LEMMA AskStep == ASSUME IInv, AskPermission \/ AskExists PROVE IInv'
<1>1. /\ call # None /\ call \in CallType /\ UNCHANGED store
      /\ call.tool = "check_permission" /\ call.phase \in {"begun", "permitted"}
  BY DEF AskPermission, AskExists, At, IInv, Typed
<1>2. /\ exists \in BOOLEAN /\ granted \in BOOLEAN /\ ~call.answer
      /\ call.puts = 0
  BY <1>1 DEF IInv, Typed, WriteSound, PermissionSound
<1>3. /\ call' \in CallType /\ call'.phase \in {"permitted", "done"}
      /\ call'.tool = call.tool /\ call'.got = call.got /\ call'.opened = call.opened
      /\ call'.puts = call.puts /\ call'.changes = call.changes
      /\ (call'.readable <=> call.readable)
      /\ call'.phase = "permitted" => granted /\ ~call'.answer
      /\ call'.answer => call.phase = "permitted" /\ exists
  <2>1. CASE AskPermission
    <3>1. PICK p \in {"permitted", "done"} : Goes(p) /\ (p = "permitted" => granted)
      BY <2>1 DEF AskPermission
    <3> QED
      BY <1>1, <1>2, <3>1, PhaseOnly DEF Phases
  <2>2. CASE AskExists
    <3>1. call' = [call EXCEPT !.phase = "done", !.answer = exists] /\ call.phase = "permitted"
      BY <2>2 DEF AskExists, At
    <3> QED
      BY <1>1, <1>2, <3>1 DEF CallType, Phases
  <2> QED
    BY <2>1, <2>2
<1>4. Typed' /\ HistorySound' /\ UNCHANGED <<exists, granted, versions, last>>
  BY <1>1, <1>3, StoreKept
<1>5. WriteSound' /\ WriteReported'
  BY <1>1, <1>2, <1>3 DEF WriteSound, WriteReported, At
<1>6. ReadSound' /\ ReadIsWhole'
  BY <1>1, <1>3 DEF IInv, ReadSound, ReadIsWhole, At
<1>7. PermissionSound'
  BY <1>1, <1>3, <1>4 DEF IInv, PermissionSound
<1>8. PermittedAtOnce'
  BY <1>1, <1>3 DEF IInv, PermissionSound, PermittedAtOnce, At
<1> QED
  BY <1>4, <1>5, <1>6, <1>7, <1>8 DEF IInv
-----------------------------------------------------------------------------
\* A version with a new name is put before the history.
LEMMA HistoryGrows ==
  ASSUME Typed, HistorySound, last < MaxVersion, NEW size \in Size,
         last' = last + 1, versions' = <<[name |-> last', size |-> size]>> \o versions
  PROVE  /\ last' \in 0..MaxVersion /\ versions' \in Seq(Version) /\ HistorySound'
         /\ Len(versions) \in Nat /\ Len(versions') = Len(versions) + 1
         /\ versions'[1].name = last'
<1> DEFINE v == [name |-> last', size |-> size]
<1>1. last \in Nat /\ last' \in 0..MaxVersion /\ last' \in Name
  BY BoundAssumption DEF Typed, Name
<1>2. v \in Version /\ versions \in Seq(Version)
  BY <1>1 DEF Version, Typed
<1>3. /\ versions' \in Seq(Version) /\ Len(versions') = Len(versions) + 1
      /\ versions'[1] = v
      /\ \A i \in 1..Len(versions) : versions'[i + 1] = versions[i]
  <2> HIDE DEF v
  <2>1. versions' = <<v>> \o versions
    BY DEF v
  <2> QED
    BY <1>2, <2>1, Prepended
<1>4. Len(versions) \in Nat
  BY <1>2, LenProperties
<1>5. HistorySound'
  <2>1. \A i \in 1..Len(versions') : i = 1 \/ (i - 1 \in 1..Len(versions)
                                              /\ versions'[i] = versions[i - 1])
    BY <1>3, <1>4
  <2>2. \A i \in 1..Len(versions) : versions[i].name \in Int /\ versions[i].name <= last
    <3>1. ASSUME NEW i \in 1..Len(versions) PROVE versions[i] \in Version
      BY <1>2, ElementOfSeq
    <3> QED
      BY <3>1 DEF HistorySound, Version, Name
  <2>3. versions'[1].name = last + 1
    BY <1>3
  <2>4. ASSUME NEW i \in 1..Len(versions') PROVE versions'[i].name <= last'
    <3>1. CASE i = 1
      BY <1>1, <2>3, <3>1
    <3>2. CASE i # 1
      <4>1. i - 1 \in 1..Len(versions) /\ versions'[i] = versions[i - 1]
        BY <2>1, <3>2
      <4>2. versions[i - 1].name \in Int /\ versions[i - 1].name <= last
        BY <2>2, <4>1
      <4> QED
        BY <1>1, <4>1, <4>2
    <3> QED
      BY <3>1, <3>2
  <2>5. ASSUME NEW i \in 1..Len(versions'), NEW j \in 1..Len(versions'), i < j
        PROVE  versions'[i].name > versions'[j].name
    <3>1. j - 1 \in 1..Len(versions) /\ versions'[j] = versions[j - 1]
      BY <2>1, <2>5, <1>4, <1>3
    <3>2. CASE i = 1
      BY <1>1, <2>2, <2>3, <3>1, <3>2
    <3>3. CASE i # 1
      <4>1. i - 1 \in 1..Len(versions) /\ versions'[i] = versions[i - 1]
        BY <2>1, <3>3
      <4>2. i - 1 < j - 1
        BY <2>5, <1>3, <1>4
      <4> QED
        BY <3>1, <4>1, <4>2 DEF HistorySound
    <3> QED
      BY <3>2, <3>3
  <2> QED
    BY <2>4, <2>5 DEF HistorySound
<1> QED
  BY <1>1, <1>3, <1>4, <1>5

\* The put of write_file and the append of a restore: one version, that of the call.
LEMMA AppendStep == ASSUME IInv, Put \/ Restore PROVE IInv'
<1>1. PICK size \in Size, p \in {"put", "done", "error"} :
        /\ call # None /\ call \in CallType
        /\ p = "put" => call.phase = "counted"
        /\ call.phase \in {"begun", "counted"}
        /\ p = "done" => call.tool = "restore_version"
        /\ last < MaxVersion /\ last' = last + 1
        /\ versions' = <<[name |-> last', size |-> size]>> \o versions
        /\ call' = [call EXCEPT !.phase = p, !.mine = last', !.puts = call.puts + 1]
        /\ UNCHANGED <<exists, granted>>
  <2>0. call # None /\ call \in CallType
    BY DEF Put, Restore, At, IInv, Typed
  <2>1. CASE Put
    <3>1. call.size \in Size
      BY <2>0 DEF CallType
    <3> QED
      BY <2>0, <2>1, <3>1 DEF Put, Appended, At
  <2>2. CASE Restore
    <3>1. versions[Find(call.version)].size \in Size
      <4>1. versions[Find(call.version)] \in Version
        BY <2>2, Found DEF Restore, IInv
      <4> QED
        BY <4>1 DEF Version
    <3>2. /\ call.tool = "restore_version" /\ call.phase = "begun"
          /\ Appended(versions[Find(call.version)].size, {"done", "error"})
      BY <2>2 DEF Restore, At
    <3> QED
      BY <2>0, <3>1, <3>2 DEF Appended
  <2> QED
    BY <2>1, <2>2
<1>2. /\ last' \in 0..MaxVersion /\ versions' \in Seq(Version) /\ HistorySound'
      /\ Len(versions) \in Nat /\ Len(versions') = Len(versions) + 1
      /\ versions'[1].name = last'
  BY <1>1, HistoryGrows DEF IInv
<1>3. call.puts = 0
  BY <1>1 DEF IInv, WriteSound
<1>4. /\ call' \in CallType /\ call'.phase = p /\ call'.mine = last' /\ call'.puts = 1
      /\ call'.before = call.before /\ (call'.culled <=> call.culled)
      /\ call'.tool = call.tool /\ call'.got = call.got /\ call'.opened = call.opened
      /\ (call'.answer <=> call.answer) /\ (call'.readable <=> call.readable)
  <2>1. last' \in Int
    BY <1>2, BoundAssumption
  <2>2. call' = [call EXCEPT !.phase = p, !.mine = last', !.puts = 1]
    BY <1>1, <1>3
  <2>3. p \in Phases /\ call \in CallType
    BY <1>1 DEF Phases
  <2>4. call' \in CallType
    BY <2>1, <2>2, <2>3 DEF CallType
  <2>5. /\ call'.phase = p /\ call'.mine = last' /\ call'.puts = 1
        /\ call'.before = call.before /\ call'.culled = call.culled
        /\ call'.tool = call.tool /\ call'.got = call.got /\ call'.opened = call.opened
        /\ call'.answer = call.answer /\ call'.readable = call.readable
    BY <1>1, <2>2 DEF CallType
  <2> QED
    BY <2>4, <2>5, Zenon
<1>5. Typed'
  BY <1>1, <1>2, <1>4 DEF IInv, Typed
<1>6. WriteSound'
  <2>1. p = "put" => call.tool = "write_file" /\ (call.culled \/ Len(versions') > call.before)
    <3>1. call.before \in Nat
      BY <1>1 DEF CallType
    <3> QED
      BY <1>1, <1>2, <3>1 DEF IInv, WriteSound
  <2> QED
    BY <1>1, <1>2, <1>4, <2>1 DEF WriteSound
<1>7. ReadSound' /\ WriteReported' /\ ReadIsWhole'
  BY <1>1, <1>4 DEF IInv, ReadSound, WriteReported, ReadIsWhole, At
<1>8. PermissionSound' /\ PermittedAtOnce'
  BY <1>1, <1>4 DEF IInv, PermissionSound, PermittedAtOnce, At
<1> QED
  BY <1>2, <1>5, <1>6, <1>7, <1>8 DEF IInv
-----------------------------------------------------------------------------
\* What a call notes of a change made by others.
LEMMA CallNotes ==
  ASSUME Typed, call # None, NEW culled \in BOOLEAN, Changed(culled),
         exists' \in BOOLEAN, granted' \in BOOLEAN
  PROVE  /\ call' \in CallType /\ call'.phase = call.phase
         /\ call'.tool = call.tool /\ call'.before = call.before
         /\ call'.got = call.got /\ call'.opened = call.opened
         /\ (call'.answer <=> call.answer) /\ call'.puts = call.puts
         /\ call'.mine = call.mine
         /\ call'.changes \in 1..2 /\ call'.changes >= call.changes
         /\ call'.changes <= 1 => call.changes = 0
         /\ (call'.readable <=> call.readable \/ (exists' /\ granted'))
         /\ (call'.culled <=> call.culled \/ culled)
<1>0. call \in CallType
  BY DEF Typed
<1> DEFINE more == IF call.changes < 2 THEN call.changes + 1 ELSE call.changes
           r == call.readable \/ (exists' /\ granted')
           c == call.culled \/ culled
<1>1. call' = [call EXCEPT !.changes = more, !.readable = r, !.culled = c]
  BY Zenon DEF Changed
<1>2. call.changes \in 0..2 /\ call.readable \in BOOLEAN /\ call.culled \in BOOLEAN
  BY <1>0 DEF CallType
<1>3. /\ more \in 1..2 /\ more \in 0..2 /\ more >= call.changes
      /\ more <= 1 => call.changes = 0
  BY <1>2
<1>4. r \in BOOLEAN /\ c \in BOOLEAN
  OBVIOUS
<1> HIDE DEF more, r, c
<1>5. /\ call' \in CallType /\ call'.phase = call.phase
      /\ call'.tool = call.tool /\ call'.before = call.before
      /\ call'.got = call.got /\ call'.opened = call.opened
      /\ (call'.answer <=> call.answer) /\ call'.puts = call.puts
      /\ call'.mine = call.mine
      /\ call'.changes = more
      /\ (call'.readable <=> r) /\ (call'.culled <=> c)
  BY <1>0, <1>1, <1>3, <1>4 DEF CallType
<1> QED
  BY <1>3, <1>5, Zenon DEF r, c

\* What others do leaves a call as it was but for what it notes, and only between
\* its RPCs.  Of the file it must leave: a newest version, and no shorter a history
\* unless they cull.
LEMMA OthersLeave ==
  ASSUME IInv, call # None, Others, NEW culled \in BOOLEAN, Changed(culled),
         Typed', HistorySound',
         culled \/ Len(versions') >= Len(versions),
         Len(versions) >= 1 => Len(versions') >= 1 /\ versions'[1].name >= versions[1].name,
         UNCHANGED exists \/ UNCHANGED granted
  PROVE  IInv'
<1>0. /\ call.phase \notin {"done", "denied", "error"} /\ call \in CallType
      /\ exists' \in BOOLEAN /\ granted' \in BOOLEAN
  BY DEF Others, IInv, Typed
<1>1. /\ call' \in CallType /\ call'.phase = call.phase
      /\ call'.tool = call.tool /\ call'.before = call.before
      /\ call'.got = call.got /\ call'.opened = call.opened
      /\ (call'.answer <=> call.answer) /\ call'.puts = call.puts
      /\ call'.mine = call.mine
      /\ call'.changes \in 1..2 /\ call'.changes >= call.changes
      /\ call'.changes <= 1 => call.changes = 0
      /\ (call'.readable <=> call.readable \/ (exists' /\ granted'))
      /\ (call'.culled <=> call.culled \/ culled)
  BY <1>0, CallNotes DEF IInv
<1>2. /\ Len(versions) \in Nat /\ Len(versions') \in Nat
      /\ call.before \in Nat /\ call.mine \in Int
  BY <1>0, LenProperties DEF IInv, Typed, CallType
<1>3. WriteSound'
  <2>1. call.phase = "put" =>
          /\ Len(versions') >= 1 /\ versions'[1].name >= call.mine
          /\ call'.culled \/ Len(versions') > call.before
    <3>1. SUFFICES ASSUME call.phase = "put"
                   PROVE  /\ Len(versions') >= 1 /\ versions'[1].name >= call.mine
                          /\ call'.culled \/ Len(versions') > call.before
      OBVIOUS
    <3>2. /\ Len(versions) >= 1 /\ versions[1].name >= call.mine
          /\ call.culled \/ Len(versions) > call.before
      BY <3>1 DEF IInv, WriteSound
    <3>3. 1 \in 1..Len(versions) /\ 1 \in 1..Len(versions')
      BY <1>2, <3>2
    <3>4. versions[1] \in Version /\ versions'[1] \in Version
      BY <3>3, ElementOfSeq DEF IInv, Typed
    <3>5. versions[1].name \in Int /\ versions'[1].name \in Int
      BY <3>4 DEF Version, Name
    <3> QED
      BY <1>1, <1>2, <3>2, <3>5
  <2>2. call.phase = "counted" => call'.culled \/ Len(versions') >= call.before
    BY <1>1, <1>2 DEF IInv, WriteSound
  <2> QED
    BY <1>0, <1>1, <2>1, <2>2 DEF IInv, WriteSound
<1>4. ReadSound' /\ ReadIsWhole'
  BY <1>0, <1>1 DEF IInv, ReadSound, ReadIsWhole, At
<1>5. PermissionSound'
  <2>1. exists' /\ granted' => call'.readable
    BY <1>1
  <2>2. call'.phase # "done" => ~call'.answer
    BY <1>1 DEF IInv, PermissionSound
  <2>3. call.phase = "permitted" /\ call'.changes <= 1 =>
          granted /\ (exists => call.readable)
    BY <1>1 DEF IInv, PermissionSound
  <2>4. call.phase = "permitted" /\ call'.changes <= 1 /\ exists' => call'.readable
    <3>1. call.readable => call'.readable
      BY <1>1
    <3>2. CASE exists' = exists
      BY <2>3, <3>1, <3>2
    <3>3. CASE granted' = granted
      BY <2>1, <2>3, <3>3
    <3> QED
      BY <3>2, <3>3
  <2> QED
    BY <1>1, <2>1, <2>2, <2>4 DEF PermissionSound
<1>6. WriteReported' /\ PermittedAtOnce'
  BY <1>0, <1>1, <1>3 DEF IInv, WriteReported, WriteSound, PermittedAtOnce, At
<1> QED
  BY <1>3, <1>4, <1>5, <1>6 DEF IInv

\* Other doors write, cull, delete, undelete and edit the ACL.
LEMMA OthersStep ==
  ASSUME IInv,
         \/ \E size \in Size : OthersWrite(size)
         \/ \E kept \in Name : OthersCull(kept)
         \/ OthersDeleteOrUndelete \/ OthersGrant
  PROVE  IInv'
<1>1. PICK culled \in BOOLEAN :
        /\ Others /\ Changed(culled)
        /\ UNCHANGED exists \/ UNCHANGED granted
        /\ exists' \in BOOLEAN /\ granted' \in BOOLEAN
        /\ last' \in 0..MaxVersion /\ versions' \in Seq(Version) /\ HistorySound'
        /\ culled \/ Len(versions') >= Len(versions)
        /\ Len(versions) >= 1 => Len(versions') >= 1 /\ versions'[1].name >= versions[1].name
  <2>0. /\ exists \in BOOLEAN /\ granted \in BOOLEAN /\ last \in 0..MaxVersion
        /\ versions \in Seq(Version) /\ Len(versions) \in Nat
    BY LenProperties DEF IInv, Typed
  <2>1. Len(versions) >= 1 => versions[1].name \in Int /\ versions[1].name <= last
    <3>1. SUFFICES ASSUME Len(versions) >= 1
                   PROVE  versions[1].name \in Int /\ versions[1].name <= last
      OBVIOUS
    <3>2. 1 \in 1..Len(versions)
      BY <2>0, <3>1
    <3>3. versions[1] \in Version
      BY <2>0, <3>2, ElementOfSeq
    <3> QED
      BY <3>2, <3>3 DEF IInv, HistorySound, Version, Name
  <2>2. CASE \E size \in Size : OthersWrite(size)
    <3>1. PICK size \in Size : OthersWrite(size)
      BY <2>2
    <3>2. /\ last' \in 0..MaxVersion /\ versions' \in Seq(Version) /\ HistorySound'
          /\ Len(versions') = Len(versions) + 1 /\ versions'[1].name = last'
          /\ last' = last + 1
      BY <3>1, HistoryGrows DEF OthersWrite, IInv
    <3>3. /\ Len(versions') >= Len(versions)
          /\ Len(versions) >= 1 => Len(versions') >= 1 /\ versions'[1].name >= versions[1].name
      BY <2>0, <2>1, <3>2, BoundAssumption
    <3>4. Others /\ Changed(FALSE) /\ UNCHANGED <<exists, granted>>
      BY <3>1 DEF OthersWrite
    <3> QED
      BY <2>0, <3>2, <3>3, <3>4
  <2>3. CASE \E kept \in Name : OthersCull(kept)
    <3>1. PICK kept \in Name : OthersCull(kept)
      BY <2>3
    <3>2. kept \in Nat /\ kept >= 1 /\ kept < Len(versions)
      BY <3>1 DEF OthersCull, Name
    <3>3. /\ versions' \in Seq(Version) /\ Len(versions') = kept
          /\ \A i \in 1..kept : versions'[i] = versions[i]
      BY <2>0, <3>1, <3>2, Culled DEF OthersCull
    <3>4. /\ Others /\ Changed(TRUE) /\ UNCHANGED <<exists, granted, last>>
      BY <3>1 DEF OthersCull
    <3>5. HistorySound'
      BY <2>0, <3>2, <3>3, <3>4 DEF IInv, HistorySound
    <3>6. Len(versions') >= 1 /\ versions'[1].name >= versions[1].name
      BY <2>0, <2>1, <3>2, <3>3
    <3> QED
      BY <2>0, <3>3, <3>4, <3>5, <3>6
  <2>4. CASE OthersDeleteOrUndelete \/ OthersGrant
    <3>1. /\ Others /\ Changed(FALSE) /\ UNCHANGED <<versions, last>>
          /\ UNCHANGED exists \/ UNCHANGED granted
          /\ exists' \in BOOLEAN /\ granted' \in BOOLEAN
      BY <2>0, <2>4 DEF OthersDeleteOrUndelete, OthersGrant
    <3>2. HistorySound'
      BY <3>1 DEF IInv, HistorySound
    <3>3. /\ Len(versions') >= Len(versions)
          /\ Len(versions) >= 1 => Len(versions') >= 1 /\ versions'[1].name >= versions[1].name
      BY <2>0, <2>1, <3>1
    <3> QED
      BY <2>0, <3>1, <3>2, <3>3
  <2> QED
    BY <2>2, <2>3, <2>4
<1>2. CASE call = None
  <2>1. call' = None
    BY <1>1, <1>2 DEF Changed
  <2> QED
    BY <1>1, <2>1 DEF IInv, Typed, WriteSound, ReadSound, PermissionSound, WriteReported,
                      ReadIsWhole, PermittedAtOnce, At
<1>3. CASE call # None
  <2>1. call' \in CallType
    BY <1>1, <1>3, CallNotes DEF IInv
  <2>2. Typed'
    BY <1>1, <2>1 DEF Typed
  <2> QED
    BY <1>1, <1>3, <2>2, OthersLeave
<1> QED
  BY <1>2, <1>3
-----------------------------------------------------------------------------
LEMMA Consecution == IInv /\ [Next]_vars => IInv'
<1> SUFFICES ASSUME IInv, [Next]_vars PROVE IInv'
  OBVIOUS
<1>1. CASE \/ \E size \in Size : Begin("write_file", size, 0)
           \/ \E tool \in {"restore_version", "read_version"}, v \in Name : Begin(tool, 0, v)
           \/ \E tool \in {"read_file", "resource", "check_permission"} : Begin(tool, 0, 0)
  <2>1. PICK tool \in Tool, size \in Size, version \in Int : Begin(tool, size, version)
    <3>1. 0 \in Size
      BY BoundAssumption DEF Size
    <3> QED
      BY <1>1, <3>1 DEF Tool, Name
  <2> QED
    BY <2>1, BeginStep
<1>2. CASE Door
  BY <1>2, AsideStep, CountStep, AppendStep, RecountStep, OpenStep, ChunkStep, EndStep,
     AskStep, ReturnStep DEF Door
<1>3. CASE \/ \E size \in Size : OthersWrite(size)
           \/ \E kept \in Name : OthersCull(kept)
           \/ OthersDeleteOrUndelete \/ OthersGrant
  BY <1>3, OthersStep
<1>4. CASE UNCHANGED vars
  <2>1. UNCHANGED <<exists, granted, versions, last, call>>
    BY <1>4 DEF vars
  <2> QED
    BY <2>1 DEF IInv, Typed, HistorySound, WriteSound, ReadSound, PermissionSound,
                WriteReported, ReadIsWhole, PermittedAtOnce, At
<1> QED
  BY <1>1, <1>2, <1>3, <1>4 DEF Next

LEMMA Invariance == Spec => []IInv
BY Initially, Consecution, PTL DEF Spec

\* The history stays one: newest first, each name given once.
THEOREM TypeCorrect == Spec => []TypeOK
<1>1. IInv => TypeOK
  <2> SUFFICES ASSUME IInv PROVE TypeOK
    OBVIOUS
  <2>1. DOMAIN versions = 1..Len(versions)
    BY LenProperties DEF IInv, Typed
  <2>2. \A i \in DOMAIN versions : versions[i] \in Version
    BY <2>1, ElementOfSeq DEF IInv, Typed
  <2>3. \A i, j \in DOMAIN versions : i < j => versions[i].name > versions[j].name
    BY <2>1 DEF IInv, HistorySound
  <2>4. call # None =>
          call.tool \in Tool /\ call.opened \in Size /\ call.answer \in BOOLEAN
          /\ call.got \in Nat /\ call.got <= call.opened
    BY DEF IInv, Typed, ReadSound, CallType
  <2>5. call # None => call.got \in 0..call.opened
    BY <2>4 DEF Size
  <2> QED
    BY <2>2, <2>3, <2>4, <2>5 DEF IInv, Typed, TypeOK
<1> QED
  BY <1>1, Invariance, PTL

\* What write_file reports is true whatever other doors did meanwhile, and no
\* call makes two versions.
THEOREM WriteTrue == Spec => []WriteReported
<1>1. IInv => WriteReported
  BY DEF IInv
<1> QED
  BY <1>1, Invariance, PTL

\* A read is whole or refused, and holds no more than the cap and a chunk.
THEOREM ReadsWhole == Spec => []ReadIsWhole
<1>1. IInv => ReadIsWhole
  BY DEF IInv
<1> QED
  BY <1>1, Invariance, PTL

\* A permission affirmed was one, unless two things changed while it was asked for.
THEOREM PermissionTrue == Spec => []PermittedAtOnce
<1>1. IInv => PermittedAtOnce
  BY DEF IInv
<1> QED
  BY <1>1, Invariance, PTL
=============================================================================
