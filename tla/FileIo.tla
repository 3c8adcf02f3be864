------------------------------- MODULE FileIo -------------------------------
(***************************************************************************)
(* Byte and file I/O of Core (src/src/core/io.cc): the transfer loops      *)
(* ReadExact and WriteAll over sources and sinks that move part of a       *)
(* request, File as the only owner of a native stream, and the helpers     *)
(* ReadTextFile and WriteTextFile, which own a File of their own.  One     *)
(* thread calls; each request to a source, a sink or the C library is a    *)
(* step, and each may fail.                                                *)
(*                                                                         *)
(* There is one path, written through one stream at a time.  A byte that   *)
(* fwrite has counted is in the stream behind the bytes counted before it; *)
(* the retry of WriteAll after a short write relies on that.  A File that  *)
(* has been destroyed is a closed one: neither holds anything.             *)
(***************************************************************************)
EXTENDS Integers, SequencesExt

CONSTANTS
  Files,     \* the File objects of the caller
  Streams,   \* the FILE objects of the C library
  Bytes,     \* the values of a byte
  Texts,     \* contents and texts to write
  Limits,    \* the limits given to ReadTextFile
  Chunk,     \* kChunkSize, the buffer of ReadTextFile
  MaxLength, \* bound on what the caller writes through one stream
  None, Custom, Local, Unset

\* Custom is a source or sink that is not a File, Local the File of a helper.
ASSUME ValueAssumption ==
  Chunk \in Nat \ {0} /\ Limits \subseteq Nat /\ Texts \subseteq Seq(Bytes)
ASSUME NameAssumption ==
  None \notin Streams /\ Local \notin Files \cup {Custom} /\ Custom \notin Files

VARIABLES
  disk,    \* the content of the path
  streams, \* the FILE objects: mode, position, buffered bytes, error indicator
  files,   \* the File objects: handle_, readable_, writable_
  call     \* the call of a transfer or helper function in progress

vars == <<disk, streams, files, call>>

Stream(mode, position, pending, failed) ==
  [mode |-> mode, position |-> position, pending |-> pending, failed |-> failed]

Free   == Stream("closed", 0, <<>>, FALSE)
Closed == [handle |-> None, readable |-> FALSE, writable |-> FALSE]

\* done is `completed`, memory the destination, the sink or the output; turn
\* flips whenever a loop goes round, so that one that spins is not a stutter.
Idle == [op |-> "none", phase |-> "idle", peer |-> None, text |-> <<>>, limit |-> 0,
         start |-> 0, done |-> 0, turn |-> FALSE, memory |-> <<>>, status |-> "ok"]

IsOpen(f) == files[f].handle # None

First(s, n) == SubSeq(s, 1, n)
After(s, n) == SubSeq(s, n + 1, Len(s))

Smaller(m, n) == IF m < n THEN m ELSE n

Request == call.phase \notin {"idle", "returned", "terminated"}

-----------------------------------------------------------------------------
(* The outcomes of the C library: fread, fwrite, fflush, fclose.           *)

\* A read that reaches its size or the end of the file, or that an error cut.
Fread(s, n) ==
  LET available == Len(SubSeq(disk, s.position + 1, Smaller(s.position + n, Len(disk))))
      Outcome(count, failed) ==
        [count  |-> count,
         bytes  |-> SubSeq(disk, s.position + 1, s.position + count),
         stream |-> Stream(s.mode, s.position + count, s.pending, failed)]
  IN {Outcome(available, s.failed)} \cup {Outcome(count, TRUE) : count \in 0 .. available}

\* The stream writes out the first k bytes it buffers.
SpilledDisk(s, k)   == disk \o First(s.pending, k)
SpilledStream(s, k) == [s EXCEPT !.pending = After(@, k)]

\* Only an error keeps fwrite from taking every byte.
Fwrite(s, bytes) ==
  LET Taken(count) ==
        Stream(s.mode, s.position, s.pending \o First(bytes, count),
               s.failed \/ count < Len(bytes))
  IN UNION {{[count  |-> count,
              disk   |-> SpilledDisk(Taken(count), k),
              stream |-> SpilledStream(Taken(count), k)] :
               k \in 0 .. Len(s.pending) + count} : count \in 0 .. Len(bytes)}

\* A flush that fails keeps or drops what it has not written.
Fflush(s) ==
  {[ok |-> TRUE, disk |-> disk \o s.pending, stream |-> [s EXCEPT !.pending = <<>>]]}
  \cup {[ok |-> FALSE, disk |-> SpilledDisk(s, k), stream |-> SpilledStream(s, k)] :
          k \in 0 .. Len(s.pending)}
  \cup {[ok |-> FALSE, disk |-> SpilledDisk(s, k), stream |-> [s EXCEPT !.pending = <<>>]] :
          k \in 0 .. Len(s.pending)}

\* The stream is gone whether or not its last bytes could be written.
Fclose(s) == {[ok |-> r.ok, disk |-> r.disk, stream |-> Free] : r \in Fflush(s)}

-----------------------------------------------------------------------------
(* File.                                                                   *)

\* OpenNativeFile; a file opened for writing is truncated.
Open(f, mode) ==
  \E s \in Streams :
    /\ streams[s] = Free
    /\ streams' = [streams EXCEPT ![s].mode = mode]
    /\ files' = [files EXCEPT ![f] =
                   [handle |-> s, readable |-> mode = "read", writable |-> mode = "write"]]
    /\ disk' = IF mode = "write" THEN <<>> ELSE disk

\* File::ReadSome: only an error that gave no byte at all is reported.
ReadSome(f, n) ==
  LET h == files[f].handle
      Refusal == [status |-> "state", count |-> 0, bytes |-> <<>>, streams |-> streams]
  IN IF n = 0 THEN {[Refusal EXCEPT !.status = "ok"]}
     ELSE IF ~IsOpen(f) \/ ~files[f].readable THEN {Refusal}
     ELSE {[status  |-> IF r.count = 0 /\ r.stream.failed THEN "io" ELSE "ok",
            count   |-> r.count,
            bytes   |-> r.bytes,
            streams |-> [streams EXCEPT ![h] = r.stream]] : r \in Fread(streams[h], n)}

\* File::WriteSome: a write that took some bytes is a success.
WriteSome(f, bytes) ==
  LET h == files[f].handle
      Refusal == [status |-> "state", count |-> 0, streams |-> streams, disk |-> disk]
  IN IF bytes = <<>> THEN {[Refusal EXCEPT !.status = "ok"]}
     ELSE IF ~IsOpen(f) \/ ~files[f].writable THEN {Refusal}
     ELSE {[status  |-> IF r.count = 0 THEN "io" ELSE "ok",
            count   |-> r.count,
            streams |-> [streams EXCEPT ![h] = r.stream],
            disk    |-> r.disk] : r \in Fwrite(streams[h], bytes)}

\* File::Flush
Flush(f) ==
  LET h == files[f].handle
  IN IF ~IsOpen(f) \/ ~files[f].writable
     THEN {[status |-> "state", streams |-> streams, disk |-> disk]}
     ELSE {[status  |-> IF r.ok THEN "ok" ELSE "io",
            streams |-> [streams EXCEPT ![h] = r.stream],
            disk    |-> r.disk] : r \in Fflush(streams[h])}

\* File::Close, and ~File, which ignores the status.
Close(f) ==
  LET h == files[f].handle
  IN IF ~IsOpen(f)
     THEN {[status |-> "ok", streams |-> streams, disk |-> disk, files |-> files]}
     ELSE {[status  |-> IF r.ok THEN "ok" ELSE "io",
            streams |-> [streams EXCEPT ![h] = r.stream],
            disk    |-> r.disk,
            files   |-> [files EXCEPT ![f] = Closed]] : r \in Fclose(streams[h])}

MovedKeepingSource(f, g) == [files EXCEPT ![f] = files[g]]

\* Both moves: the members of g pass to f.
Moved(f, g) == [files EXCEPT ![f] = files[g], ![g] = Closed]

-----------------------------------------------------------------------------
(* What the caller does with File objects between the calls below.         *)

Init ==
  /\ disk \in Texts
  /\ streams = [s \in Streams |-> Free]
  /\ files = [f \in Files \cup {Local} |-> Closed]
  /\ call = Idle

NotBeingWritten == \A s \in Streams : streams[s].mode # "write"

OpenRead(f) ==
  /\ call = Idle /\ ~IsOpen(f)
  /\ Open(f, "read")
  /\ UNCHANGED call

OpenWrite(f) ==
  /\ call = Idle /\ ~IsOpen(f) /\ NotBeingWritten
  /\ Open(f, "write")
  /\ UNCHANGED call

ReadOnce(f, n) ==
  /\ call = Idle
  /\ \E r \in ReadSome(f, n) : streams' = r.streams
  /\ UNCHANGED <<disk, files, call>>

Written(f) == IF IsOpen(f) THEN Len(disk) + Len(streams[files[f].handle].pending) ELSE 0

WriteOnce(f, bytes) ==
  /\ call = Idle /\ Written(f) + Len(bytes) <= MaxLength
  /\ \E r \in WriteSome(f, bytes) : streams' = r.streams /\ disk' = r.disk
  /\ UNCHANGED <<files, call>>

FlushFile(f) ==
  /\ call = Idle
  /\ \E r \in Flush(f) : streams' = r.streams /\ disk' = r.disk
  /\ UNCHANGED <<files, call>>

CloseFile(f) ==
  /\ call = Idle
  /\ \E r \in Close(f) : streams' = r.streams /\ disk' = r.disk /\ files' = r.files
  /\ UNCHANGED call

\* The move constructor, and the move assignment to a File that is closed.
MoveFile(f, g) ==
  /\ call = Idle /\ f # g /\ ~IsOpen(f)
  /\ files' = Moved(f, g)
  /\ UNCHANGED <<disk, streams, call>>

\* ASC_CHECK ends the program: the destination has a stream nobody has closed.
MoveOverOpen(f, g) ==
  /\ call = Idle /\ f # g /\ IsOpen(f)
  /\ call' = [Idle EXCEPT !.phase = "terminated"]
  /\ UNCHANGED <<disk, streams, files>>

-----------------------------------------------------------------------------
(* The transfer loops.                                                     *)

Leave(status) == call' = [call EXCEPT !.status = status, !.phase = "returned"]

\* A helper destroys its File on the way out, whatever happened.
LeaveHelper(status) == call' = [call EXCEPT !.status = status, !.phase = "destroy"]

End(status) ==
  IF call.peer = Local THEN LeaveHelper(status) ELSE Leave(status)

NeverWithoutProgress(r) == FALSE

\* A request that succeeded without moving a byte.
NoProgress(r) == r.status = "ok" /\ r.count = 0

ClaimsAfterOneMore(r, want) == r.status = "ok" /\ r.count > want + 1

\* A peer that says it moved more than it was asked for.
Overclaims(r, want) == r.status = "ok" /\ r.count > want

Progress(r, want) == r.status = "ok" /\ ~NoProgress(r) /\ ~Overclaims(r, want)

\* A source gives some of its bytes, claims more than was asked for, or fails.
CustomRead(want) ==
  {[status |-> "io", count |-> 0, bytes |-> <<>>, streams |-> streams],
   [status |-> "ok", count |-> want + 1, bytes |-> <<>>, streams |-> streams]}
  \cup {[status |-> "ok", count |-> n, streams |-> streams,
         bytes |-> SubSeq(call.text, call.done + 1, call.done + n)] :
          n \in 0 .. Smaller(want, Len(call.text) - call.done)}

CustomWrite(bytes) ==
  {[status |-> "io", count |-> 0, streams |-> streams, disk |-> disk]}
  \cup {[status |-> "ok", count |-> n, streams |-> streams, disk |-> disk] :
          n \in 0 .. Len(bytes) + 1}

BeginReadExact(peer, n, text) ==
  /\ call = Idle
  /\ peer # Custom => text = <<>>
  /\ call' = [Idle EXCEPT !.op = "readExact", !.phase = "transfer", !.peer = peer, !.text = text,
                          !.start = IF peer # Custom /\ IsOpen(peer)
                                    THEN streams[files[peer].handle].position ELSE 0,
                          !.memory = [i \in 1 .. n |-> Unset]]
  /\ UNCHANGED <<disk, streams, files>>

\* destination.subspan(completed)
Subspan(memory, done, bytes) ==
  [i \in DOMAIN memory |-> IF i \in done + 1 .. done + Len(bytes) THEN bytes[i - done] ELSE memory[i]]

ReadExact ==
  LET want == Len(call.memory) - call.done
  IN /\ call.op = "readExact" /\ call.phase = "transfer"
     /\ \/ want = 0 /\ Leave("ok") /\ UNCHANGED streams
        \/ /\ want > 0
           /\ \E r \in IF call.peer = Custom THEN CustomRead(want) ELSE ReadSome(call.peer, want) :
                /\ streams' = r.streams
                /\ \/ r.status # "ok" /\ Leave(r.status)
                   \/ NoProgress(r) /\ Leave("eof")
                   \/ Overclaims(r, want) /\ Leave("internal")
                   \/ /\ Progress(r, want)
                      /\ call' = [call EXCEPT !.done = @ + r.count, !.turn = ~@,
                                              !.memory = Subspan(@, call.done, r.bytes)]
     /\ UNCHANGED <<disk, files>>

BeginWriteAll(peer, text) ==
  /\ call = Idle
  /\ peer # Custom => Written(peer) + Len(text) <= MaxLength
  /\ call' = [Idle EXCEPT !.op = "writeAll", !.phase = "transfer", !.peer = peer, !.text = text,
                          !.start = IF peer = Custom THEN 0 ELSE Written(peer)]
  /\ UNCHANGED <<disk, streams, files>>

\* The end of WriteAll: WriteTextFile goes on to flush its File.
WroteAll ==
  IF call.op = "writeText" THEN call' = [call EXCEPT !.phase = "flush"] ELSE Leave("ok")

WriteAll ==
  LET rest == After(call.text, call.done)
  IN /\ call.op \in {"writeAll", "writeText"} /\ call.phase = "transfer"
     /\ \/ rest = <<>> /\ WroteAll /\ UNCHANGED <<disk, streams>>
        \/ /\ rest # <<>>
           /\ \E r \in IF call.peer = Custom THEN CustomWrite(rest) ELSE WriteSome(call.peer, rest) :
                /\ streams' = r.streams /\ disk' = r.disk
                /\ \/ r.status # "ok" /\ End(r.status)
                   \/ NoProgress(r) /\ End("io")
                   \/ Overclaims(r, Len(rest)) /\ End("internal")
                   \/ /\ Progress(r, Len(rest))
                      /\ call' = [call EXCEPT !.done = @ + r.count, !.turn = ~@,
                                              !.memory = @ \o First(rest, Smaller(r.count, Len(rest)))]
     /\ UNCHANGED files

-----------------------------------------------------------------------------
(* The helpers, each with a File of its own.                               *)

BeginReadTextFile(limit) ==
  /\ call = Idle
  /\ call' = [Idle EXCEPT !.op = "readText", !.phase = "open", !.peer = Local, !.limit = limit]
  /\ UNCHANGED <<disk, streams, files>>

BeginWriteTextFile(text) ==
  /\ call = Idle /\ NotBeingWritten
  /\ call' = [Idle EXCEPT !.op = "writeText", !.phase = "open", !.peer = Local, !.text = text]
  /\ UNCHANGED <<disk, streams, files>>

OpenLocal ==
  /\ call.phase = "open"
  /\ Open(Local, IF call.op = "readText" THEN "read" ELSE "write")
  /\ call' = [call EXCEPT !.phase = "transfer"]

OpenLocalFails ==
  /\ call.phase = "open"
  /\ Leave("unopened")
  /\ UNCHANGED <<disk, streams, files>>

\* A request that asks for no byte beyond the limit cannot see that there is one.
RequestUpToLimit(remaining) == Smaller(remaining, Chunk)

ChunkRequest(remaining) == IF remaining < Chunk THEN remaining + 1 ELSE Chunk

ReadTextChunk ==
  LET remaining == call.limit - Len(call.memory)
  IN /\ call.op = "readText" /\ call.phase = "transfer"
     /\ \E r \in ReadSome(Local, ChunkRequest(remaining)) :
          /\ streams' = r.streams
          /\ \/ r.status # "ok" /\ LeaveHelper(r.status)
             \/ NoProgress(r) /\ call' = [call EXCEPT !.phase = "close"]
             \/ Overclaims(r, remaining) /\ LeaveHelper("overflow")
             \/ /\ Progress(r, remaining)
                /\ call' = [call EXCEPT !.memory = @ \o r.bytes, !.turn = ~@]
     /\ UNCHANGED <<disk, files>>

FlushLocal ==
  /\ call.phase = "flush"
  /\ \E r \in Flush(Local) :
       /\ streams' = r.streams /\ disk' = r.disk
       /\ IF r.status = "ok" THEN call' = [call EXCEPT !.phase = "close"] ELSE LeaveHelper(r.status)
  /\ UNCHANGED files

CloseLocal ==
  /\ call.phase = "close"
  /\ \E r \in Close(Local) :
       /\ streams' = r.streams /\ disk' = r.disk /\ files' = r.files
       /\ LeaveHelper(r.status)

DestroyLocal ==
  /\ call.phase = "destroy"
  /\ \E r \in Close(Local) : streams' = r.streams /\ disk' = r.disk /\ files' = r.files
  /\ Leave(call.status)

\* The caller goes on.
Resume ==
  /\ call.phase = "returned"
  /\ call' = Idle
  /\ UNCHANGED <<disk, streams, files>>

CallStep ==
  \/ ReadExact \/ WriteAll
  \/ OpenLocal \/ OpenLocalFails \/ ReadTextChunk \/ FlushLocal \/ CloseLocal \/ DestroyLocal

Next ==
  \/ \E f \in Files : \/ OpenRead(f) \/ OpenWrite(f) \/ FlushFile(f) \/ CloseFile(f)
                      \/ \E n \in Limits : ReadOnce(f, n)
                      \/ \E text \in Texts : WriteOnce(f, text)
                      \/ \E g \in Files : MoveFile(f, g) \/ MoveOverOpen(f, g)
  \/ \E peer \in Files \cup {Custom}, text \in Texts :
       BeginWriteAll(peer, text) \/ \E n \in Limits : BeginReadExact(peer, n, text)
  \/ \E limit \in Limits : BeginReadTextFile(limit)
  \/ \E text \in Texts : BeginWriteTextFile(text)
  \/ CallStep
  \/ Resume

Spec == Init /\ [][Next]_vars

\* A call runs on until it returns; nothing obliges the caller to make one.
FairSpec == Spec /\ WF_vars(CallStep)

-----------------------------------------------------------------------------
(* Properties.                                                             *)

\* The variables have their types, and the completed part of a transfer stays
\* within what was asked for.
TypeOK ==
  /\ disk \in Seq(Bytes)
  /\ streams \in [Streams -> [mode : {"closed", "read", "write"}, position : Nat,
                              pending : Seq(Bytes), failed : BOOLEAN]]
  /\ files \in [Files \cup {Local} ->
                 [handle : Streams \cup {None}, readable : BOOLEAN, writable : BOOLEAN]]
  /\ call \in [op : {"none", "readExact", "writeAll", "readText", "writeText"},
               phase : {"idle", "open", "transfer", "flush", "close", "destroy",
                        "returned", "terminated"},
               peer : Files \cup {Custom, Local, None},
               text : Seq(Bytes), limit : Nat, start : Nat, done : Nat, turn : BOOLEAN,
               memory : Seq(Bytes \cup {Unset}),
               status : {"ok", "io", "eof", "internal", "overflow", "state", "unopened"}]
  /\ call.op = "readExact" => call.done <= Len(call.memory)
  /\ call.op = "readText" => Len(call.memory) <= call.limit
  /\ call.op \in {"writeAll", "writeText"} => call.done <= Len(call.text)

\* Whatever objects are moved, closed and destroyed, and wherever a helper
\* leaves, each open stream has one File that will close it, opened for what
\* the File says, and no File refers to a closed stream; a helper that has
\* returned leaves none behind (File's moves, Close and destructor).
StreamsAreClosedOnce ==
  /\ \A s \in Streams : streams[s].mode # "closed" =>
       \E f \in Files \cup {Local} : files[f].handle = s
  /\ \A f, g \in Files \cup {Local} : IsOpen(f) /\ files[f].handle = files[g].handle => f = g
  /\ \A f \in Files \cup {Local} :
       /\ IsOpen(f) => streams[files[f].handle].mode # "closed"
       /\ files[f].readable <=> IsOpen(f) /\ streams[files[f].handle].mode = "read"
       /\ files[f].writable <=> IsOpen(f) /\ streams[files[f].handle].mode = "write"
  /\ ~Request => ~IsOpen(Local)

Succeeded(op) == call.phase = "returned" /\ call.op = op /\ call.status = "ok"
Stopped(op)   == call.phase = "returned" /\ call.op = op

\* A call that returns OK has transferred exactly what it was asked for, however
\* the bytes were divided and whatever errors came in between: ReadExact the
\* next bytes of its source, WriteAll the bytes given, ReadTextFile the whole
\* file within its limit, WriteTextFile its text on the disk.  ReadTextFile
\* reports an overflow for no file within the limit, and a WriteTextFile that
\* fails leaves a beginning of its text, or the old file if it did not open it.
TransfersAreExact ==
  /\ Succeeded("readExact") =>
       call.memory = SubSeq(IF call.peer = Custom THEN call.text ELSE disk,
                            call.start + 1, call.start + Len(call.memory))
  /\ Succeeded("writeAll") =>
       /\ call.memory = call.text
       /\ call.peer # Custom /\ call.text # <<>> =>
            After(disk \o streams[files[call.peer].handle].pending, call.start) = call.text
  /\ Succeeded("readText") => call.memory = disk /\ Len(disk) <= call.limit
  /\ Stopped("readText") /\ call.status = "overflow" => Len(disk) > call.limit
  /\ Succeeded("writeText") => disk = call.text
  /\ Stopped("writeText") /\ call.status # "unopened" => IsPrefix(disk, call.text)

\* Every call returns: no source, sink or stream can keep a loop turning, because
\* each request moves bytes or ends the call (WriteAll's refusal of a sink that
\* makes no progress).
CallReturns == Request ~> ~Request
=============================================================================
