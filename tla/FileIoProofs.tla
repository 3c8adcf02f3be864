---------------------------- MODULE FileIoProofs -----------------------------
(***************************************************************************)
(* Proofs about FileIo, for any files, streams, texts, limits and chunk    *)
(* size: the state keeps its types, every open stream has exactly one File *)
(* that will close it, and a call that reports success has moved exactly   *)
(* its bytes.  The second needs to know where the File of a helper stands: *)
(* it is open only while a helper runs, and the calls that return without  *)
(* destroying it never had one.  The third follows what each call has done *)
(* so far: the bytes put out by a stream with those it still buffers are   *)
(* the part of the text that the call counts as written, and the bytes in  *)
(* memory are those of the source up to where its stream stands.           *)
(***************************************************************************)
EXTENDS FileIo, SequenceTheorems, TLAPS

StreamObjects == [mode : {"closed", "read", "write"}, position : Nat,
                  pending : Seq(Bytes), failed : BOOLEAN]

FileObjects == [handle : Streams \cup {None}, readable : BOOLEAN, writable : BOOLEAN]

Statuses == {"ok", "io", "eof", "internal", "overflow", "state", "unopened"}

Calls == [op : {"none", "readExact", "writeAll", "readText", "writeText"},
          phase : {"idle", "open", "transfer", "flush", "close", "destroy",
                   "returned", "terminated"},
          peer : Files \cup {Custom, Local, None},
          text : Seq(Bytes), limit : Nat, start : Nat, done : Nat, turn : BOOLEAN,
          memory : Seq(Bytes \cup {Unset}), status : Statuses]

(* The part of the call that a loop has done stays within the request. *)
Bounded(c) ==
  /\ c.op = "readExact" => c.done <= Len(c.memory)
  /\ c.op = "readText" => Len(c.memory) <= c.limit
  /\ c.op \in {"writeAll", "writeText"} => c.done <= Len(c.text)

Everyone == Files \cup {Local}

(* Where a call stands tells whether the File of a helper can be open. *)
Inside ==
  /\ call.op \in {"readExact", "writeAll"} => call.peer \in Files \cup {Custom} /\ ~IsOpen(Local)
  /\ call.op \in {"readText", "writeText"} => call.peer = Local
  /\ call.op = "none" => ~Request
  /\ call.phase = "open" => call.op \in {"readText", "writeText"} /\ ~IsOpen(Local)

IInv == TypeOK /\ StreamsAreClosedOnce /\ Inside

(* Streams that changed in content only. *)
SameModes(ss) ==
  /\ ss \in [Streams -> StreamObjects]
  /\ \A s \in Streams : ss[s].mode = streams[s].mode

(* Sequences. *)
LEMMA FirstFacts ==
  ASSUME NEW S, NEW s \in Seq(S), NEW n \in 0 .. Len(s)
  PROVE  /\ First(s, n) \in Seq(S) /\ Len(First(s, n)) = n
         /\ After(s, n) \in Seq(S) /\ Len(After(s, n)) = Len(s) - n
BY DEF First, After

LEMMA AppendFacts ==
  ASSUME NEW S, NEW s \in Seq(S), NEW t \in Seq(S)
  PROVE  s \o t \in Seq(S) /\ Len(s \o t) = Len(s) + Len(t)
BY ConcatProperties

LEMMA StreamFacts ==
  ASSUME NEW mode \in {"closed", "read", "write"}, NEW position \in Nat,
         NEW pending \in Seq(Bytes), NEW failed \in BOOLEAN
  PROVE  /\ Stream(mode, position, pending, failed) \in StreamObjects
         /\ Stream(mode, position, pending, failed).mode = mode
         /\ Stream(mode, position, pending, failed).pending = pending
         /\ Stream(mode, position, pending, failed).position = position
BY DEF Stream, StreamObjects

LEMMA SpilledFacts ==
  ASSUME disk \in Seq(Bytes), NEW s \in StreamObjects, NEW k \in 0 .. Len(s.pending)
  PROVE  /\ SpilledDisk(s, k) \in Seq(Bytes)
         /\ SpilledStream(s, k) \in StreamObjects /\ SpilledStream(s, k).mode = s.mode
<1>1. s.pending \in Seq(Bytes)
  BY DEF StreamObjects
<1>2. First(s.pending, k) \in Seq(Bytes) /\ After(s.pending, k) \in Seq(Bytes)
  BY <1>1, FirstFacts
<1>3. disk \o First(s.pending, k) \in Seq(Bytes)
  BY <1>2, ConcatProperties
<1>4. QED
  BY <1>2, <1>3 DEF SpilledDisk, SpilledStream, StreamObjects

(* What a read from a stream gives. *)
LEMMA FreadFacts ==
  ASSUME disk \in Seq(Bytes), NEW s \in StreamObjects, NEW n \in Nat, NEW r \in Fread(s, n)
  PROVE  /\ r.count \in 0 .. n /\ r.bytes \in Seq(Bytes) /\ Len(r.bytes) = r.count
         /\ r.stream \in StreamObjects /\ r.stream.mode = s.mode
<1> DEFINE last == Smaller(s.position + n, Len(disk))
           available == Len(SubSeq(disk, s.position + 1, last))
           Bytes_(count) == SubSeq(disk, s.position + 1, s.position + count)
           Outcome(count, failed) ==
             [count  |-> count,
              bytes  |-> Bytes_(count),
              stream |-> Stream(s.mode, s.position + count, s.pending, failed)]
<1>1. /\ s.position \in Nat /\ s.failed \in BOOLEAN /\ s.pending \in Seq(Bytes)
      /\ s.mode \in {"closed", "read", "write"}
  BY DEF StreamObjects
<1>2. last \in Nat /\ last <= Len(disk) /\ last <= s.position + n
  BY <1>1, LenProperties DEF Smaller
<1>3. \A i \in s.position + 1 .. last : disk[i] \in Bytes
  BY <1>1, <1>2, ElementOfSeq
<1>4. available = IF s.position + 1 <= last THEN last - s.position ELSE 0
  BY <1>1, <1>2, <1>3, SubSeqProperties
<1>5. available \in 0 .. n /\ (available > 0 => s.position + available <= Len(disk))
  BY <1>1, <1>2, <1>4
<1> HIDE DEF available
<1>6. PICK count \in 0 .. available, failed \in BOOLEAN : r = Outcome(count, failed)
  <2>1. r \in {Outcome(available, s.failed)} \cup {Outcome(count, TRUE) : count \in 0 .. available}
    BY DEF Fread, available
  <2>2. available \in 0 .. available
    BY <1>5
  <2>3. QED
    BY <2>1, <2>2, <1>1
<1>7. Bytes_(count) \in Seq(Bytes) /\ Len(Bytes_(count)) = count
  <2>1. \A i \in s.position + 1 .. s.position + count : disk[i] \in Bytes
    BY <1>1, <1>5, ElementOfSeq
  <2>2. QED
    BY <2>1, <1>1, <1>5, SubSeqProperties
<1> HIDE DEF Bytes_
<1>8. r.stream \in StreamObjects /\ r.stream.mode = s.mode
  <2>1. s.position + count \in Nat
    BY <1>1, <1>5
  <2>2. QED
    BY <2>1, <1>1, <1>6, StreamFacts
<1>9. QED
  BY <1>5, <1>6, <1>7, <1>8

(* What a write to a stream leaves. *)
LEMMA FwriteFacts ==
  ASSUME disk \in Seq(Bytes), NEW s \in StreamObjects, NEW bytes \in Seq(Bytes),
         NEW r \in Fwrite(s, bytes)
  PROVE  /\ r.count \in 0 .. Len(bytes) /\ r.disk \in Seq(Bytes)
         /\ r.stream \in StreamObjects /\ r.stream.mode = s.mode
<1> DEFINE Pending(count) == s.pending \o First(bytes, count)
           cut(count) == s.failed \/ count < Len(bytes)
           Taken(count) == Stream(s.mode, s.position, Pending(count), cut(count))
<1>1. PICK count \in 0 .. Len(bytes) :
        \E k \in 0 .. Len(s.pending) + count :
          r = [count |-> count, disk |-> SpilledDisk(Taken(count), k),
               stream |-> SpilledStream(Taken(count), k)]
  BY DEF Fwrite
<1>2. PICK k \in Nat :
        /\ k <= Len(s.pending) + count
        /\ r = [count |-> count, disk |-> SpilledDisk(Taken(count), k),
                stream |-> SpilledStream(Taken(count), k)]
  BY <1>1
<1>3. /\ s.position \in Nat /\ s.failed \in BOOLEAN /\ s.pending \in Seq(Bytes)
      /\ s.mode \in {"closed", "read", "write"}
  BY DEF StreamObjects
<1>4. Pending(count) \in Seq(Bytes) /\ Len(Pending(count)) = Len(s.pending) + count
  <2>1. First(bytes, count) \in Seq(Bytes) /\ Len(First(bytes, count)) = count
    BY FirstFacts
  <2>2. QED
    BY <1>3, <2>1, AppendFacts
<1> HIDE DEF Pending
<1>5. cut(count) \in BOOLEAN
  OBVIOUS
<1> HIDE DEF cut
<1>6. /\ Taken(count) \in StreamObjects /\ Taken(count).mode = s.mode
      /\ Taken(count).pending = Pending(count)
  BY <1>3, <1>4, <1>5, StreamFacts
<1> HIDE DEF Taken
<1>7. k \in 0 .. Len(Taken(count).pending)
  BY <1>2, <1>4, <1>6
<1>8. /\ SpilledDisk(Taken(count), k) \in Seq(Bytes)
      /\ SpilledStream(Taken(count), k) \in StreamObjects
      /\ SpilledStream(Taken(count), k).mode = s.mode
  BY <1>6, <1>7, SpilledFacts
<1>9. QED
  BY <1>2, <1>8

(* What a flush and a close leave. *)
LEMMA FflushFacts ==
  ASSUME disk \in Seq(Bytes), NEW s \in StreamObjects, NEW r \in Fflush(s)
  PROVE  r.disk \in Seq(Bytes) /\ r.stream \in StreamObjects /\ r.stream.mode = s.mode
<1>1. s.pending \in Seq(Bytes) /\ <<>> \in Seq(Bytes)
  BY DEF StreamObjects
<1>2. /\ [s EXCEPT !.pending = <<>>] \in StreamObjects
      /\ [s EXCEPT !.pending = <<>>].mode = s.mode
  BY <1>1 DEF StreamObjects
<1>3. CASE r = [ok |-> TRUE, disk |-> disk \o s.pending, stream |-> [s EXCEPT !.pending = <<>>]]
  <2>1. disk \o s.pending \in Seq(Bytes)
    BY <1>1, ConcatProperties
  <2>2. QED
    BY <1>2, <1>3, <2>1
<1>4. ASSUME NEW k \in 0 .. Len(s.pending), r.disk = SpilledDisk(s, k),
             r.stream = SpilledStream(s, k) \/ r.stream = [s EXCEPT !.pending = <<>>]
      PROVE  r.disk \in Seq(Bytes) /\ r.stream \in StreamObjects /\ r.stream.mode = s.mode
  BY <1>2, <1>4, SpilledFacts
<1>5. QED
  BY <1>3, <1>4 DEF Fflush

LEMMA FcloseFacts ==
  ASSUME disk \in Seq(Bytes), NEW s \in StreamObjects, NEW r \in Fclose(s)
  PROVE  r.disk \in Seq(Bytes) /\ r.stream = Free
<1>1. PICK q \in Fflush(s) : r = [ok |-> q.ok, disk |-> q.disk, stream |-> Free]
  BY DEF Fclose
<1>2. QED
  BY <1>1, FflushFacts

(* Facts about an open File: its stream. *)
LEMMA HandleFacts ==
  ASSUME TypeOK, NEW f \in Everyone, IsOpen(f)
  PROVE  files[f].handle \in Streams /\ streams[files[f].handle] \in StreamObjects
BY DEF TypeOK, IsOpen, Everyone, StreamObjects

LEMMA ReadSomeFacts ==
  ASSUME TypeOK, NEW f \in Everyone, NEW n \in Nat, NEW r \in ReadSome(f, n)
  PROVE  /\ SameModes(r.streams)
         /\ r.status \in {"ok", "io", "state"}
         /\ r.count \in Nat /\ r.bytes \in Seq(Bytes) /\ Len(r.bytes) = r.count
<1>1. CASE r \in {[status |-> x, count |-> 0, bytes |-> <<>>, streams |-> streams] :
                   x \in {"ok", "state"}}
  <2>1. <<>> \in Seq(Bytes) /\ Len(<<>>) = 0
    OBVIOUS
  <2>2. SameModes(streams)
    BY DEF SameModes, TypeOK, StreamObjects
  <2>3. PICK x \in {"ok", "state"} :
          r = [status |-> x, count |-> 0, bytes |-> <<>>, streams |-> streams]
    BY <1>1
  <2>4. QED
    BY <2>1, <2>2, <2>3
<1>2. CASE IsOpen(f) /\ ~(r \in {[status |-> x, count |-> 0, bytes |-> <<>>, streams |-> streams] :
                                  x \in {"ok", "state"}})
  <2> DEFINE h == files[f].handle
  <2>1. PICK q \in Fread(streams[h], n) :
          r = [status  |-> IF q.count = 0 /\ q.stream.failed THEN "io" ELSE "ok",
               count   |-> q.count, bytes |-> q.bytes,
               streams |-> [streams EXCEPT ![h] = q.stream]]
    BY <1>2 DEF ReadSome
  <2>2. h \in Streams /\ streams[h] \in StreamObjects
    BY <1>2, HandleFacts
  <2>3. disk \in Seq(Bytes) /\ streams \in [Streams -> StreamObjects]
    BY DEF TypeOK, StreamObjects
  <2> HIDE DEF h
  <2>4. /\ q.count \in 0 .. n /\ q.bytes \in Seq(Bytes) /\ Len(q.bytes) = q.count
        /\ q.stream \in StreamObjects /\ q.stream.mode = streams[h].mode
    BY <2>2, <2>3, FreadFacts
  <2>5. QED
    BY <2>1, <2>2, <2>3, <2>4 DEF SameModes
<1>3. QED
  BY <1>1, <1>2 DEF ReadSome

LEMMA WriteSomeFacts ==
  ASSUME TypeOK, NEW f \in Everyone, NEW bytes \in Seq(Bytes), NEW r \in WriteSome(f, bytes)
  PROVE  /\ SameModes(r.streams) /\ r.disk \in Seq(Bytes)
         /\ r.status \in {"ok", "io", "state"}
         /\ r.count \in 0 .. Len(bytes)
<1>1. CASE r \in {[status |-> x, count |-> 0, streams |-> streams, disk |-> disk] :
                   x \in {"ok", "state"}}
  BY <1>1 DEF SameModes, TypeOK, StreamObjects
<1>2. CASE IsOpen(f) /\ ~(r \in {[status |-> x, count |-> 0, streams |-> streams, disk |-> disk] :
                                  x \in {"ok", "state"}})
  <2> DEFINE h == files[f].handle
  <2>1. PICK q \in Fwrite(streams[h], bytes) :
          r = [status  |-> IF q.count = 0 THEN "io" ELSE "ok", count |-> q.count,
               streams |-> [streams EXCEPT ![h] = q.stream], disk |-> q.disk]
    BY <1>2 DEF WriteSome
  <2>2. h \in Streams /\ streams[h] \in StreamObjects
    BY <1>2, HandleFacts
  <2>3. disk \in Seq(Bytes) /\ streams \in [Streams -> StreamObjects]
    BY DEF TypeOK, StreamObjects
  <2> HIDE DEF h
  <2>4. /\ q.count \in 0 .. Len(bytes) /\ q.disk \in Seq(Bytes)
        /\ q.stream \in StreamObjects /\ q.stream.mode = streams[h].mode
    BY <2>2, <2>3, FwriteFacts
  <2>5. QED
    BY <2>1, <2>2, <2>3, <2>4 DEF SameModes
<1>3. QED
  BY <1>1, <1>2 DEF WriteSome

LEMMA FlushFacts ==
  ASSUME TypeOK, NEW f \in Everyone, NEW r \in Flush(f)
  PROVE  SameModes(r.streams) /\ r.disk \in Seq(Bytes) /\ r.status \in {"ok", "io", "state"}
<1>1. CASE r = [status |-> "state", streams |-> streams, disk |-> disk]
  BY <1>1 DEF SameModes, TypeOK, StreamObjects
<1>2. CASE IsOpen(f) /\ r # [status |-> "state", streams |-> streams, disk |-> disk]
  <2> DEFINE h == files[f].handle
  <2>1. PICK q \in Fflush(streams[h]) :
          r = [status  |-> IF q.ok THEN "ok" ELSE "io",
               streams |-> [streams EXCEPT ![h] = q.stream], disk |-> q.disk]
    BY <1>2 DEF Flush
  <2>2. h \in Streams /\ streams[h] \in StreamObjects
    BY <1>2, HandleFacts
  <2>3. disk \in Seq(Bytes) /\ streams \in [Streams -> StreamObjects]
    BY DEF TypeOK, StreamObjects
  <2> HIDE DEF h
  <2>4. q.disk \in Seq(Bytes) /\ q.stream \in StreamObjects /\ q.stream.mode = streams[h].mode
    BY <2>2, <2>3, FflushFacts
  <2>5. QED
    BY <2>1, <2>2, <2>3, <2>4 DEF SameModes
<1>3. QED
  BY <1>1, <1>2 DEF Flush

LEMMA CloseFacts ==
  ASSUME TypeOK, NEW f \in Everyone, NEW r \in Close(f)
  PROVE  /\ r.disk \in Seq(Bytes) /\ r.streams \in [Streams -> StreamObjects]
         /\ r.files \in [Everyone -> FileObjects] /\ r.status \in {"ok", "io"}
         /\ r.files[f].handle = None /\ \A g \in Everyone : g # f => r.files[g] = files[g]
         /\ ~IsOpen(f) => r.streams = streams /\ r.files = files
         /\ IsOpen(f) => /\ r.files[f] = Closed /\ r.streams[files[f].handle] = Free
                        /\ \A s \in Streams : s # files[f].handle => r.streams[s] = streams[s]
<1>1. CASE ~IsOpen(f)
  <2>1. r = [status |-> "ok", streams |-> streams, disk |-> disk, files |-> files]
    BY <1>1 DEF Close
  <2>2. QED
    BY <1>1, <2>1 DEF TypeOK, StreamObjects, FileObjects, Everyone, IsOpen
<1>2. CASE IsOpen(f)
  <2> DEFINE h == files[f].handle
  <2>1. PICK q \in Fclose(streams[h]) :
          r = [status  |-> IF q.ok THEN "ok" ELSE "io",
               streams |-> [streams EXCEPT ![h] = q.stream], disk |-> q.disk,
               files   |-> [files EXCEPT ![f] = Closed]]
    BY <1>2 DEF Close
  <2>2. h \in Streams /\ streams[h] \in StreamObjects
    BY <1>2, HandleFacts
  <2>3. disk \in Seq(Bytes) /\ streams \in [Streams -> StreamObjects]
        /\ files \in [Everyone -> FileObjects]
    BY DEF TypeOK, StreamObjects, FileObjects, Everyone
  <2>4. Closed \in FileObjects /\ Closed.handle = None
    BY DEF Closed, FileObjects
  <2>5. Free \in StreamObjects
    BY StreamFacts, EmptySeq DEF Free
  <2>6. q.disk \in Seq(Bytes) /\ q.stream = Free
    BY <2>2, <2>3, FcloseFacts
  <2> HIDE DEF h
  <2>7. /\ r.disk \in Seq(Bytes) /\ r.streams \in [Streams -> StreamObjects]
        /\ r.files \in [Everyone -> FileObjects] /\ r.status \in {"ok", "io"}
    BY <2>1, <2>2, <2>3, <2>4, <2>5, <2>6
  <2>8. r.files[f] = Closed /\ \A g \in Everyone : g # f => r.files[g] = files[g]
    BY <2>1, <2>3
  <2>9. /\ r.streams[h] = Free
        /\ \A s \in Streams : s # h => r.streams[s] = streams[s]
    BY <2>1, <2>2, <2>3, <2>6
  <2>10. QED
    BY <1>2, <2>4, <2>7, <2>8, <2>9 DEF h
<1>3. QED
  BY <1>1, <1>2

(* The ownership of streams under the three kinds of steps: streams change *)
(* in content only, a File is closed, a File is opened.                     *)
LEMMA ContentStep ==
  ASSUME IInv, SameModes(streams'), UNCHANGED files, ~Request' => ~IsOpen(Local)
  PROVE  StreamsAreClosedOnce'
BY DEF IInv, TypeOK, StreamsAreClosedOnce, SameModes, IsOpen

LEMMA CloseStep ==
  ASSUME IInv, NEW f \in Everyone, NEW r \in Close(f), streams' = r.streams, files' = r.files,
         ~Request' => f = Local \/ ~IsOpen(Local)
  PROVE  StreamsAreClosedOnce'
<1>1. CASE ~IsOpen(f)
  BY <1>1, CloseFacts DEF IInv, StreamsAreClosedOnce, IsOpen
<1>2. CASE IsOpen(f)
  <2> DEFINE h == files[f].handle
  <2>1. h \in Streams /\ h # None
    BY <1>2, HandleFacts DEF IInv, IsOpen
  <2>2. /\ files'[f] = Closed /\ \A g \in Everyone : g # f => files'[g] = files[g]
        /\ streams'[h] = Free /\ \A s \in Streams : s # h => streams'[s] = streams[s]
    BY <1>2, CloseFacts DEF IInv
  <2>3. \A g \in Everyone : g # f => files[g].handle # h
    BY <1>2 DEF IInv, StreamsAreClosedOnce, Everyone, IsOpen
  <2>4. Free.mode = "closed" /\ Closed.handle = None /\ ~Closed.readable /\ ~Closed.writable
    BY DEF Free, Stream, Closed
  <2> HIDE DEF h
  <2>5. \A s \in Streams : streams'[s].mode # "closed" =>
          \E g \in Everyone : files'[g].handle = s
    <3> SUFFICES ASSUME NEW s \in Streams, streams'[s].mode # "closed"
                 PROVE  \E g \in Everyone : files'[g].handle = s
      OBVIOUS
    <3>1. s # h /\ streams[s].mode # "closed"
      BY <2>2, <2>4
    <3>2. PICK g \in Everyone : files[g].handle = s
      BY <3>1 DEF IInv, StreamsAreClosedOnce, Everyone
    <3>3. g # f
      BY <3>1, <3>2 DEF h
    <3>4. QED
      BY <2>2, <3>2, <3>3
  <2>6. \A g, k \in Everyone : IsOpen(g)' /\ files'[g].handle = files'[k].handle => g = k
    BY <2>2, <2>4 DEF IInv, StreamsAreClosedOnce, Everyone, IsOpen
  <2>7. ASSUME NEW g \in Everyone
        PROVE  /\ IsOpen(g)' => streams'[files'[g].handle].mode # "closed"
               /\ files'[g].readable <=> IsOpen(g)' /\ streams'[files'[g].handle].mode = "read"
               /\ files'[g].writable <=> IsOpen(g)' /\ streams'[files'[g].handle].mode = "write"
    <3>1. CASE g = f
      BY <2>2, <2>4, <3>1 DEF IsOpen
    <3>2. CASE g # f
      <4>1. files'[g] = files[g] /\ files[g].handle # h
        BY <2>2, <2>3, <3>2
      <4>2. IsOpen(g) => files[g].handle \in Streams
        BY HandleFacts DEF IInv
      <4>3. IsOpen(g) => streams'[files[g].handle] = streams[files[g].handle]
        BY <2>2, <4>1, <4>2
      <4>4. QED
        BY <4>1, <4>3 DEF IInv, StreamsAreClosedOnce, Everyone, IsOpen
    <3>3. QED
      BY <3>1, <3>2
  <2>8. ~Request' => ~IsOpen(Local)'
    BY <2>2, <2>4 DEF Everyone, IsOpen
  <2>9. QED
    BY <2>5, <2>6, <2>7, <2>8 DEF StreamsAreClosedOnce, Everyone
<1>3. QED
  BY <1>1, <1>2

LEMMA OpenStep ==
  ASSUME IInv, NEW f \in Everyone, NEW mode \in {"read", "write"}, ~IsOpen(f), Open(f, mode),
         ~Request' => f # Local /\ ~IsOpen(Local)
  PROVE  /\ disk' \in Seq(Bytes) /\ streams' \in [Streams -> StreamObjects]
         /\ files' \in [Everyone -> FileObjects]
         /\ \A g \in Everyone : g # f => files'[g] = files[g]
         /\ StreamsAreClosedOnce'
<1> DEFINE object(s) == [handle |-> s, readable |-> mode = "read", writable |-> mode = "write"]
<1>1. PICK s \in Streams : /\ streams[s] = Free
                          /\ streams' = [streams EXCEPT ![s].mode = mode]
                          /\ files' = [files EXCEPT ![f] = object(s)]
                          /\ disk' = IF mode = "write" THEN <<>> ELSE disk
  BY DEF Open
<1>2. disk \in Seq(Bytes) /\ streams \in [Streams -> StreamObjects]
      /\ files \in [Everyone -> FileObjects]
  BY DEF IInv, TypeOK, StreamObjects, FileObjects, Everyone
<1>3. /\ object(s) \in FileObjects /\ object(s).handle = s
      /\ object(s).readable = (mode = "read")
      /\ object(s).writable = (mode = "write")
  BY DEF FileObjects
<1> HIDE DEF object
<1>4. /\ streams' \in [Streams -> StreamObjects]
      /\ streams'[s].mode = mode /\ \A t \in Streams : t # s => streams'[t] = streams[t]
  BY <1>1, <1>2 DEF StreamObjects
<1>5. /\ files' \in [Everyone -> FileObjects]
      /\ files'[f] = object(s) /\ \A g \in Everyone : g # f => files'[g] = files[g]
  BY <1>1, <1>2, <1>3
<1>6. disk' \in Seq(Bytes)
  BY <1>1, <1>2
<1>7. Free.mode = "closed" /\ s # None
  BY NameAssumption DEF Free, Stream
<1>8. \A g \in Everyone : files[g].handle # s
  BY <1>1, <1>7 DEF IInv, StreamsAreClosedOnce, Everyone, IsOpen
<1>9. \A t \in Streams : streams'[t].mode # "closed" => \E g \in Everyone : files'[g].handle = t
  <2> SUFFICES ASSUME NEW t \in Streams, streams'[t].mode # "closed"
               PROVE  \E g \in Everyone : files'[g].handle = t
    OBVIOUS
  <2>1. CASE t = s
    BY <1>3, <1>5, <2>1
  <2>2. CASE t # s
    <3>1. PICK g \in Everyone : files[g].handle = t
      BY <1>4, <2>2 DEF IInv, StreamsAreClosedOnce, Everyone
    <3>2. g # f
      <4>1. t # None
        BY NameAssumption
      <4>2. QED
        BY <3>1, <4>1 DEF IsOpen
    <3>3. QED
      BY <1>5, <3>1, <3>2
  <2>3. QED
    BY <2>1, <2>2
<1>10. \A g, k \in Everyone : IsOpen(g)' /\ files'[g].handle = files'[k].handle => g = k
  BY <1>3, <1>5, <1>8 DEF IInv, StreamsAreClosedOnce, Everyone, IsOpen
<1>11. ASSUME NEW g \in Everyone
       PROVE  /\ IsOpen(g)' => streams'[files'[g].handle].mode # "closed"
              /\ files'[g].readable <=> IsOpen(g)' /\ streams'[files'[g].handle].mode = "read"
              /\ files'[g].writable <=> IsOpen(g)' /\ streams'[files'[g].handle].mode = "write"
  <2>1. CASE g = f
    BY <1>3, <1>4, <1>5, <1>7, <2>1 DEF IsOpen
  <2>2. CASE g # f
    <3>1. files'[g] = files[g] /\ files[g].handle # s
      BY <1>5, <1>8, <2>2
    <3>2. IsOpen(g) => files[g].handle \in Streams
      BY HandleFacts DEF IInv
    <3>3. IsOpen(g) => streams'[files[g].handle] = streams[files[g].handle]
      BY <1>4, <3>1, <3>2
    <3>4. QED
      BY <3>1, <3>3 DEF IInv, StreamsAreClosedOnce, Everyone, IsOpen
  <2>3. QED
    BY <2>1, <2>2
<1>12. ~Request' => ~IsOpen(Local)'
  BY <1>5 DEF Everyone, IsOpen
<1>13. StreamsAreClosedOnce'
  BY <1>9, <1>10, <1>11, <1>12 DEF StreamsAreClosedOnce, Everyone
<1>14. QED
  BY <1>4, <1>5, <1>6, <1>13

(* How a call ends: its request and its progress stay as they are. *)
Kept ==
  /\ call' \in Calls
  /\ call'.op = call.op /\ call'.peer = call.peer /\ call'.text = call.text
  /\ call'.limit = call.limit /\ call'.done = call.done /\ call'.memory = call.memory

LEMMA LeaveFacts ==
  ASSUME call \in Calls, NEW x \in Statuses
  PROVE  /\ Leave(x) => Kept /\ call'.phase = "returned"
         /\ LeaveHelper(x) => Kept /\ call'.phase = "destroy"
BY DEF Leave, LeaveHelper, Calls, Kept

LEMMA GotoFacts ==
  ASSUME call \in Calls, NEW p \in {"transfer", "flush", "close"},
         call' = [call EXCEPT !.phase = p]
  PROVE  Kept /\ call'.phase = p
BY DEF Calls, Kept

(* What is left to show of a step that keeps the request of the call. *)
LEMMA KeptStep ==
  ASSUME IInv, Kept, disk' \in Seq(Bytes), streams' \in [Streams -> StreamObjects],
         files' \in [Everyone -> FileObjects], StreamsAreClosedOnce',
         Request, call'.phase # "open",
         call.op \in {"readExact", "writeAll"} => ~IsOpen(Local)'
  PROVE  IInv'
<1>1. TypeOK'
  BY DEF IInv, TypeOK, Kept, Calls, Statuses, StreamObjects, FileObjects, Everyone
<1>2. Inside'
  BY DEF IInv, Inside, Kept
<1>3. QED
  BY <1>1, <1>2 DEF IInv

(* The types, in the sets named above. *)
LEMMA TypeFacts ==
  TypeOK <=> /\ disk \in Seq(Bytes) /\ streams \in [Streams -> StreamObjects]
             /\ files \in [Everyone -> FileObjects] /\ call \in Calls /\ Bounded(call)
BY DEF TypeOK, StreamObjects, FileObjects, Everyone, Calls, Statuses, Bounded

LEMMA InitInv == Init => IInv
<1> SUFFICES ASSUME Init PROVE IInv
  OBVIOUS
<1>1. disk \in Seq(Bytes)
  BY ValueAssumption DEF Init
<1>2. Free \in StreamObjects /\ Free.mode = "closed"
  BY EmptySeq DEF Free, Stream, StreamObjects
<1>3. Closed \in FileObjects /\ Closed.handle = None /\ ~Closed.readable /\ ~Closed.writable
  BY DEF Closed, FileObjects
<1>4. Idle \in Calls /\ Bounded(Idle) /\ Idle.op = "none" /\ Idle.phase = "idle"
  BY DEF Idle, Calls, Statuses, Bounded
<1>5. TypeOK
  BY <1>1, <1>2, <1>3, <1>4, TypeFacts DEF Init, Everyone
<1>6. StreamsAreClosedOnce
  BY <1>2, <1>3 DEF Init, StreamsAreClosedOnce, IsOpen
<1>7. Inside
  BY <1>4 DEF Init, Inside, Request
<1>8. QED
  BY <1>5, <1>6, <1>7 DEF IInv

(* A step that leaves the call alone. *)
LEMMA CallerStep ==
  ASSUME IInv, call = Idle, UNCHANGED call, disk' \in Seq(Bytes),
         streams' \in [Streams -> StreamObjects], files' \in [Everyone -> FileObjects],
         StreamsAreClosedOnce'
  PROVE  IInv'
<1>1. TypeOK'
  BY DEF IInv, TypeOK, StreamObjects, FileObjects, Everyone
<1>2. Idle.op = "none" /\ Idle.phase = "idle"
  BY DEF Idle
<1>3. Inside'
  BY <1>2 DEF Inside, Request
<1>4. QED
  BY <1>1, <1>3 DEF IInv

LEMMA CallerSteps ==
  ASSUME IInv, NEW f \in Files,
         \/ OpenRead(f) \/ OpenWrite(f) \/ FlushFile(f) \/ CloseFile(f)
         \/ \E n \in Limits : ReadOnce(f, n)
         \/ \E text \in Texts : WriteOnce(f, text)
         \/ \E g \in Files : MoveFile(f, g)
  PROVE  IInv'
<1>1. call = Idle /\ UNCHANGED call
  BY DEF OpenRead, OpenWrite, FlushFile, CloseFile, ReadOnce, WriteOnce, MoveFile
<1>2. ~Request /\ ~Request' /\ ~IsOpen(Local)
  BY <1>1 DEF IInv, StreamsAreClosedOnce, Idle, Request
<1>3. TypeOK /\ f \in Everyone /\ f # Local
  BY NameAssumption DEF IInv, Everyone
<1>4. disk \in Seq(Bytes) /\ streams \in [Streams -> StreamObjects]
      /\ files \in [Everyone -> FileObjects]
  BY <1>3, TypeFacts
<1>5. CASE \E mode \in {"read", "write"} : ~IsOpen(f) /\ Open(f, mode)
  BY <1>1, <1>2, <1>3, <1>5, OpenStep, CallerStep
<1>6. CASE FlushFile(f)
  <2>1. PICK r \in Flush(f) : streams' = r.streams /\ disk' = r.disk /\ UNCHANGED files
    BY <1>6 DEF FlushFile
  <2>2. SameModes(streams') /\ disk' \in Seq(Bytes)
    BY <1>3, <2>1, FlushFacts
  <2>3. QED
    BY <1>1, <1>2, <1>4, <2>1, <2>2, ContentStep, CallerStep DEF SameModes
<1>7. CASE \E n \in Limits : ReadOnce(f, n)
  <2>1. PICK n \in Nat :
          \E r \in ReadSome(f, n) : streams' = r.streams /\ UNCHANGED <<disk, files>>
    BY <1>7, ValueAssumption DEF ReadOnce
  <2>2. SameModes(streams') /\ UNCHANGED <<disk, files>>
    BY <1>3, <2>1, ReadSomeFacts
  <2>3. QED
    BY <1>1, <1>2, <1>4, <2>1, <2>2, ContentStep, CallerStep DEF SameModes
<1>8. CASE \E text \in Texts : WriteOnce(f, text)
  <2>1. PICK text \in Seq(Bytes) :
          \E r \in WriteSome(f, text) : streams' = r.streams /\ disk' = r.disk /\ UNCHANGED files
    BY <1>8, ValueAssumption DEF WriteOnce
  <2>2. SameModes(streams') /\ disk' \in Seq(Bytes) /\ UNCHANGED files
    BY <1>3, <2>1, WriteSomeFacts
  <2>3. QED
    BY <1>1, <1>2, <1>4, <2>2, ContentStep, CallerStep DEF SameModes
<1>9. CASE CloseFile(f)
  <2>1. PICK r \in Close(f) : streams' = r.streams /\ disk' = r.disk /\ files' = r.files
    BY <1>9 DEF CloseFile
  <2>2. /\ disk' \in Seq(Bytes) /\ streams' \in [Streams -> StreamObjects]
        /\ files' \in [Everyone -> FileObjects]
    BY <1>3, <2>1, CloseFacts
  <2>3. StreamsAreClosedOnce'
    BY <1>2, <1>3, <2>1, CloseStep
  <2>4. QED
    BY <1>1, <2>2, <2>3, CallerStep
<1>10. ASSUME NEW g \in Files, MoveFile(f, g) PROVE IInv'
  <2>1. /\ f # g /\ ~IsOpen(f) /\ UNCHANGED <<disk, streams>>
        /\ files' = [files EXCEPT ![f] = files[g], ![g] = Closed]
    BY <1>10 DEF MoveFile, Moved
  <2>2. g \in Everyone /\ g # Local /\ Closed \in FileObjects /\ Closed.handle = None
        /\ ~Closed.readable /\ ~Closed.writable
    BY NameAssumption DEF Everyone, Closed, FileObjects
  <2>3. /\ files'[f] = files[g] /\ files'[g] = Closed
        /\ \A k \in Everyone : k # f /\ k # g => files'[k] = files[k]
        /\ files' \in [Everyone -> FileObjects]
    BY <1>3, <1>4, <2>1, <2>2
  <2>4. \A s \in Streams : streams[s].mode # "closed" =>
          \E k \in Everyone : files'[k].handle = s
    <3> SUFFICES ASSUME NEW s \in Streams, streams[s].mode # "closed"
                 PROVE  \E k \in Everyone : files'[k].handle = s
      OBVIOUS
    <3>1. PICK k \in Everyone : files[k].handle = s
      BY DEF IInv, StreamsAreClosedOnce, Everyone
    <3>2. k # f
      BY <2>1, <3>1, NameAssumption DEF IsOpen
    <3>3. QED
      BY <1>3, <2>3, <3>1, <3>2
  <2>5. \A k, l \in Everyone : files'[k].handle # None /\ files'[k].handle = files'[l].handle => k = l
    BY <1>3, <2>1, <2>2, <2>3 DEF IInv, StreamsAreClosedOnce, Everyone, IsOpen
  <2>6. \A k \in Everyone :
          /\ files'[k].handle # None => streams[files'[k].handle].mode # "closed"
          /\ files'[k].readable <=>
               files'[k].handle # None /\ streams[files'[k].handle].mode = "read"
          /\ files'[k].writable <=>
               files'[k].handle # None /\ streams[files'[k].handle].mode = "write"
    BY <1>3, <2>2, <2>3 DEF IInv, StreamsAreClosedOnce, Everyone, IsOpen
  <2>7. ~IsOpen(Local)'
    BY <1>2, <1>3, <2>2, <2>3 DEF IsOpen, Everyone
  <2>8. StreamsAreClosedOnce'
    BY <2>1, <2>4, <2>5, <2>6, <2>7 DEF StreamsAreClosedOnce, Everyone, IsOpen
  <2>9. QED
    BY <1>1, <1>4, <2>1, <2>3, <2>8, CallerStep
<1>11. QED
  BY <1>5, <1>6, <1>7, <1>8, <1>9, <1>10 DEF OpenRead, OpenWrite

LEMMA IdleFacts ==
  /\ Idle \in Calls /\ Idle.op = "none" /\ Idle.phase = "idle"
  /\ Idle.done = 0 /\ Idle.memory = <<>>
<1>1. \A S : <<>> \in Seq(S)
  BY EmptySeq
<1>2. QED
  BY <1>1 DEF Idle, Calls, Statuses

(* A call begins. *)
LEMMA BeginSteps ==
  ASSUME IInv,
         \/ \E peer \in Files \cup {Custom}, text \in Texts :
              BeginWriteAll(peer, text) \/ \E n \in Limits : BeginReadExact(peer, n, text)
         \/ \E limit \in Limits : BeginReadTextFile(limit)
         \/ \E text \in Texts : BeginWriteTextFile(text)
         \/ \E f, g \in Files : MoveOverOpen(f, g)
         \/ Resume
  PROVE  IInv'
<1>1. UNCHANGED <<disk, streams, files>>
  BY DEF BeginWriteAll, BeginReadExact, BeginReadTextFile, BeginWriteTextFile, MoveOverOpen, Resume
<1>2. ~Request /\ ~IsOpen(Local)
  <2>1. call = Idle \/ call.phase = "returned"
    BY DEF BeginWriteAll, BeginReadExact, BeginReadTextFile, BeginWriteTextFile, MoveOverOpen, Resume
  <2>2. Idle.phase = "idle"
    BY IdleFacts
  <2>3. ~Request
    BY <2>1, <2>2 DEF Request
  <2>4. QED
    BY <2>3 DEF IInv, StreamsAreClosedOnce
<1>3. TypeOK
  BY DEF IInv
<1>4. disk \in Seq(Bytes) /\ streams \in [Streams -> StreamObjects]
      /\ files \in [Everyone -> FileObjects]
  BY <1>3, TypeFacts
<1>5. ASSUME call' \in Calls, Bounded(call)', Inside'
      PROVE  IInv'
  <2>1. TypeOK'
    BY <1>1, <1>4, <1>5 DEF TypeOK, Bounded, Calls, Statuses, StreamObjects, FileObjects, Everyone
  <2>2. StreamsAreClosedOnce'
    BY <1>1, <1>2 DEF IInv, StreamsAreClosedOnce, IsOpen
  <2>3. QED
    BY <1>5, <2>1, <2>2 DEF IInv
<1>6. ASSUME NEW peer \in Files \cup {Custom}, NEW text \in Texts, NEW n \in Limits,
             BeginReadExact(peer, n, text)
      PROVE  IInv'
  <2> DEFINE start == IF peer # Custom /\ IsOpen(peer)
                      THEN streams[files[peer].handle].position ELSE 0
             memory == [i \in 1 .. n |-> Unset]
  <2>1. call' = [Idle EXCEPT !.op = "readExact", !.phase = "transfer", !.peer = peer,
                             !.text = text, !.start = start, !.memory = memory]
    BY <1>6 DEF BeginReadExact
  <2>2. start \in Nat
    <3>1. CASE peer # Custom /\ IsOpen(peer)
      <4>1. peer \in Everyone
        BY <3>1 DEF Everyone
      <4>2. streams[files[peer].handle] \in StreamObjects
        BY <1>3, <3>1, <4>1, HandleFacts
      <4>3. QED
        BY <3>1, <4>2 DEF StreamObjects
    <3>2. QED
      BY <3>1
  <2>3. memory \in Seq(Bytes \cup {Unset}) /\ text \in Seq(Bytes)
    BY ValueAssumption
  <2> HIDE DEF start, memory
  <2>4. call' \in Calls /\ call'.op = "readExact" /\ call'.phase = "transfer"
        /\ call'.peer = peer /\ call'.done = 0 /\ call'.memory = memory
    BY <2>1, <2>2, <2>3, IdleFacts DEF Calls, Statuses
  <2>5. Bounded(call)'
    BY <2>3, <2>4 DEF Bounded
  <2>6. Inside'
    BY <1>1, <1>2, <2>4, NameAssumption DEF Inside, IsOpen
  <2>7. QED
    BY <1>5, <2>4, <2>5, <2>6
<1>7. ASSUME NEW peer \in Files \cup {Custom}, NEW text \in Texts, BeginWriteAll(peer, text)
      PROVE  IInv'
  <2> DEFINE start == IF peer = Custom THEN 0 ELSE Written(peer)
  <2>1. call' = [Idle EXCEPT !.op = "writeAll", !.phase = "transfer", !.peer = peer,
                             !.text = text, !.start = start]
    BY <1>7 DEF BeginWriteAll
  <2>2. start \in Nat
    <3>1. CASE peer # Custom /\ IsOpen(peer)
      <4>1. peer \in Everyone
        BY <3>1 DEF Everyone
      <4>2. streams[files[peer].handle] \in StreamObjects
        BY <1>3, <3>1, <4>1, HandleFacts
      <4>3. QED
        BY <1>4, <3>1, <4>2 DEF StreamObjects, Written
    <3>2. QED
      BY <3>1 DEF Written
  <2>3. text \in Seq(Bytes)
    BY ValueAssumption
  <2> HIDE DEF start
  <2>4. call' \in Calls /\ call'.op = "writeAll" /\ call'.phase = "transfer"
        /\ call'.peer = peer /\ call'.done = 0 /\ call'.text = text
    BY <2>1, <2>2, <2>3, IdleFacts DEF Calls, Statuses
  <2>5. Bounded(call)'
    BY <2>3, <2>4 DEF Bounded
  <2>6. Inside'
    BY <1>1, <1>2, <2>4, NameAssumption DEF Inside, IsOpen
  <2>7. QED
    BY <1>5, <2>4, <2>5, <2>6
<1>8. ASSUME NEW limit \in Limits, BeginReadTextFile(limit)
      PROVE  IInv'
  <2>1. limit \in Nat
    BY ValueAssumption
  <2>2. call' \in Calls /\ call'.op = "readText" /\ call'.phase = "open"
        /\ call'.peer = Local /\ call'.memory = <<>> /\ call'.limit = limit
    BY <1>8, <2>1, IdleFacts DEF BeginReadTextFile, Calls, Statuses
  <2>3. QED
    BY <1>1, <1>2, <1>5, <2>1, <2>2 DEF Bounded, Inside, IsOpen
<1>9. ASSUME NEW text \in Texts, BeginWriteTextFile(text)
      PROVE  IInv'
  <2>1. text \in Seq(Bytes)
    BY ValueAssumption
  <2>2. call' \in Calls /\ call'.op = "writeText" /\ call'.phase = "open"
        /\ call'.peer = Local /\ call'.done = 0 /\ call'.text = text
    BY <1>9, <2>1, IdleFacts DEF BeginWriteTextFile, Calls, Statuses
  <2>3. QED
    BY <1>1, <1>2, <1>5, <2>1, <2>2 DEF Bounded, Inside, IsOpen
<1>10. ASSUME call' = Idle \/ call' = [Idle EXCEPT !.phase = "terminated"]
       PROVE  IInv'
  <2>1. call' \in Calls /\ call'.op = "none" /\ call'.phase \in {"idle", "terminated"}
    BY <1>10, IdleFacts DEF Calls, Statuses
  <2>2. QED
    BY <1>1, <1>2, <1>5, <2>1 DEF Bounded, Inside, Request, IsOpen
<1>11. QED
  BY <1>6, <1>7, <1>8, <1>9, <1>10 DEF MoveOverOpen, Resume

(* A step of the running call that changes no File, and ends the call only *)
(* where no helper has one.                                                 *)
LEMMA TransferStep ==
  ASSUME IInv, Request, SameModes(streams'), disk' \in Seq(Bytes), UNCHANGED files,
         Kept, call'.phase # "open", call'.phase = "returned" => ~IsOpen(Local),
         call'.phase \notin {"idle", "terminated"}
  PROVE  IInv'
<1>1. ~Request' => ~IsOpen(Local)
  BY DEF Request
<1>2. StreamsAreClosedOnce'
  BY <1>1, ContentStep
<1>3. files' \in [Everyone -> FileObjects] /\ streams' \in [Streams -> StreamObjects]
  BY DEF IInv, TypeOK, FileObjects, Everyone, SameModes
<1>4. call.op \in {"readExact", "writeAll"} => ~IsOpen(Local)'
  BY DEF IInv, Inside, IsOpen
<1>5. QED
  BY <1>2, <1>3, <1>4, KeptStep

LEMMA ReadExactStep ==
  ASSUME IInv, ReadExact
  PROVE  IInv'
<1> DEFINE want == Len(call.memory) - call.done
<1>1. /\ call.op = "readExact" /\ call.phase = "transfer" /\ Request
      /\ UNCHANGED <<disk, files>>
  BY DEF ReadExact, Request
<1>2. TypeOK /\ call \in Calls /\ ~IsOpen(Local) /\ call.peer # Local /\ disk \in Seq(Bytes)
      /\ SameModes(streams)
  BY <1>1, TypeFacts, NameAssumption DEF IInv, Inside, SameModes
<1>3. call.memory \in Seq(Bytes \cup {Unset}) /\ call.text \in Seq(Bytes) /\ call.done \in Nat
      /\ call.done <= Len(call.memory) /\ want \in Nat /\ Len(call.memory) \in Nat
  BY <1>1, <1>2, LenProperties DEF TypeOK, Calls
<1>4. ASSUME SameModes(streams'), NEW x \in Statuses, Leave(x)
      PROVE  IInv'
  BY <1>1, <1>2, <1>4, LeaveFacts, TransferStep
<1>5. CASE Leave("ok") /\ UNCHANGED streams
  BY <1>2, <1>4, <1>5 DEF Statuses
<1>6. ASSUME NEW r \in IF call.peer = Custom THEN CustomRead(want) ELSE ReadSome(call.peer, want),
             streams' = r.streams
      PROVE  SameModes(streams') /\ r.status \in Statuses /\ r.count \in Nat
             /\ r.bytes \in Seq(Bytes)
  <2>1. CASE call.peer = Custom
    <3>1. ASSUME NEW x \in {"io", "ok"}, NEW n \in {0, want + 1},
                 r = [status |-> x, count |-> n, bytes |-> <<>>, streams |-> streams]
          PROVE  SameModes(streams') /\ r.status \in Statuses /\ r.count \in Nat
                 /\ r.bytes \in Seq(Bytes)
      <4>1. <<>> \in Seq(Bytes) /\ n \in Nat /\ x \in Statuses
        BY <1>3, EmptySeq DEF Statuses
      <4>2. QED
        BY <1>2, <1>6, <3>1, <4>1
    <3>2. ASSUME NEW n \in 0 .. Smaller(want, Len(call.text) - call.done),
                 r = [status |-> "ok", count |-> n, streams |-> streams,
                      bytes |-> SubSeq(call.text, call.done + 1, call.done + n)]
          PROVE  SameModes(streams') /\ r.status \in Statuses /\ r.count \in Nat
                 /\ r.bytes \in Seq(Bytes)
      <4>1. Len(call.text) \in Nat /\ n \in Nat /\ n <= Len(call.text) - call.done
        BY <1>3, <3>2, LenProperties DEF Smaller
      <4>2. \A i \in call.done + 1 .. call.done + n : call.text[i] \in Bytes
        BY <1>3, <4>1, ElementOfSeq
      <4>3. SubSeq(call.text, call.done + 1, call.done + n) \in Seq(Bytes)
        BY <1>3, <4>1, <4>2, SubSeqProperties
      <4>4. QED
        BY <1>2, <1>6, <3>2, <4>1, <4>3 DEF Statuses
    <3>3. QED
      BY <1>6, <2>1, <3>1, <3>2 DEF CustomRead
  <2>2. CASE call.peer # Custom
    <3>1. call.peer \in Everyone
      BY <1>1, <2>2 DEF IInv, Inside, Everyone
    <3>2. QED
      BY <1>2, <1>3, <1>6, <2>2, <3>1, ReadSomeFacts DEF Statuses
  <2>3. QED
    BY <2>1, <2>2
<1>7. ASSUME NEW r, SameModes(streams'), r.count \in Nat, r.bytes \in Seq(Bytes), Progress(r, want),
             call' = [call EXCEPT !.done = @ + r.count, !.turn = ~@,
                                  !.memory = Subspan(@, call.done, r.bytes)]
      PROVE  IInv'
  <2> DEFINE memory == Subspan(call.memory, call.done, r.bytes)
  <2>1. memory \in Seq(Bytes \cup {Unset}) /\ Len(memory) = Len(call.memory)
    <3>1. DOMAIN call.memory = 1 .. Len(call.memory)
          /\ \A i \in 1 .. Len(call.memory) : call.memory[i] \in Bytes \cup {Unset}
      BY <1>3, LenProperties, ElementOfSeq
    <3>2. memory = [i \in 1 .. Len(call.memory) |->
                      IF i \in call.done + 1 .. call.done + Len(r.bytes)
                      THEN r.bytes[i - call.done] ELSE call.memory[i]]
      BY <3>1 DEF Subspan
    <3>3. \A i \in 1 .. Len(call.memory) : i \in call.done + 1 .. call.done + Len(r.bytes) =>
            r.bytes[i - call.done] \in Bytes
      BY <1>3, <1>7, LenProperties, ElementOfSeq
    <3>4. memory \in [1 .. Len(call.memory) -> Bytes \cup {Unset}]
      BY <3>1, <3>2, <3>3
    <3>5. QED
      BY <1>3, <3>4
  <2>2. call.done + r.count \in Nat /\ call.done + r.count <= Len(memory)
    BY <1>3, <1>7, <2>1 DEF Progress, Overclaims
  <2>3. call' = [call EXCEPT !.done = @ + r.count, !.turn = ~@, !.memory = memory]
    BY <1>7
  <2> HIDE DEF memory
  <2>4. /\ call' \in Calls /\ call'.op = call.op /\ call'.phase = call.phase
        /\ call'.peer = call.peer /\ call'.done = call.done + r.count /\ call'.memory = memory
    BY <1>2, <2>1, <2>2, <2>3 DEF Calls
  <2>5. Bounded(call)'
    BY <1>1, <2>2, <2>4 DEF Bounded
  <2>6. TypeOK'
    BY <1>1, <1>2, <1>7, <2>4, <2>5 DEF TypeOK, Bounded, SameModes, Calls, Statuses, StreamObjects
  <2>7. StreamsAreClosedOnce'
    BY <1>1, <1>2, <1>7, ContentStep
  <2>8. Inside'
    BY <1>1, <1>2, <2>4 DEF IInv, Inside, Request, IsOpen
  <2>9. QED
    BY <2>6, <2>7, <2>8 DEF IInv
<1>8. QED
  BY <1>4, <1>5, <1>6, <1>7 DEF ReadExact, Statuses

LEMMA WriteAllStep ==
  ASSUME IInv, WriteAll
  PROVE  IInv'
<1> DEFINE rest == After(call.text, call.done)
<1>1. /\ call.op \in {"writeAll", "writeText"} /\ call.phase = "transfer" /\ Request
      /\ UNCHANGED files
  BY DEF WriteAll, Request
<1>2. TypeOK /\ call \in Calls /\ disk \in Seq(Bytes) /\ SameModes(streams)
  BY TypeFacts DEF IInv, SameModes
<1>3. call.memory \in Seq(Bytes \cup {Unset}) /\ call.text \in Seq(Bytes) /\ call.done \in Nat
      /\ call.done <= Len(call.text) /\ Len(call.text) \in Nat
  BY <1>1, <1>2, LenProperties DEF TypeOK, Calls
<1>4. rest \in Seq(Bytes) /\ Len(rest) = Len(call.text) - call.done
  <2>1. call.done \in 0 .. Len(call.text)
    BY <1>3
  <2>2. QED
    BY <1>3, <2>1, FirstFacts
<1> HIDE DEF rest
<1>5. /\ call.op = "writeAll" => call.peer \in Files \cup {Custom} /\ call.peer # Local
                                 /\ ~IsOpen(Local)
      /\ call.op = "writeText" => call.peer = Local
  BY NameAssumption DEF IInv, Inside
<1>6. ASSUME SameModes(streams'), disk' \in Seq(Bytes), NEW x \in Statuses, End(x)
      PROVE  IInv'
  <2>1. CASE call.peer = Local
    <3>1. LeaveHelper(x)
      BY <1>6, <2>1 DEF End
    <3>2. Kept /\ call'.phase = "destroy"
      BY <1>2, <1>6, <3>1, LeaveFacts
    <3>3. QED
      BY <1>1, <1>6, <3>2, TransferStep
  <2>2. CASE call.peer # Local
    <3>1. Leave(x) /\ ~IsOpen(Local)
      BY <1>1, <1>5, <1>6, <2>2 DEF End
    <3>2. Kept /\ call'.phase = "returned"
      BY <1>2, <1>6, <3>1, LeaveFacts
    <3>3. QED
      BY <1>1, <1>6, <3>1, <3>2, TransferStep
  <2>3. QED
    BY <2>1, <2>2
<1>7. CASE rest = <<>> /\ WroteAll /\ UNCHANGED <<disk, streams>>
  <2>1. CASE call.op = "writeText"
    <3>1. call' = [call EXCEPT !.phase = "flush"]
      BY <1>7, <2>1 DEF WroteAll
    <3>2. Kept /\ call'.phase = "flush"
      BY <1>2, <3>1, GotoFacts
    <3>3. QED
      BY <1>1, <1>2, <1>7, <3>2, TransferStep
  <2>2. CASE call.op # "writeText"
    <3>1. Leave("ok") /\ ~IsOpen(Local)
      BY <1>1, <1>5, <1>7, <2>2 DEF WroteAll
    <3>2. Kept /\ call'.phase = "returned"
      BY <1>2, <3>1, LeaveFacts DEF Statuses
    <3>3. QED
      BY <1>1, <1>2, <1>7, <3>1, <3>2, TransferStep
  <2>3. QED
    BY <2>1, <2>2
<1>8. ASSUME NEW r \in IF call.peer = Custom THEN CustomWrite(rest) ELSE WriteSome(call.peer, rest),
             streams' = r.streams, disk' = r.disk
      PROVE  SameModes(streams') /\ disk' \in Seq(Bytes) /\ r.status \in Statuses /\ r.count \in Nat
  <2>1. CASE call.peer = Custom
    <3>1. PICK x \in {"io", "ok"}, n \in Nat :
            r = [status |-> x, count |-> n, streams |-> streams, disk |-> disk]
      <4>1. \A n \in 0 .. Len(rest) + 1 : n \in Nat
        OBVIOUS
      <4>2. QED
        BY <1>8, <2>1, <4>1 DEF CustomWrite
    <3>2. QED
      BY <1>2, <1>8, <3>1 DEF Statuses
  <2>2. CASE call.peer # Custom
    <3>1. call.peer \in Everyone
      BY <1>1, <1>5, <2>2 DEF Everyone
    <3>2. QED
      BY <1>2, <1>4, <1>8, <2>2, <3>1, WriteSomeFacts DEF Statuses
  <2>3. QED
    BY <2>1, <2>2
<1>9. ASSUME NEW r, SameModes(streams'), disk' \in Seq(Bytes), r.count \in Nat,
             Progress(r, Len(rest)),
             call' = [call EXCEPT !.done = @ + r.count, !.turn = ~@,
                                  !.memory = @ \o First(rest, Smaller(r.count, Len(rest)))]
      PROVE  IInv'
  <2> DEFINE memory == call.memory \o First(rest, Smaller(r.count, Len(rest)))
  <2>1. r.count <= Len(rest)
    BY <1>3, <1>4, <1>9 DEF Progress, Overclaims
  <2>2. memory \in Seq(Bytes \cup {Unset})
    <3>1. Smaller(r.count, Len(rest)) \in 0 .. Len(rest)
      BY <1>3, <1>4, <1>9 DEF Smaller
    <3>2. First(rest, Smaller(r.count, Len(rest))) \in Seq(Bytes)
      BY <1>4, <3>1, FirstFacts
    <3>3. First(rest, Smaller(r.count, Len(rest))) \in Seq(Bytes \cup {Unset})
      BY <3>2
    <3>4. QED
      BY <1>3, <3>3, AppendFacts
  <2>3. call.done + r.count \in Nat /\ call.done + r.count <= Len(call.text)
    BY <1>3, <1>4, <1>9, <2>1
  <2>4. call' = [call EXCEPT !.done = @ + r.count, !.turn = ~@, !.memory = memory]
    BY <1>9
  <2> HIDE DEF memory
  <2>5. /\ call' \in Calls /\ call'.op = call.op /\ call'.phase = call.phase
        /\ call'.peer = call.peer /\ call'.done = call.done + r.count /\ call'.text = call.text
    BY <1>2, <2>2, <2>3, <2>4 DEF Calls
  <2>6. Bounded(call)'
    BY <1>1, <2>3, <2>5 DEF Bounded
  <2>7. TypeOK'
    BY <1>1, <1>2, <1>9, <2>5, <2>6 DEF TypeOK, Bounded, SameModes, Calls, Statuses, StreamObjects
  <2>8. Request'
    BY <1>1, <2>5 DEF Request
  <2>9. StreamsAreClosedOnce'
    BY <1>1, <1>9, <2>8, ContentStep
  <2>10. Inside'
    BY <1>1, <1>5, <2>5 DEF IInv, Inside, Request, IsOpen
  <2>11. QED
    BY <2>7, <2>9, <2>10 DEF IInv
<1>10. CASE rest # <<>>
  <2>1. PICK r \in IF call.peer = Custom THEN CustomWrite(rest) ELSE WriteSome(call.peer, rest) :
          /\ streams' = r.streams /\ disk' = r.disk
          /\ \/ r.status # "ok" /\ End(r.status)
             \/ NoProgress(r) /\ End("io")
             \/ Overclaims(r, Len(rest)) /\ End("internal")
             \/ /\ Progress(r, Len(rest))
                /\ call' = [call EXCEPT !.done = @ + r.count, !.turn = ~@,
                                        !.memory = @ \o First(rest, Smaller(r.count, Len(rest)))]
    BY <1>10 DEF WriteAll, rest
  <2>2. SameModes(streams') /\ disk' \in Seq(Bytes) /\ r.status \in Statuses /\ r.count \in Nat
    BY <2>1, <1>8
  <2>3. "io" \in Statuses /\ "internal" \in Statuses
    BY DEF Statuses
  <2>4. QED
    BY <1>6, <1>9, <2>1, <2>2, <2>3
<1>11. QED
  BY <1>7, <1>10 DEF WriteAll, rest

LEMMA OpenLocalSteps ==
  ASSUME IInv, OpenLocal \/ OpenLocalFails
  PROVE  IInv'
<1>1. call.phase = "open" /\ Request /\ ~IsOpen(Local) /\ Local \in Everyone
  BY DEF OpenLocal, OpenLocalFails, IInv, Inside, Request, Everyone
<1>2. TypeOK /\ call \in Calls /\ disk \in Seq(Bytes) /\ SameModes(streams)
  BY TypeFacts DEF IInv, SameModes
<1>3. CASE OpenLocalFails
  <2>1. Kept /\ call'.phase = "returned"
    BY <1>2, <1>3, LeaveFacts DEF OpenLocalFails, Statuses
  <2>2. QED
    BY <1>1, <1>2, <1>3, <2>1, TransferStep DEF OpenLocalFails
<1>4. CASE OpenLocal
  <2>1. PICK mode \in {"read", "write"} : Open(Local, mode)
    BY <1>4 DEF OpenLocal
  <2>2. Kept /\ call'.phase = "transfer"
    BY <1>2, <1>4, GotoFacts DEF OpenLocal
  <2>3. Request'
    BY <2>2 DEF Request
  <2>4. /\ disk' \in Seq(Bytes) /\ streams' \in [Streams -> StreamObjects]
        /\ files' \in [Everyone -> FileObjects] /\ StreamsAreClosedOnce'
    BY <1>1, <2>1, <2>3, OpenStep
  <2>5. call.op \notin {"none", "readExact", "writeAll"}
    <3>1. call.op = "none" => ~Request
      BY DEF IInv, Inside
    <3>2. call.op \notin {"readExact", "writeAll"}
      BY <1>1 DEF IInv, Inside
    <3>3. QED
      BY <1>1, <3>1, <3>2
  <2>6. QED
    BY <1>1, <2>2, <2>4, <2>5, KeptStep
<1>5. QED
  BY <1>3, <1>4

LEMMA ReadTextStep ==
  ASSUME IInv, ReadTextChunk
  PROVE  IInv'
<1> DEFINE remaining == call.limit - Len(call.memory)
<1>1. /\ call.op = "readText" /\ call.phase = "transfer" /\ Request
      /\ UNCHANGED <<disk, files>> /\ Local \in Everyone
  BY DEF ReadTextChunk, Request, Everyone
<1>2. TypeOK /\ call \in Calls /\ disk \in Seq(Bytes)
  BY TypeFacts DEF IInv
<1>3. call.memory \in Seq(Bytes \cup {Unset}) /\ Len(call.memory) \in Nat /\ call.limit \in Nat
      /\ Len(call.memory) <= call.limit
  BY <1>1, <1>2, LenProperties DEF TypeOK, Calls
<1>4. ChunkRequest(remaining) \in Nat
  BY <1>3, ValueAssumption DEF ChunkRequest
<1>5. PICK r \in ReadSome(Local, ChunkRequest(remaining)) :
        /\ streams' = r.streams
        /\ \/ r.status # "ok" /\ LeaveHelper(r.status)
           \/ NoProgress(r) /\ call' = [call EXCEPT !.phase = "close"]
           \/ Overclaims(r, remaining) /\ LeaveHelper("overflow")
           \/ /\ Progress(r, remaining)
              /\ call' = [call EXCEPT !.memory = @ \o r.bytes, !.turn = ~@]
  BY DEF ReadTextChunk
<1>6. /\ SameModes(streams') /\ r.status \in Statuses /\ r.count \in Nat
      /\ r.bytes \in Seq(Bytes) /\ Len(r.bytes) = r.count
  BY <1>1, <1>2, <1>4, <1>5, ReadSomeFacts DEF Statuses
<1>7. ASSUME NEW x \in Statuses, LeaveHelper(x)
      PROVE  IInv'
  <2>1. Kept /\ call'.phase = "destroy"
    BY <1>2, <1>7, LeaveFacts
  <2>2. QED
    BY <1>1, <1>2, <1>6, <2>1, TransferStep
<1>8. CASE call' = [call EXCEPT !.phase = "close"]
  <2>1. Kept /\ call'.phase = "close"
    BY <1>2, <1>8, GotoFacts
  <2>2. QED
    BY <1>1, <1>2, <1>6, <2>1, TransferStep
<1>9. CASE Progress(r, remaining) /\ call' = [call EXCEPT !.memory = @ \o r.bytes, !.turn = ~@]
  <2> DEFINE memory == call.memory \o r.bytes
  <2>1. memory \in Seq(Bytes \cup {Unset}) /\ Len(memory) = Len(call.memory) + r.count
    <3>1. r.bytes \in Seq(Bytes \cup {Unset})
      BY <1>6
    <3>2. QED
      BY <1>3, <1>6, <3>1, AppendFacts
  <2>2. Len(memory) <= call.limit
    BY <1>3, <1>6, <1>9, <2>1 DEF Progress, Overclaims
  <2>3. call' = [call EXCEPT !.memory = memory, !.turn = ~@]
    BY <1>9
  <2> HIDE DEF memory
  <2>4. /\ call' \in Calls /\ call'.op = call.op /\ call'.phase = call.phase
        /\ call'.peer = call.peer /\ call'.memory = memory /\ call'.limit = call.limit
    BY <1>2, <2>1, <2>3 DEF Calls
  <2>5. Bounded(call)'
    BY <1>1, <2>2, <2>4 DEF Bounded
  <2>6. TypeOK'
    BY <1>1, <1>2, <1>6, <2>4, <2>5 DEF TypeOK, Bounded, SameModes, Calls, Statuses, StreamObjects
  <2>7. Request'
    BY <1>1, <2>4 DEF Request
  <2>8. StreamsAreClosedOnce'
    BY <1>1, <1>6, <2>7, ContentStep
  <2>9. Inside'
    BY <1>1, <2>4 DEF IInv, Inside, Request, IsOpen
  <2>10. QED
    BY <2>6, <2>8, <2>9 DEF IInv
<1>10. "overflow" \in Statuses
  BY DEF Statuses
<1>11. QED
  BY <1>5, <1>6, <1>7, <1>8, <1>9, <1>10

LEMMA FlushLocalStep ==
  ASSUME IInv, FlushLocal
  PROVE  IInv'
<1>1. call.phase = "flush" /\ Request /\ UNCHANGED files /\ Local \in Everyone
  BY DEF FlushLocal, Request, Everyone
<1>2. TypeOK /\ call \in Calls
  BY TypeFacts DEF IInv
<1>3. PICK r \in Flush(Local) :
        /\ streams' = r.streams /\ disk' = r.disk
        /\ IF r.status = "ok" THEN call' = [call EXCEPT !.phase = "close"] ELSE LeaveHelper(r.status)
  BY DEF FlushLocal
<1>4. SameModes(streams') /\ disk' \in Seq(Bytes) /\ r.status \in Statuses
  BY <1>1, <1>2, <1>3, FlushFacts DEF Statuses
<1>5. Kept /\ call'.phase \in {"close", "destroy"}
  BY <1>2, <1>3, <1>4, GotoFacts, LeaveFacts
<1>6. QED
  BY <1>1, <1>4, <1>5, TransferStep

LEMMA CloseLocalSteps ==
  ASSUME IInv, CloseLocal \/ DestroyLocal
  PROVE  IInv'
<1>1. Request /\ Local \in Everyone /\ TypeOK /\ call \in Calls
  BY TypeFacts DEF IInv, CloseLocal, DestroyLocal, Request, Everyone
<1>2. PICK r \in Close(Local) :
        /\ streams' = r.streams /\ disk' = r.disk /\ files' = r.files
        /\ LeaveHelper(r.status) \/ Leave(call.status)
  BY DEF CloseLocal, DestroyLocal
<1>3. /\ disk' \in Seq(Bytes) /\ streams' \in [Streams -> StreamObjects]
      /\ files' \in [Everyone -> FileObjects] /\ r.status \in Statuses
      /\ files'[Local].handle = None
  BY <1>1, <1>2, CloseFacts DEF Statuses
<1>4. Kept /\ call'.phase \in {"destroy", "returned"}
  BY <1>1, <1>2, <1>3, LeaveFacts DEF Calls
<1>5. StreamsAreClosedOnce'
  BY <1>1, <1>2, CloseStep
<1>6. ~IsOpen(Local)'
  BY <1>3 DEF IsOpen
<1>7. QED
  BY <1>1, <1>3, <1>4, <1>5, <1>6, KeptStep

THEOREM Invariance == Spec => []IInv
<1>1. Init => IInv
  BY InitInv
<1>2. IInv /\ [Next]_vars => IInv'
  <2> SUFFICES ASSUME IInv, [Next]_vars
               PROVE  IInv'
    OBVIOUS
  <2>1. CASE CallStep
    BY <2>1, ReadExactStep, WriteAllStep, OpenLocalSteps, ReadTextStep, FlushLocalStep,
       CloseLocalSteps DEF CallStep
  <2>2. CASE UNCHANGED vars
    BY <2>2 DEF vars, IInv, TypeOK, StreamsAreClosedOnce, Inside, IsOpen, Request
  <2>3. QED
    BY <2>1, <2>2, CallerSteps, BeginSteps DEF Next
<1>3. QED
  BY <1>1, <1>2, PTL DEF Spec

(* The bytes, streams, Files and calls keep their types, and no loop goes   *)
(* past what it was asked for.                                              *)
THEOREM TypeCorrect == Spec => []TypeOK
BY Invariance, PTL DEF IInv

(* Whatever is moved, closed and destroyed, and wherever a helper leaves,   *)
(* each open stream has one File that will close it.                        *)
THEOREM ClosedOnce == Spec => []StreamsAreClosedOnce
BY Invariance, PTL DEF IInv

-----------------------------------------------------------------------------
(* What the calls have transferred.                                        *)

(* What has been written through an open File, in order: the bytes that the *)
(* stream has put out and those it still buffers.                           *)
Content(f) == disk \o streams[files[f].handle].pending

(* The elements of c after the first start are the first n of text. *)
Agrees(c, start, text, n) ==
  Len(c) = start + n /\ \A i \in 1 .. n : c[start + i] = text[i]

Begins(s, text) == Len(s) <= Len(text) /\ \A i \in 1 .. Len(s) : s[i] = text[i]

ReadersBufferNothing ==
  \A s \in Streams : streams[s].mode # "write" => streams[s].pending = <<>>

(* ReadExact: every byte that is done is the next one of the source. *)
ReadExactSoFar ==
  LET source == IF call.peer = Custom THEN call.text ELSE disk
  IN call.op = "readExact" =>
       /\ call.phase \in {"transfer", "returned"}
       /\ call.peer = Custom => call.start = 0
       /\ \A i \in 1 .. call.done : /\ call.start + i <= Len(source)
                                   /\ call.memory[i] = source[call.start + i]
       /\ call.phase = "transfer" /\ call.peer # Custom /\ IsOpen(call.peer) =>
            streams[files[call.peer].handle].position = call.start + call.done
       /\ call.phase = "returned" /\ call.status = "ok" => call.done = Len(call.memory)

(* WriteAll, for its callers and for WriteTextFile *)
WriteAllSoFar ==
  /\ call.op \in {"writeAll", "writeText"} /\ call.phase = "transfer" =>
       /\ Agrees(call.memory, 0, call.text, call.done)
       /\ call.peer # Custom /\ IsOpen(call.peer) =>
            Agrees(Content(call.peer), call.start, call.text, call.done)
       /\ call.peer # Custom /\ ~IsOpen(call.peer) => call.done = 0
  /\ call.op = "writeAll" => call.phase \in {"transfer", "returned"}
  /\ call.op = "writeAll" /\ call.phase = "returned" /\ call.status = "ok" =>
       /\ Agrees(call.memory, 0, call.text, Len(call.text))
       /\ call.peer # Custom /\ call.text # <<>> =>
            IsOpen(call.peer) /\ Agrees(Content(call.peer), call.start, call.text, Len(call.text))

ReadTextSoFar ==
  call.op = "readText" =>
    /\ call.phase \in {"open", "transfer", "close", "destroy", "returned"}
    /\ call.phase = "open" => call.memory = <<>>
    /\ call.phase \in {"transfer", "close"} => IsOpen(Local)
    /\ IsOpen(Local) => files[Local].readable
    /\ call.phase = "transfer" =>
         /\ Begins(call.memory, disk)
         /\ streams[files[Local].handle].position = Len(call.memory)
    /\ call.phase = "close" => call.memory = disk
    /\ call.phase \in {"destroy", "returned"} =>
         /\ call.status = "ok" => call.memory = disk
         /\ call.status = "overflow" => Len(disk) > call.limit

WriteTextSoFar ==
  call.op = "writeText" =>
    /\ call.phase \in {"open", "transfer", "flush", "close", "destroy", "returned"}
    /\ call.phase = "open" => call.done = 0 /\ call.memory = <<>>
    /\ call.start = 0
    /\ call.phase \in {"transfer", "flush", "close"} => IsOpen(Local)
    /\ IsOpen(Local) => files[Local].writable
    /\ call.phase = "flush" => Content(Local) = call.text
    /\ call.phase = "close" =>
         disk = call.text /\ streams[files[Local].handle].pending = <<>>
    /\ call.phase = "destroy" =>
         /\ IsOpen(Local) => Begins(Content(Local), call.text) /\ call.status # "ok"
         /\ ~IsOpen(Local) => /\ Begins(disk, call.text)
                              /\ call.status = "ok" => disk = call.text
    /\ call.phase = "returned" /\ call.status # "unopened" =>
         /\ Begins(disk, call.text)
         /\ call.status = "ok" => disk = call.text

SoFar == ReadersBufferNothing /\ ReadExactSoFar /\ WriteAllSoFar /\ ReadTextSoFar /\ WriteTextSoFar

(* Sequences. *)
LEMMA PartElements ==
  ASSUME NEW S, NEW s \in Seq(S), NEW n \in 0 .. Len(s)
  PROVE  /\ \A i \in 1 .. n : First(s, n)[i] = s[i]
         /\ \A i \in 1 .. Len(s) - n : After(s, n)[i] = s[n + i]
<1>1. \A i \in 1 .. n : s[i] \in S
  BY LenProperties
<1>2. \A i \in n + 1 .. Len(s) : s[i] \in S
  BY LenProperties
<1>3. \A i \in 1 .. n : First(s, n)[i] = s[i]
  <2>1. \A i \in 1 .. n - 1 + 1 : SubSeq(s, 1, n)[i] = s[1 + i - 1]
    BY <1>1, SubSeqProperties
  <2> QED
    BY <2>1 DEF First
<1>4. \A i \in 1 .. Len(s) - n : After(s, n)[i] = s[n + i]
  <2>1. \A i \in 1 .. Len(s) - (n + 1) + 1 : SubSeq(s, n + 1, Len(s))[i] = s[n + 1 + i - 1]
    <3>1. n + 1 \in Int /\ Len(s) \in Int
      BY LenProperties
    <3> QED
      BY <1>2, <3>1, SubSeqProperties
  <2> QED
    BY <2>1, LenProperties DEF After
<1> QED
  BY <1>3, <1>4

LEMMA MiddleElements ==
  ASSUME NEW S, NEW s \in Seq(S), NEW k \in Nat, NEW n \in Nat, k + n <= Len(s)
  PROVE  /\ Len(SubSeq(s, k + 1, k + n)) = n
         /\ \A i \in 1 .. n : SubSeq(s, k + 1, k + n)[i] = s[k + i]
<1> DEFINE a == k + 1
           b == k + n
<1>1. a \in Int /\ b \in Int /\ a = k + 1 /\ b = k + n /\ Len(s) \in Nat
  BY LenProperties
<1> HIDE DEF a, b
<1>2. \A i \in a .. b : s[i] \in S
  BY <1>1, ElementOfSeq
<1>3. /\ Len(SubSeq(s, a, b)) = IF a <= b THEN b - a + 1 ELSE 0
      /\ \A i \in 1 .. b - a + 1 : SubSeq(s, a, b)[i] = s[a + i - 1]
  BY <1>1, <1>2, SubSeqProperties
<1>4. Len(SubSeq(s, a, b)) = n
  BY <1>1, <1>3
<1>5. ASSUME NEW i \in 1 .. n
      PROVE  SubSeq(s, a, b)[i] = s[k + i]
  <2>1. i \in 1 .. b - a + 1 /\ a + i - 1 = k + i
    BY <1>1
  <2> QED
    BY <1>3, <2>1
<1> QED
  BY <1>4, <1>5 DEF a, b

LEMMA FirstThenAfter ==
  ASSUME NEW S, NEW s \in Seq(S), NEW n \in 0 .. Len(s)
  PROVE  First(s, n) \o After(s, n) = s
<1>1. /\ First(s, n) \in Seq(S) /\ Len(First(s, n)) = n
      /\ After(s, n) \in Seq(S) /\ Len(After(s, n)) = Len(s) - n
  BY FirstFacts
<1>2. /\ First(s, n) \o After(s, n) \in Seq(S)
      /\ Len(First(s, n) \o After(s, n)) = Len(s)
      /\ \A i \in 1 .. Len(s) : (First(s, n) \o After(s, n))[i] =
                                IF i <= n THEN First(s, n)[i] ELSE After(s, n)[i - n]
  BY <1>1, ConcatProperties, LenProperties
<1>3. ASSUME NEW i \in 1 .. Len(s)
      PROVE  (First(s, n) \o After(s, n))[i] = s[i]
  <2>1. i <= n => First(s, n)[i] = s[i]
    BY PartElements, LenProperties
  <2>2. i > n => i - n \in 1 .. Len(s) - n /\ n + (i - n) = i
    BY LenProperties
  <2>3. i > n => After(s, n)[i - n] = s[i]
    BY <2>2, PartElements
  <2> QED
    BY <1>2, <2>1, <2>3, LenProperties
<1> QED
  BY <1>2, <1>3, SeqEqual

LEMMA AgreesExtends ==
  ASSUME NEW S, NEW c \in Seq(S), NEW T, NEW text \in Seq(T), NEW start \in Nat,
         NEW n \in 0 .. Len(text), NEW m \in 0 .. Len(text) - n,
         First(After(text, n), m) \in Seq(S), Agrees(c, start, text, n)
  PROVE  Agrees(c \o First(After(text, n), m), start, text, n + m)
<1> DEFINE x == First(After(text, n), m)
<1>1. After(text, n) \in Seq(T) /\ Len(After(text, n)) = Len(text) - n
  BY FirstFacts
<1>2. Len(x) = m /\ \A i \in 1 .. m : x[i] = After(text, n)[i]
  BY <1>1, FirstFacts, PartElements
<1>3. Len(text) \in Nat /\ Len(c) \in Nat /\ Len(c) = start + n
  BY LenProperties DEF Agrees
<1>4. \A i \in 1 .. m : x[i] = text[n + i]
  <2>1. \A i \in 1 .. m : i \in 1 .. Len(text) - n
    BY <1>3
  <2> QED
    BY <1>2, <2>1, PartElements
<1> HIDE DEF x
<1>5. x \in Seq(S)
  BY DEF x
<1>6. /\ Len(c \o x) = Len(c) + Len(x)
      /\ \A i \in 1 .. Len(c) + Len(x) : (c \o x)[i] = IF i <= Len(c) THEN c[i] ELSE x[i - Len(c)]
  BY <1>5, ConcatProperties
<1>7. ASSUME NEW i \in 1 .. n + m
      PROVE  (c \o x)[start + i] = text[i]
  <2>1. CASE i <= n
    BY <1>2, <1>3, <1>6, <2>1 DEF Agrees
  <2>2. CASE i > n
    <3>1. i - n \in 1 .. m /\ n + (i - n) = i
      BY <2>2
    <3>2. x[i - n] = text[i]
      BY <1>4, <3>1
    <3>3. start + i \in 1 .. Len(c) + Len(x) /\ start + i > Len(c) /\ start + i - Len(c) = i - n
      BY <1>2, <1>3, <2>2
    <3>4. (c \o x)[start + i] = x[start + i - Len(c)]
      BY <1>6, <3>3
    <3> QED
      BY <3>2, <3>3, <3>4
  <2>3. n \in Int
    BY <1>3
  <2>4. i \in Int
    OBVIOUS
  <2>5. i <= n \/ i > n
    BY <2>3, <2>4
  <2> QED
    BY <2>1, <2>2, <2>5
<1> QED
  BY <1>2, <1>3, <1>6, <1>7 DEF Agrees, x

LEMMA AgreesWhole ==
  ASSUME NEW S, NEW c \in Seq(S), NEW text \in Seq(S), NEW start \in Nat,
         Agrees(c, start, text, Len(text))
  PROVE  After(c, start) = text
<1>1. Len(text) \in Nat /\ Len(c) = start + Len(text)
  BY LenProperties DEF Agrees
<1>2. start \in 0 .. Len(c)
  BY <1>1
<1>3. After(c, start) \in Seq(S) /\ Len(After(c, start)) = Len(text)
  BY <1>1, <1>2, FirstFacts
<1>4. \A i \in 1 .. Len(text) : After(c, start)[i] = c[start + i]
  BY <1>1, <1>2, PartElements
<1> QED
  BY <1>3, <1>4, SeqEqual DEF Agrees

LEMMA AgreesIsEqual ==
  ASSUME NEW S, NEW c \in Seq(S), NEW text \in Seq(S), Agrees(c, 0, text, Len(text))
  PROVE  c = text
<1>1. Len(text) \in Nat /\ Len(c) = Len(text)
  BY LenProperties DEF Agrees
<1>2. \A i \in 1 .. Len(text) : c[i] = text[i]
  BY <1>1 DEF Agrees
<1> QED
  BY <1>1, <1>2, SeqEqual

(* A text begins with what agrees with it, and with any beginning of that. *)
LEMMA AgreesBegins ==
  ASSUME NEW S, NEW c \in Seq(S), NEW text \in Seq(S), NEW n \in 0 .. Len(text),
         Agrees(c, 0, text, n)
  PROVE  Begins(c, text)
<1>1. Len(text) \in Nat /\ Len(c) = n
  BY LenProperties DEF Agrees
<1> QED
  BY <1>1 DEF Agrees, Begins

LEMMA BeginsConcat ==
  ASSUME NEW S, NEW s \in Seq(S), NEW t \in Seq(S), NEW text \in Seq(S), Begins(s \o t, text)
  PROVE  Begins(s, text)
<1>1. Len(s) \in Nat /\ Len(t) \in Nat /\ Len(text) \in Nat
  BY LenProperties
<1>2. /\ Len(s \o t) = Len(s) + Len(t)
      /\ \A i \in 1 .. Len(s) : (s \o t)[i] = s[i]
  <2>1. \A i \in 1 .. Len(s) : i \in 1 .. Len(s) + Len(t) /\ i <= Len(s)
    BY <1>1
  <2> QED
    BY <2>1, ConcatProperties
<1> QED
  BY <1>1, <1>2 DEF Begins

LEMMA BeginsIsPrefix ==
  ASSUME NEW S, NEW s \in Seq(S), NEW t \in Seq(S), Begins(s, t)
  PROVE  IsPrefix(s, t)
<1>1. Len(s) \in 0 .. Len(t) /\ Len(s) \in 0 .. Len(s) /\ Len(s) \in Nat
  BY LenProperties DEF Begins
<1>2. /\ First(s, Len(s)) \in Seq(S) /\ Len(First(s, Len(s))) = Len(s)
      /\ First(t, Len(s)) \in Seq(S) /\ Len(First(t, Len(s))) = Len(s)
  BY <1>1, FirstFacts
<1>3. \A i \in 1 .. Len(s) : First(s, Len(s))[i] = s[i] /\ First(t, Len(s))[i] = t[i]
  BY <1>1, PartElements
<1>4. First(s, Len(s)) = First(t, Len(s))
  BY <1>2, <1>3, SeqEqual DEF Begins
<1> QED
  BY <1>1, <1>4 DEF IsPrefix, First, Begins

(* What a read gives: the next bytes of the path, and none only at its end *)
(* or after an error.                                                       *)
LEMMA FreadExact ==
  ASSUME disk \in Seq(Bytes), NEW s \in StreamObjects, NEW n \in Nat \ {0}, NEW r \in Fread(s, n)
  PROVE  /\ r.stream.pending = s.pending
         /\ r.stream.position = s.position + r.count
         /\ r.count > 0 => s.position + r.count <= Len(disk)
         /\ \A i \in 1 .. r.count : r.bytes[i] = disk[s.position + i]
         /\ r.count = 0 /\ ~r.stream.failed => s.position >= Len(disk)
<1> DEFINE last == Smaller(s.position + n, Len(disk))
           available == Len(SubSeq(disk, s.position + 1, last))
           bytes(count) == SubSeq(disk, s.position + 1, s.position + count)
           Outcome(count, failed) ==
             [count  |-> count,
              bytes  |-> bytes(count),
              stream |-> Stream(s.mode, s.position + count, s.pending, failed)]
<1>1. /\ s.position \in Nat /\ s.failed \in BOOLEAN /\ s.pending \in Seq(Bytes)
      /\ s.mode \in {"closed", "read", "write"} /\ Len(disk) \in Nat
  BY LenProperties DEF StreamObjects
<1>2. /\ last \in Nat /\ last <= Len(disk)
      /\ last = s.position + n \/ last = Len(disk)
  BY <1>1 DEF Smaller
<1>3. \A i \in s.position + 1 .. last : disk[i] \in Bytes
  BY <1>1, <1>2, ElementOfSeq
<1>4. available = IF s.position + 1 <= last THEN last - s.position ELSE 0
  <2>1. Len(SubSeq(disk, s.position + 1, last)) =
          IF s.position + 1 <= last THEN last - (s.position + 1) + 1 ELSE 0
    BY <1>1, <1>2, <1>3, SubSeqProperties
  <2> QED
    BY <1>1, <1>2, <2>1
<1>5. /\ available \in Nat /\ (available > 0 => s.position + available <= Len(disk))
      /\ available = 0 => s.position >= Len(disk)
  <2> HIDE DEF available, last
  <2> QED
    BY <1>1, <1>2, <1>4
<1> HIDE DEF available
<1>6. PICK count \in 0 .. available, failed \in BOOLEAN :
        r = Outcome(count, failed) /\ (~failed => count = available)
  <2>1. r \in {Outcome(available, s.failed)} \cup {Outcome(count, TRUE) : count \in 0 .. available}
    BY DEF Fread, available
  <2>2. available \in 0 .. available
    BY <1>5
  <2>3. QED
    BY <2>1, <2>2, <1>1
<1>7. \A i \in 1 .. count : bytes(count)[i] = disk[s.position + i]
  <2>1. CASE count = 0
    BY <2>1
  <2>2. CASE count > 0
    <3>1. s.position + count <= Len(disk) /\ count \in Nat
      BY <1>1, <1>5, <2>2
    <3> QED
      BY <1>1, <3>1, MiddleElements
  <2>3. count \in Nat
    BY <1>5
  <2>4. count = 0 \/ count > 0
    BY <2>3
  <2> QED
    BY <2>1, <2>2, <2>4
<1> HIDE DEF bytes
<1>8. r.count = count /\ r.bytes = bytes(count)
      /\ r.stream = Stream(s.mode, s.position + count, s.pending, failed)
  BY <1>6
<1>9. /\ r.stream.pending = s.pending /\ r.stream.position = s.position + count
      /\ r.stream.failed = failed
  BY <1>8 DEF Stream
<1>10. count > 0 => s.position + count <= Len(disk)
  BY <1>1, <1>5
<1>11. ~failed /\ count = 0 => s.position >= Len(disk)
  BY <1>5, <1>6
<1> QED
  BY <1>7, <1>8, <1>9, <1>10, <1>11

(* What a stream puts out early it no longer buffers. *)
LEMMA SpillKeeps ==
  ASSUME disk \in Seq(Bytes), NEW s \in StreamObjects, NEW k \in 0 .. Len(s.pending)
  PROVE  /\ SpilledDisk(s, k) \in Seq(Bytes) /\ SpilledStream(s, k).pending \in Seq(Bytes)
         /\ SpilledDisk(s, k) \o SpilledStream(s, k).pending = disk \o s.pending
<1>1. s.pending \in Seq(Bytes)
  BY DEF StreamObjects
<1>2. First(s.pending, k) \in Seq(Bytes) /\ After(s.pending, k) \in Seq(Bytes)
  BY <1>1, FirstFacts
<1>3. SpilledStream(s, k).pending = After(s.pending, k)
  BY DEF SpilledStream, StreamObjects
<1>4. (disk \o First(s.pending, k)) \o After(s.pending, k)
        = disk \o (First(s.pending, k) \o After(s.pending, k))
  BY <1>2, ConcatAssociative
<1>5. First(s.pending, k) \o After(s.pending, k) = s.pending
  BY <1>1, FirstThenAfter
<1>6. disk \o First(s.pending, k) \in Seq(Bytes)
  BY <1>2, ConcatProperties
<1> QED
  BY <1>2, <1>3, <1>4, <1>5, <1>6 DEF SpilledDisk

LEMMA FwriteExact ==
  ASSUME disk \in Seq(Bytes), NEW s \in StreamObjects, NEW bytes \in Seq(Bytes),
         NEW r \in Fwrite(s, bytes)
  PROVE  /\ r.disk \o r.stream.pending = (disk \o s.pending) \o First(bytes, r.count)
         /\ r.count \in 0 .. Len(bytes)
<1> DEFINE Pending(count) == s.pending \o First(bytes, count)
           cut(count) == s.failed \/ count < Len(bytes)
           Taken(count) == Stream(s.mode, s.position, Pending(count), cut(count))
<1>1. PICK count \in 0 .. Len(bytes) :
        \E k \in 0 .. Len(s.pending) + count :
          r = [count |-> count, disk |-> SpilledDisk(Taken(count), k),
               stream |-> SpilledStream(Taken(count), k)]
  BY DEF Fwrite
<1>2. PICK k \in Nat :
        /\ k <= Len(s.pending) + count
        /\ r = [count |-> count, disk |-> SpilledDisk(Taken(count), k),
                stream |-> SpilledStream(Taken(count), k)]
  BY <1>1
<1>3. /\ s.position \in Nat /\ s.failed \in BOOLEAN /\ s.pending \in Seq(Bytes)
      /\ s.mode \in {"closed", "read", "write"}
  BY DEF StreamObjects
<1>4. First(bytes, count) \in Seq(Bytes) /\ Len(First(bytes, count)) = count
  BY FirstFacts
<1>5. Pending(count) \in Seq(Bytes) /\ Len(Pending(count)) = Len(s.pending) + count
  BY <1>3, <1>4, AppendFacts
<1>6. cut(count) \in BOOLEAN
  OBVIOUS
<1> HIDE DEF cut
<1>7. /\ Taken(count) \in StreamObjects
      /\ Taken(count).pending = s.pending \o First(bytes, count)
  <2> HIDE DEF Pending
  <2>1. Taken(count) \in StreamObjects /\ Taken(count).pending = Pending(count)
    BY <1>3, <1>5, <1>6, StreamFacts
  <2> QED
    BY <2>1 DEF Pending
<1> HIDE DEF Taken
<1>8. k \in 0 .. Len(Taken(count).pending)
  BY <1>2, <1>5, <1>7
<1>9. SpilledDisk(Taken(count), k) \o SpilledStream(Taken(count), k).pending
        = disk \o (s.pending \o First(bytes, count))
  BY <1>7, <1>8, SpillKeeps
<1>10. (disk \o s.pending) \o First(bytes, count) = disk \o (s.pending \o First(bytes, count))
  <2>1. ASSUME NEW p \in Seq(Bytes), NEW x \in Seq(Bytes)
        PROVE  (disk \o p) \o x = disk \o (p \o x)
    BY ConcatAssociative
  <2> QED
    BY <1>3, <1>4, <2>1
<1>11. /\ r.count = count /\ r.disk = SpilledDisk(Taken(count), k)
       /\ r.stream = SpilledStream(Taken(count), k)
  BY <1>2
<1>12. r.disk \o r.stream.pending = (disk \o s.pending) \o First(bytes, r.count)
  <2>1. r.disk \o r.stream.pending = disk \o (s.pending \o First(bytes, count))
    BY <1>9, <1>11
  <2> QED
    BY <1>10, <1>11, <2>1
<1>13. r.count \in 0 .. Len(bytes)
  BY <1>1, <1>11
<1> QED
  BY <1>12, <1>13

(* A flush puts out everything, or a beginning of it. *)
LEMMA FflushExact ==
  ASSUME disk \in Seq(Bytes), NEW s \in StreamObjects, NEW r \in Fflush(s)
  PROVE  /\ r.ok => r.disk = disk \o s.pending /\ r.stream.pending = <<>>
         /\ r.disk \in Seq(Bytes) /\ r.stream.pending \in Seq(Bytes)
         /\ \A text \in Seq(Bytes) : Begins(disk \o s.pending, text) =>
              Begins(r.disk \o r.stream.pending, text)
         /\ s.pending = <<>> => r.disk = disk /\ r.stream.pending = <<>>
<1>1. s.pending \in Seq(Bytes) /\ [s EXCEPT !.pending = <<>>].pending = <<>>
      /\ <<>> \in Seq(Bytes) /\ disk \o s.pending \in Seq(Bytes)
  BY EmptySeq, ConcatProperties DEF StreamObjects
<1>2. CASE r = [ok |-> TRUE, disk |-> disk \o s.pending, stream |-> [s EXCEPT !.pending = <<>>]]
  <2>1. (disk \o s.pending) \o <<>> = disk \o s.pending /\ disk \o <<>> = disk
    BY <1>1, ConcatEmptySeq
  <2> QED
    BY <1>1, <1>2, <2>1
<1>3. ASSUME NEW k \in 0 .. Len(s.pending), r.disk = SpilledDisk(s, k), ~r.ok,
             r.stream = SpilledStream(s, k) \/ r.stream = [s EXCEPT !.pending = <<>>]
      PROVE  /\ r.disk \in Seq(Bytes) /\ r.stream.pending \in Seq(Bytes)
             /\ \A text \in Seq(Bytes) : Begins(disk \o s.pending, text) =>
                  Begins(r.disk \o r.stream.pending, text)
             /\ s.pending = <<>> => r.disk = disk /\ r.stream.pending = <<>>
  <2>1. /\ SpilledDisk(s, k) \in Seq(Bytes) /\ SpilledStream(s, k).pending \in Seq(Bytes)
        /\ SpilledDisk(s, k) \o SpilledStream(s, k).pending = disk \o s.pending
    BY SpillKeeps
  <2>2. r.disk \in Seq(Bytes) /\ r.stream.pending \in Seq(Bytes)
    BY <1>1, <1>3, <2>1
  <2>3. ASSUME NEW text \in Seq(Bytes), Begins(disk \o s.pending, text)
        PROVE  Begins(r.disk \o r.stream.pending, text)
    <3>1. CASE r.stream = SpilledStream(s, k)
      BY <1>3, <2>1, <2>3, <3>1
    <3>2. CASE r.stream.pending = <<>>
      <4>1. Begins(SpilledDisk(s, k), text)
        BY <2>1, <2>3, BeginsConcat
      <4>2. SpilledDisk(s, k) \o <<>> = SpilledDisk(s, k)
        BY <2>1, ConcatEmptySeq
      <4> QED
        BY <1>3, <3>2, <4>1, <4>2
    <3> QED
      BY <1>1, <1>3, <3>1, <3>2
  <2>4. ASSUME s.pending = <<>>
        PROVE  r.disk = disk /\ r.stream.pending = <<>>
    <3>1. k = 0
      BY <2>4, EmptySeq
    <3>2. First(<<>>, 0) = <<>> /\ After(<<>>, 0) = <<>>
      BY SubSeqEmpty, EmptySeq DEF First, After
    <3>3. SpilledDisk(s, k) = disk \o <<>> /\ SpilledStream(s, k).pending = <<>>
      BY <2>4, <3>1, <3>2 DEF SpilledDisk, SpilledStream, StreamObjects
    <3>4. disk \o <<>> = disk
      BY ConcatEmptySeq
    <3> QED
      BY <1>1, <1>3, <3>3, <3>4
  <2> QED
    BY <2>2, <2>3, <2>4
<1>4. CASE \E k \in 0 .. Len(s.pending) :
             \/ r = [ok |-> FALSE, disk |-> SpilledDisk(s, k), stream |-> SpilledStream(s, k)]
             \/ r = [ok |-> FALSE, disk |-> SpilledDisk(s, k),
                     stream |-> [s EXCEPT !.pending = <<>>]]
  <2>1. PICK k \in 0 .. Len(s.pending) :
          \/ r = [ok |-> FALSE, disk |-> SpilledDisk(s, k), stream |-> SpilledStream(s, k)]
          \/ r = [ok |-> FALSE, disk |-> SpilledDisk(s, k),
                  stream |-> [s EXCEPT !.pending = <<>>]]
    BY <1>4
  <2>2. /\ r.disk = SpilledDisk(s, k) /\ r.ok = FALSE
        /\ r.stream = SpilledStream(s, k) \/ r.stream = [s EXCEPT !.pending = <<>>]
    BY <2>1
  <2> QED
    BY <1>3, <2>2
<1> QED
  BY <1>2, <1>4 DEF Fflush

Quiet(ss) == \A t \in Streams : ss[t].mode # "write" => ss[t].pending = <<>>

LEMMA ReadSomeExact ==
  ASSUME TypeOK, ReadersBufferNothing, NEW f \in Everyone, NEW n \in Nat \ {0},
         NEW r \in ReadSome(f, n)
  PROVE  /\ Quiet(r.streams)
         /\ ~IsOpen(f) \/ ~files[f].readable => r.status = "state"
         /\ IsOpen(f) /\ files[f].readable =>
              LET s == streams[files[f].handle]
              IN /\ r.streams[files[f].handle].position = s.position + r.count
                 /\ r.count > 0 => s.position + r.count <= Len(disk)
                 /\ \A i \in 1 .. r.count : r.bytes[i] = disk[s.position + i]
                 /\ r.status = "ok" /\ r.count = 0 => s.position >= Len(disk)
<1>1. CASE ~IsOpen(f) \/ ~files[f].readable
  <2>1. r = [status |-> "state", count |-> 0, bytes |-> <<>>, streams |-> streams]
    BY <1>1 DEF ReadSome
  <2> QED
    BY <1>1, <2>1 DEF Quiet, ReadersBufferNothing
<1>2. CASE IsOpen(f) /\ files[f].readable
  <2> DEFINE h == files[f].handle
  <2>1. PICK q \in Fread(streams[h], n) :
          r = [status  |-> IF q.count = 0 /\ q.stream.failed THEN "io" ELSE "ok",
               count   |-> q.count, bytes |-> q.bytes,
               streams |-> [streams EXCEPT ![h] = q.stream]]
    BY <1>2 DEF ReadSome
  <2>2. h \in Streams /\ streams[h] \in StreamObjects
    BY <1>2, HandleFacts
  <2>3. disk \in Seq(Bytes) /\ streams \in [Streams -> StreamObjects]
    BY DEF TypeOK, StreamObjects
  <2> HIDE DEF h
  <2>4. /\ q.stream.mode = streams[h].mode /\ q.stream.pending = streams[h].pending
        /\ q.stream.position = streams[h].position + q.count
        /\ q.count > 0 => streams[h].position + q.count <= Len(disk)
        /\ \A i \in 1 .. q.count : q.bytes[i] = disk[streams[h].position + i]
        /\ q.count = 0 /\ ~q.stream.failed => streams[h].position >= Len(disk)
    BY <2>2, <2>3, FreadFacts, FreadExact
  <2>5. /\ r.count = q.count /\ r.bytes = q.bytes /\ r.streams[h] = q.stream
        /\ \A t \in Streams : t # h => r.streams[t] = streams[t]
        /\ r.status = "ok" /\ r.count = 0 => q.count = 0 /\ ~q.stream.failed
    BY <2>1, <2>2, <2>3
  <2>6. Quiet(r.streams)
    BY <2>2, <2>4, <2>5 DEF Quiet, ReadersBufferNothing
  <2> QED
    BY <1>2, <2>4, <2>5, <2>6 DEF h
<1> QED
  BY <1>1, <1>2

LEMMA WriteSomeExact ==
  ASSUME TypeOK, StreamsAreClosedOnce, ReadersBufferNothing, NEW f \in Everyone,
         NEW bytes \in Seq(Bytes), NEW r \in WriteSome(f, bytes)
  PROVE  /\ Quiet(r.streams)
         /\ bytes # <<>> /\ ~(IsOpen(f) /\ files[f].writable) => r.status = "state"
         /\ bytes # <<>> /\ IsOpen(f) /\ files[f].writable =>
              /\ r.disk \o r.streams[files[f].handle].pending = Content(f) \o First(bytes, r.count)
              /\ r.status = "ok" \/ r.count = 0
              /\ r.status # "state"
<1>1. CASE r \in {[status |-> x, count |-> 0, streams |-> streams, disk |-> disk] : x \in {"ok"}}
           /\ bytes = <<>>
  BY <1>1 DEF Quiet, ReadersBufferNothing
<1>2. CASE bytes # <<>> /\ ~(IsOpen(f) /\ files[f].writable)
  <2>1. r = [status |-> "state", count |-> 0, streams |-> streams, disk |-> disk]
    BY <1>2 DEF WriteSome
  <2> QED
    BY <1>2, <2>1 DEF Quiet, ReadersBufferNothing
<1>3. CASE bytes # <<>> /\ IsOpen(f) /\ files[f].writable
  <2> DEFINE h == files[f].handle
  <2>1. PICK q \in Fwrite(streams[h], bytes) :
          r = [status  |-> IF q.count = 0 THEN "io" ELSE "ok", count |-> q.count,
               streams |-> [streams EXCEPT ![h] = q.stream], disk |-> q.disk]
    BY <1>3 DEF WriteSome
  <2>2. h \in Streams /\ streams[h] \in StreamObjects
    BY <1>3, HandleFacts
  <2>3. disk \in Seq(Bytes) /\ streams \in [Streams -> StreamObjects]
    BY DEF TypeOK, StreamObjects
  <2>4. streams[h].mode = "write"
    BY <1>3 DEF StreamsAreClosedOnce, Everyone
  <2> HIDE DEF h
  <2>5. /\ q.stream.mode = streams[h].mode
        /\ q.disk \o q.stream.pending = (disk \o streams[h].pending) \o First(bytes, q.count)
    BY <2>2, <2>3, FwriteFacts, FwriteExact
  <2>6. /\ r.count = q.count /\ r.disk = q.disk /\ r.streams[h] = q.stream
        /\ \A t \in Streams : t # h => r.streams[t] = streams[t]
        /\ r.status = "ok" \/ r.count = 0
        /\ r.status # "state"
    BY <2>1, <2>2, <2>3
  <2>7. Quiet(r.streams)
    BY <2>2, <2>4, <2>5, <2>6 DEF Quiet, ReadersBufferNothing
  <2>8. r.disk \o r.streams[h].pending = (disk \o streams[h].pending) \o First(bytes, r.count)
    BY <2>5, <2>6
  <2> QED
    BY <1>3, <2>6, <2>7, <2>8 DEF h, Content
<1> QED
  BY <1>1, <1>2, <1>3 DEF WriteSome

LEMMA FlushExact ==
  ASSUME TypeOK, StreamsAreClosedOnce, ReadersBufferNothing, NEW f \in Everyone,
         NEW r \in Flush(f)
  PROVE  /\ Quiet(r.streams)
         /\ IsOpen(f) /\ files[f].writable =>
              /\ r.status = "ok" =>
                   r.disk = Content(f) /\ r.streams[files[f].handle].pending = <<>>
              /\ \A text \in Seq(Bytes) : Begins(Content(f), text) =>
                   Begins(r.disk \o r.streams[files[f].handle].pending, text)
<1>1. CASE ~(IsOpen(f) /\ files[f].writable)
  <2>1. r = [status |-> "state", streams |-> streams, disk |-> disk]
    BY <1>1 DEF Flush
  <2> QED
    BY <1>1, <2>1 DEF Quiet, ReadersBufferNothing
<1>2. CASE IsOpen(f) /\ files[f].writable
  <2> DEFINE h == files[f].handle
  <2>1. PICK q \in Fflush(streams[h]) :
          r = [status  |-> IF q.ok THEN "ok" ELSE "io",
               streams |-> [streams EXCEPT ![h] = q.stream], disk |-> q.disk]
    BY <1>2 DEF Flush
  <2>2. h \in Streams /\ streams[h] \in StreamObjects
    BY <1>2, HandleFacts
  <2>3. disk \in Seq(Bytes) /\ streams \in [Streams -> StreamObjects]
    BY DEF TypeOK, StreamObjects
  <2>4. streams[h].mode = "write"
    BY <1>2 DEF StreamsAreClosedOnce, Everyone
  <2> HIDE DEF h
  <2>5. /\ q.ok => q.disk = disk \o streams[h].pending /\ q.stream.pending = <<>>
        /\ q.stream.mode = streams[h].mode
        /\ \A text \in Seq(Bytes) : Begins(disk \o streams[h].pending, text) =>
             Begins(q.disk \o q.stream.pending, text)
    BY <2>2, <2>3, FflushFacts, FflushExact
  <2>6. /\ r.disk = q.disk /\ r.streams[h] = q.stream
        /\ \A t \in Streams : t # h => r.streams[t] = streams[t]
        /\ r.status = "ok" => q.ok
    BY <2>1, <2>2, <2>3
  <2>7. Quiet(r.streams)
    BY <2>2, <2>4, <2>5, <2>6 DEF Quiet, ReadersBufferNothing
  <2> QED
    BY <1>2, <2>5, <2>6, <2>7 DEF h, Content
<1> QED
  BY <1>1, <1>2

LEMMA CloseExact ==
  ASSUME TypeOK, ReadersBufferNothing, NEW f \in Everyone, NEW r \in Close(f)
  PROVE  /\ Quiet(r.streams)
         /\ ~IsOpen(f) => r.disk = disk
         /\ IsOpen(f) =>
              /\ r.status = "ok" => r.disk = Content(f)
              /\ streams[files[f].handle].pending = <<>> => r.disk = disk
              /\ \A text \in Seq(Bytes) : Begins(Content(f), text) => Begins(r.disk, text)
<1>1. CASE ~IsOpen(f)
  <2>1. r = [status |-> "ok", streams |-> streams, disk |-> disk, files |-> files]
    BY <1>1 DEF Close
  <2> QED
    BY <1>1, <2>1 DEF Quiet, ReadersBufferNothing
<1>2. CASE IsOpen(f)
  <2> DEFINE h == files[f].handle
  <2>1. PICK q \in Fclose(streams[h]) :
          r = [status  |-> IF q.ok THEN "ok" ELSE "io",
               streams |-> [streams EXCEPT ![h] = q.stream], disk |-> q.disk,
               files   |-> [files EXCEPT ![f] = Closed]]
    BY <1>2 DEF Close
  <2>2. PICK p \in Fflush(streams[h]) : q = [ok |-> p.ok, disk |-> p.disk, stream |-> Free]
    BY <2>1 DEF Fclose
  <2>3. h \in Streams /\ streams[h] \in StreamObjects
    BY <1>2, HandleFacts
  <2>4. disk \in Seq(Bytes) /\ streams \in [Streams -> StreamObjects]
    BY DEF TypeOK, StreamObjects
  <2> HIDE DEF h
  <2>5. /\ p.ok => p.disk = disk \o streams[h].pending
        /\ p.disk \in Seq(Bytes) /\ p.stream.pending \in Seq(Bytes)
        /\ \A text \in Seq(Bytes) : Begins(disk \o streams[h].pending, text) =>
             Begins(p.disk \o p.stream.pending, text)
        /\ streams[h].pending = <<>> => p.disk = disk
    BY <2>3, <2>4, FflushExact
  <2>6. /\ r.disk = p.disk /\ r.streams[h] = Free
        /\ \A t \in Streams : t # h => r.streams[t] = streams[t]
        /\ r.status = "ok" => p.ok
    BY <2>1, <2>2, <2>3, <2>4
  <2>7. Quiet(r.streams)
    BY <2>3, <2>6 DEF Quiet, ReadersBufferNothing, Free, Stream
  <2>8. \A text \in Seq(Bytes) : Begins(disk \o streams[h].pending, text) => Begins(r.disk, text)
    BY <2>5, <2>6, BeginsConcat
  <2> QED
    BY <1>2, <2>5, <2>6, <2>7, <2>8 DEF h, Content
<1> QED
  BY <1>1, <1>2

LEMMA OpenExact ==
  ASSUME TypeOK, ReadersBufferNothing, NEW f \in Everyone, NEW mode \in {"read", "write"},
         Open(f, mode)
  PROVE  /\ Quiet(streams')
         /\ IsOpen(f)' /\ files'[f].readable = (mode = "read")
         /\ files'[f].writable = (mode = "write")
         /\ disk' = IF mode = "write" THEN <<>> ELSE disk
         /\ streams'[files'[f].handle].pending = <<>>
         /\ streams'[files'[f].handle].position = 0
<1>1. PICK s \in Streams :
        /\ streams[s] = Free
        /\ streams' = [streams EXCEPT ![s].mode = mode]
        /\ files' = [files EXCEPT ![f] =
                       [handle |-> s, readable |-> mode = "read", writable |-> mode = "write"]]
        /\ disk' = IF mode = "write" THEN <<>> ELSE disk
  BY DEF Open
<1>2. streams \in [Streams -> StreamObjects] /\ files \in [Everyone -> FileObjects]
  BY DEF TypeOK, StreamObjects, FileObjects, Everyone
<1>3. files'[f].handle = s /\ files'[f].readable = (mode = "read")
      /\ files'[f].writable = (mode = "write")
  BY <1>1, <1>2
<1>4. s # None
  BY NameAssumption
<1>5. /\ streams'[s].pending = <<>> /\ streams'[s].position = 0
      /\ \A t \in Streams : t # s => streams'[t] = streams[t]
  BY <1>1, <1>2 DEF Free, Stream, StreamObjects
<1>6. Quiet(streams')
  BY <1>5 DEF Quiet, ReadersBufferNothing
<1> QED
  BY <1>1, <1>3, <1>4, <1>5, <1>6 DEF IsOpen

LEMMA InitSoFar == Init => SoFar
BY IdleFacts DEF Init, Free, Stream, SoFar, ReadersBufferNothing, ReadExactSoFar,
   WriteAllSoFar, ReadTextSoFar, WriteTextSoFar

(* Between calls nothing is under way. *)
LEMMA NoCallSoFar ==
  ASSUME Quiet(streams'), call'.op = "none"
  PROVE  SoFar'
BY DEF Quiet, SoFar, ReadersBufferNothing, ReadExactSoFar, WriteAllSoFar, ReadTextSoFar,
   WriteTextSoFar

LEMMA CallerSoFar ==
  ASSUME IInv, SoFar, NEW f \in Files,
         \/ OpenRead(f) \/ OpenWrite(f) \/ FlushFile(f) \/ CloseFile(f)
         \/ \E n \in Limits : ReadOnce(f, n)
         \/ \E text \in Texts : WriteOnce(f, text)
         \/ \E g \in Files : MoveFile(f, g)
  PROVE  SoFar'
<1>1. call'.op = "none"
  BY IdleFacts DEF OpenRead, OpenWrite, FlushFile, CloseFile, ReadOnce, WriteOnce, MoveFile
<1>2. TypeOK /\ StreamsAreClosedOnce /\ f \in Everyone /\ ReadersBufferNothing
  BY DEF IInv, Everyone, SoFar
<1>3. CASE OpenRead(f) \/ OpenWrite(f)
  BY <1>1, <1>2, <1>3, OpenExact, NoCallSoFar DEF OpenRead, OpenWrite
<1>4. CASE FlushFile(f)
  BY <1>1, <1>2, <1>4, FlushExact, NoCallSoFar DEF FlushFile
<1>5. CASE CloseFile(f)
  BY <1>1, <1>2, <1>5, CloseExact, NoCallSoFar DEF CloseFile
<1>6. ASSUME NEW n \in Limits, ReadOnce(f, n) PROVE SoFar'
  <2>1. PICK r \in ReadSome(f, n) : streams' = r.streams
    BY <1>6 DEF ReadOnce
  <2>2. n \in Nat
    BY ValueAssumption
  <2>3. CASE n = 0
    <3>1. r.streams = streams
      BY <2>1, <2>3 DEF ReadSome
    <3> QED
      BY <1>1, <1>2, <2>1, <3>1, NoCallSoFar DEF Quiet, ReadersBufferNothing
  <2>4. CASE n # 0
    BY <1>1, <1>2, <2>1, <2>2, <2>4, ReadSomeExact, NoCallSoFar
  <2> QED
    BY <2>3, <2>4
<1>7. ASSUME NEW text \in Texts, WriteOnce(f, text) PROVE SoFar'
  BY <1>1, <1>2, <1>7, ValueAssumption, WriteSomeExact, NoCallSoFar DEF WriteOnce
<1>8. ASSUME NEW g \in Files, MoveFile(f, g) PROVE SoFar'
  BY <1>1, <1>2, <1>8, NoCallSoFar DEF MoveFile, Quiet, ReadersBufferNothing
<1> QED
  BY <1>3, <1>4, <1>5, <1>6, <1>7, <1>8

LEMMA BeginSoFar ==
  ASSUME IInv, SoFar,
         \/ \E peer \in Files \cup {Custom}, text \in Texts :
              BeginWriteAll(peer, text) \/ \E n \in Limits : BeginReadExact(peer, n, text)
         \/ \E limit \in Limits : BeginReadTextFile(limit)
         \/ \E text \in Texts : BeginWriteTextFile(text)
         \/ \E f, g \in Files : MoveOverOpen(f, g)
         \/ Resume
  PROVE  SoFar'
<1>1. UNCHANGED <<disk, streams, files>>
  BY DEF BeginWriteAll, BeginReadExact, BeginReadTextFile, BeginWriteTextFile, MoveOverOpen, Resume
<1>2. Quiet(streams') /\ ReadersBufferNothing'
  BY <1>1 DEF SoFar, Quiet, ReadersBufferNothing
<1>3. ~IsOpen(Local)
  <2>1. call = Idle \/ call.phase = "returned"
    BY DEF BeginWriteAll, BeginReadExact, BeginReadTextFile, BeginWriteTextFile, MoveOverOpen, Resume
  <2>2. ~Request
    BY <2>1, IdleFacts DEF Request
  <2> QED
    BY <2>2 DEF IInv, StreamsAreClosedOnce
<1>4. Idle \in Calls
  BY IdleFacts
<1>5. TypeOK /\ disk \in Seq(Bytes)
  BY DEF IInv, TypeOK
<1>6. ASSUME NEW peer \in Files \cup {Custom}, NEW text \in Texts, BeginWriteAll(peer, text)
      PROVE  SoFar'
  <2> DEFINE start == IF peer = Custom THEN 0 ELSE Written(peer)
  <2>1. call' = [Idle EXCEPT !.op = "writeAll", !.phase = "transfer", !.peer = peer, !.text = text,
                             !.start = start]
    BY <1>6 DEF BeginWriteAll
  <2>2. /\ call'.op = "writeAll" /\ call'.phase = "transfer" /\ call'.peer = peer
        /\ call'.text = text /\ call'.start = start /\ call'.done = 0 /\ call'.memory = <<>>
    <3> HIDE DEF start
    <3> QED
      BY <2>1, IdleFacts DEF Idle
  <2>3. ASSUME peer # Custom, IsOpen(peer)
        PROVE  Agrees(Content(peer), start, text, 0)
    <3>1. streams[files[peer].handle] \in StreamObjects
      BY <1>5, <2>3, HandleFacts DEF Everyone
    <3>2. streams[files[peer].handle].pending \in Seq(Bytes)
      BY <3>1 DEF StreamObjects
    <3>3. Len(Content(peer)) = Len(disk) + Len(streams[files[peer].handle].pending)
      BY <1>5, <3>2, AppendFacts DEF Content
    <3>4. Len(disk) \in Nat /\ Len(streams[files[peer].handle].pending) \in Nat
      BY <1>5, <3>2, LenProperties
    <3> QED
      BY <2>3, <3>3, <3>4 DEF Agrees, Written
  <2>4. Agrees(<<>>, 0, text, 0)
    BY EmptySeq DEF Agrees
  <2> HIDE DEF start
  <2>5. WriteAllSoFar'
    BY <1>1, <2>2, <2>3, <2>4 DEF WriteAllSoFar, IsOpen, Content
  <2> QED
    BY <1>2, <2>2, <2>5 DEF SoFar, ReadExactSoFar, ReadTextSoFar, WriteTextSoFar
<1>7. ASSUME NEW peer \in Files \cup {Custom}, NEW text \in Texts, NEW n \in Limits,
             BeginReadExact(peer, n, text)
      PROVE  SoFar'
  <2> DEFINE start == IF peer # Custom /\ IsOpen(peer)
                      THEN streams[files[peer].handle].position ELSE 0
             memory == [i \in 1 .. n |-> Unset]
  <2>1. call' = [Idle EXCEPT !.op = "readExact", !.phase = "transfer", !.peer = peer,
                             !.text = text, !.start = start, !.memory = memory]
    BY <1>7 DEF BeginReadExact
  <2>2. /\ call'.op = "readExact" /\ call'.phase = "transfer" /\ call'.peer = peer
        /\ call'.start = start /\ call'.done = 0
    <3> HIDE DEF start, memory
    <3> QED
      BY <2>1, IdleFacts DEF Idle
  <2>3. peer # Custom /\ IsOpen(peer) =>
          streams[files[peer].handle].position \in Nat
    BY <1>5, HandleFacts DEF Everyone, StreamObjects
  <2>4. ReadExactSoFar'
    BY <1>1, <2>2, <2>3 DEF ReadExactSoFar, IsOpen
  <2> QED
    BY <1>2, <2>2, <2>4 DEF SoFar, WriteAllSoFar, ReadTextSoFar, WriteTextSoFar
<1>8. ASSUME NEW limit \in Limits, BeginReadTextFile(limit)
      PROVE  SoFar'
  <2>1. call'.op = "readText" /\ call'.phase = "open" /\ call'.memory = <<>>
    BY <1>8, IdleFacts DEF BeginReadTextFile, Idle
  <2> QED
    BY <1>1, <1>2, <1>3, <2>1
    DEF SoFar, ReadExactSoFar, WriteAllSoFar, ReadTextSoFar, WriteTextSoFar, IsOpen
<1>9. ASSUME NEW text \in Texts, BeginWriteTextFile(text)
      PROVE  SoFar'
  <2>1. /\ call'.op = "writeText" /\ call'.phase = "open" /\ call'.memory = <<>>
        /\ call'.done = 0 /\ call'.start = 0
    BY <1>9, IdleFacts DEF BeginWriteTextFile, Idle
  <2> QED
    BY <1>1, <1>2, <1>3, <2>1
    DEF SoFar, ReadExactSoFar, WriteAllSoFar, ReadTextSoFar, WriteTextSoFar, IsOpen
<1>10. ASSUME call' = Idle \/ call' = [Idle EXCEPT !.phase = "terminated"]
       PROVE  SoFar'
  BY <1>2, <1>10, IdleFacts, NoCallSoFar DEF Idle
<1> QED
  BY <1>6, <1>7, <1>8, <1>9, <1>10 DEF MoveOverOpen, Resume

(* How a call goes on when it only changes where it stands. *)
LEMMA PhaseFacts ==
  ASSUME call \in Calls, NEW x \in Statuses, NEW p \in {"transfer", "flush", "close"}
  PROVE  /\ Leave(x) => Kept /\ call'.start = call.start
                        /\ call'.phase = "returned" /\ call'.status = x
         /\ LeaveHelper(x) => Kept /\ call'.start = call.start
                              /\ call'.phase = "destroy" /\ call'.status = x
         /\ call' = [call EXCEPT !.phase = p] =>
              Kept /\ call'.start = call.start /\ call'.phase = p /\ call'.status = call.status
BY DEF Leave, LeaveHelper, Calls, Kept

(* Of the parts of SoFar only the one about the call at hand has to be shown. *)
LEMMA OnePart ==
  ASSUME Quiet(streams'),
         call'.op = "readExact" => ReadExactSoFar',
         call'.op \in {"writeAll", "writeText"} => WriteAllSoFar',
         call'.op = "readText" => ReadTextSoFar',
         call'.op = "writeText" => WriteTextSoFar'
  PROVE  SoFar'
BY DEF Quiet, SoFar, ReadersBufferNothing, ReadExactSoFar, WriteAllSoFar, ReadTextSoFar,
   WriteTextSoFar

(* What a source has given when a request made progress. *)
LEMMA SourceGives ==
  ASSUME IInv, SoFar, call.op = "readExact", call.phase = "transfer",
         NEW want \in Nat \ {0}, want = Len(call.memory) - call.done,
         NEW r, r \in IF call.peer = Custom THEN CustomRead(want) ELSE ReadSome(call.peer, want)
  PROVE  /\ Quiet(r.streams)
         /\ r.status \in Statuses
         /\ Progress(r, want) =>
              LET source == IF call.peer = Custom THEN call.text ELSE disk
              IN /\ r.count \in 1 .. want /\ Len(r.bytes) = r.count
                 /\ \A i \in 1 .. r.count :
                      /\ call.start + call.done + i <= Len(source)
                      /\ r.bytes[i] = source[call.start + call.done + i]
                 /\ call.peer # Custom /\ IsOpen(call.peer) =>
                      r.streams[files[call.peer].handle].position
                        = call.start + call.done + r.count
<1>1. TypeOK /\ call \in Calls /\ ReadersBufferNothing /\ ReadExactSoFar
  BY TypeFacts DEF IInv, SoFar
<1>2. call.text \in Seq(Bytes) /\ call.done \in Nat /\ call.start \in Nat
      /\ Len(call.text) \in Nat /\ disk \in Seq(Bytes) /\ Len(disk) \in Nat
  BY <1>1, LenProperties, TypeFacts DEF Calls
<1>3. CASE call.peer = Custom
  <2>1. call.start = 0
    BY <1>1, <1>3 DEF ReadExactSoFar
  <2>2. Quiet(streams)
    BY <1>1 DEF Quiet, ReadersBufferNothing
  <2>3. CASE \/ r = [status |-> "io", count |-> 0, bytes |-> <<>>, streams |-> streams]
             \/ r = [status |-> "ok", count |-> want + 1, bytes |-> <<>>, streams |-> streams]
    BY <2>2, <2>3 DEF Progress, NoProgress, Overclaims, Statuses
  <2>4. CASE \E n \in 0 .. Smaller(want, Len(call.text) - call.done) :
               r = [status |-> "ok", count |-> n, streams |-> streams,
                    bytes |-> SubSeq(call.text, call.done + 1, call.done + n)]
    <3>1. PICK n \in 0 .. Smaller(want, Len(call.text) - call.done) :
            r = [status |-> "ok", count |-> n, streams |-> streams,
                 bytes |-> SubSeq(call.text, call.done + 1, call.done + n)]
      BY <2>4
    <3>2. n \in Nat /\ n <= want /\ n <= Len(call.text) - call.done
      BY <1>2 DEF Smaller
    <3>3. /\ r.status = "ok" /\ r.count = n /\ r.streams = streams
          /\ r.bytes = SubSeq(call.text, call.done + 1, call.done + n)
      BY <3>1
    <3>4. call.done + n <= Len(call.text)
      BY <1>2, <3>2
    <3>5. Len(r.bytes) = n /\ \A i \in 1 .. n : r.bytes[i] = call.text[call.done + i]
      <4>1. PICK text \in Seq(Bytes), k \in Nat : text = call.text /\ k = call.done
        BY <1>2
      <4>2. k + n <= Len(text)
        BY <3>4, <4>1
      <4>3. /\ Len(SubSeq(text, k + 1, k + n)) = n
            /\ \A i \in 1 .. n : SubSeq(text, k + 1, k + n)[i] = text[k + i]
        BY <3>2, <4>2, MiddleElements
      <4> QED
        BY <3>3, <4>1, <4>3
    <3>6. ASSUME NEW i \in 1 .. n
          PROVE  call.start + call.done + i = call.done + i
      BY <1>2, <2>1, <3>2
    <3>7. ASSUME NEW i \in 1 .. n
          PROVE  call.done + i <= Len(call.text)
      BY <1>2, <3>2, <3>4
    <3>8. ASSUME NEW i \in 1 .. n
          PROVE  /\ call.start + call.done + i <= Len(call.text)
                 /\ r.bytes[i] = call.text[call.start + call.done + i]
      BY <3>5, <3>6, <3>7
    <3>9. Progress(r, want) => n # 0
      BY <3>3 DEF Progress, NoProgress
    <3>10. r.status \in Statuses /\ Quiet(r.streams)
      BY <2>2, <3>3 DEF Statuses
    <3>11. ASSUME Progress(r, want)
           PROVE  /\ r.count \in 1 .. want
                  /\ \A i \in 1 .. r.count :
                       /\ call.start + call.done + i <= Len(call.text)
                       /\ r.bytes[i] = call.text[call.start + call.done + i]
      <4>1. n \in 1 .. want /\ r.count = n
        BY <3>2, <3>3, <3>9, <3>11
      <4> QED
        BY <3>8, <4>1
    <3> QED
      BY <1>3, <3>3, <3>5, <3>10, <3>11
  <2> QED
    BY <1>3, <2>3, <2>4 DEF CustomRead
<1>4. CASE call.peer # Custom
  <2> DEFINE s == streams[files[call.peer].handle]
  <2>1. call.peer \in Everyone /\ r \in ReadSome(call.peer, want)
    BY <1>4 DEF IInv, Inside, Everyone
  <2>2. /\ Quiet(r.streams)
        /\ r.status \in {"ok", "io", "state"}
        /\ r.count \in Nat /\ Len(r.bytes) = r.count
        /\ ~IsOpen(call.peer) \/ ~files[call.peer].readable => r.status = "state"
        /\ IsOpen(call.peer) /\ files[call.peer].readable =>
             /\ r.streams[files[call.peer].handle].position = s.position + r.count
             /\ r.count > 0 => s.position + r.count <= Len(disk)
             /\ \A i \in 1 .. r.count : r.bytes[i] = disk[s.position + i]
    BY <1>1, <2>1, ReadSomeExact, ReadSomeFacts
  <2>3. SUFFICES ASSUME Progress(r, want)
                 PROVE  /\ r.count \in 1 .. want
                        /\ \A i \in 1 .. r.count :
                             /\ call.start + call.done + i <= Len(disk)
                             /\ r.bytes[i] = disk[call.start + call.done + i]
                        /\ IsOpen(call.peer) =>
                             r.streams[files[call.peer].handle].position
                               = call.start + call.done + r.count
    BY <1>4, <2>2 DEF Statuses
  <2>4. r.count \in 1 .. want /\ IsOpen(call.peer) /\ files[call.peer].readable
    BY <2>2, <2>3 DEF Progress, NoProgress, Overclaims
  <2>5. s.position = call.start + call.done
    BY <1>1, <1>4, <2>4 DEF ReadExactSoFar
  <2> HIDE DEF s
  <2>6. /\ call.start + call.done + r.count <= Len(disk)
        /\ \A i \in 1 .. r.count : r.bytes[i] = disk[call.start + call.done + i]
        /\ r.streams[files[call.peer].handle].position = call.start + call.done + r.count
    BY <2>2, <2>4, <2>5
  <2>7. \A i \in 1 .. r.count : call.start + call.done + i <= Len(disk)
    BY <1>2, <2>4, <2>6
  <2> QED
    BY <2>4, <2>6, <2>7
<1> QED
  BY <1>3, <1>4

LEMMA ReadExactKeeps ==
  ASSUME IInv, SoFar, ReadExact
  PROVE  SoFar'
<1> DEFINE want == Len(call.memory) - call.done
           source == IF call.peer = Custom THEN call.text ELSE disk
<1>1. /\ call.op = "readExact" /\ call.phase = "transfer" /\ UNCHANGED <<disk, files>>
  BY DEF ReadExact
<1>2. TypeOK /\ call \in Calls /\ ReadExactSoFar /\ ReadersBufferNothing
  BY TypeFacts DEF IInv, SoFar
<1>3. /\ call.memory \in Seq(Bytes \cup {Unset}) /\ call.done \in Nat /\ call.start \in Nat
      /\ call.done <= Len(call.memory) /\ want \in Nat /\ Len(call.memory) \in Nat
  BY <1>1, <1>2, LenProperties DEF TypeOK, Calls
<1>4. ASSUME NEW x \in Statuses, Leave(x), Quiet(streams'), x = "ok" => want = 0
      PROVE  SoFar'
  <2>1. Kept /\ call'.start = call.start /\ call'.phase = "returned" /\ call'.status = x
    BY <1>2, <1>4, PhaseFacts
  <2>2. ReadExactSoFar'
    BY <1>1, <1>2, <1>3, <1>4, <2>1 DEF ReadExactSoFar, Kept
  <2> QED
    BY <1>1, <1>4, <2>1, <2>2, OnePart DEF Kept
<1>5. CASE want = 0 /\ Leave("ok") /\ UNCHANGED streams
  BY <1>2, <1>4, <1>5 DEF Statuses, Quiet, ReadersBufferNothing
<1>6. CASE want > 0
  <2>1. PICK r \in IF call.peer = Custom THEN CustomRead(want) ELSE ReadSome(call.peer, want) :
          /\ streams' = r.streams
          /\ \/ r.status # "ok" /\ Leave(r.status)
             \/ NoProgress(r) /\ Leave("eof")
             \/ Overclaims(r, want) /\ Leave("internal")
             \/ /\ Progress(r, want)
                /\ call' = [call EXCEPT !.done = @ + r.count, !.turn = ~@,
                                        !.memory = Subspan(@, call.done, r.bytes)]
    <3> HIDE DEF want
    <3>1. want # 0 /\ want = Len(call.memory) - call.done
      BY <1>6 DEF want
    <3> QED
      BY <3>1 DEF ReadExact
  <2>2. want \in Nat \ {0}
    BY <1>3, <1>6
  <2>3. /\ Quiet(streams') /\ r.status \in Statuses
        /\ Progress(r, want) =>
             /\ r.count \in 1 .. want /\ Len(r.bytes) = r.count
             /\ \A i \in 1 .. r.count :
                  /\ call.start + call.done + i <= Len(source)
                  /\ r.bytes[i] = source[call.start + call.done + i]
             /\ call.peer # Custom /\ IsOpen(call.peer) =>
                  r.streams[files[call.peer].handle].position = call.start + call.done + r.count
    <3> HIDE DEF want
    <3>1. want = Len(call.memory) - call.done
      BY DEF want
    <3> QED
      BY <1>1, <2>1, <2>2, <3>1, SourceGives
  <2>4. CASE \/ r.status # "ok" /\ Leave(r.status)
             \/ NoProgress(r) /\ Leave("eof")
             \/ Overclaims(r, want) /\ Leave("internal")
    BY <1>4, <2>3, <2>4 DEF Statuses
  <2>5. CASE /\ Progress(r, want)
             /\ call' = [call EXCEPT !.done = @ + r.count, !.turn = ~@,
                                     !.memory = Subspan(@, call.done, r.bytes)]
    <3> DEFINE memory == Subspan(call.memory, call.done, r.bytes)
    <3>1. /\ r.count \in 1 .. want /\ Len(r.bytes) = r.count
          /\ call.done + r.count <= Len(call.memory)
      BY <1>3, <2>3, <2>5
    <3>2. DOMAIN call.memory = 1 .. Len(call.memory)
      BY <1>3, LenProperties
    <3>3. \A i \in 1 .. Len(call.memory) :
            memory[i] = IF i \in call.done + 1 .. call.done + r.count
                        THEN r.bytes[i - call.done] ELSE call.memory[i]
      BY <3>1, <3>2 DEF Subspan
    <3> HIDE DEF memory
    <3>4. call' = [call EXCEPT !.done = @ + r.count, !.turn = ~@, !.memory = memory]
      BY <2>5 DEF memory
    <3>5. /\ call'.op = call.op /\ call'.phase = call.phase /\ call'.peer = call.peer
          /\ call'.text = call.text /\ call'.start = call.start
          /\ call'.done = call.done + r.count /\ call'.memory = memory
      BY <1>2, <3>4 DEF Calls
    <3>6. ASSUME NEW i \in 1 .. call.done + r.count
          PROVE  call.start + i <= Len(source) /\ memory[i] = source[call.start + i]
      <4>1. i \in 1 .. Len(call.memory) /\ i \in Int /\ r.count \in Int
        BY <1>3, <3>1
      <4>2. CASE i <= call.done
        <5>1. i \in 1 .. call.done /\ ~(i \in call.done + 1 .. call.done + r.count)
          BY <1>3, <4>1, <4>2
        <5> QED
          BY <1>1, <1>2, <3>3, <4>1, <5>1 DEF ReadExactSoFar
      <4>3. CASE i > call.done
        <5> DEFINE j == i - call.done
        <5>1. /\ j \in 1 .. r.count /\ i \in call.done + 1 .. call.done + r.count
              /\ call.start + call.done + j = call.start + i
          BY <1>3, <4>1, <4>3
        <5>2. memory[i] = r.bytes[j]
          BY <3>3, <4>1, <5>1
        <5> HIDE DEF j
        <5>3. /\ call.start + call.done + j <= Len(source)
              /\ r.bytes[j] = source[call.start + call.done + j]
          BY <2>3, <2>5, <5>1
        <5> QED
          BY <5>1, <5>2, <5>3
      <4> QED
        BY <1>3, <4>1, <4>2, <4>3
    <3>7. call.peer # Custom /\ IsOpen(call.peer) =>
            streams'[files[call.peer].handle].position = call.start + (call.done + r.count)
      BY <1>3, <2>1, <2>3, <2>5, <3>1
    <3>8. ReadExactSoFar'
      BY <1>1, <1>2, <3>5, <3>6, <3>7 DEF ReadExactSoFar, IsOpen
    <3> QED
      BY <1>1, <2>3, <3>5, <3>8, OnePart
  <2> QED
    BY <2>1, <2>4, <2>5
<1> QED
  BY <1>3, <1>5, <1>6 DEF ReadExact

(* What the peer of WriteAll has got when a request returns, whether or not *)
(* it reports an error.                                                     *)
LEMMA SinkTakes ==
  ASSUME IInv, SoFar, call.op \in {"writeAll", "writeText"}, call.phase = "transfer",
         NEW rest \in Seq(Bytes), rest = After(call.text, call.done), rest # <<>>,
         NEW r, r \in IF call.peer = Custom THEN CustomWrite(rest) ELSE WriteSome(call.peer, rest)
  PROVE  /\ Quiet(r.streams)
         /\ r.status \in Statuses
         /\ Progress(r, Len(rest)) => r.count \in 1 .. Len(rest)
         /\ call.peer # Custom /\ Progress(r, Len(rest)) => IsOpen(call.peer)
         /\ call.peer # Custom /\ IsOpen(call.peer) /\ files[call.peer].writable =>
              /\ r.count \in 0 .. Len(rest)
              /\ Agrees(r.disk \o r.streams[files[call.peer].handle].pending,
                        call.start, call.text, call.done + r.count)
<1>1. TypeOK /\ StreamsAreClosedOnce /\ call \in Calls /\ ReadersBufferNothing /\ WriteAllSoFar
  BY TypeFacts DEF IInv, SoFar
<1>2. call.text \in Seq(Bytes) /\ call.done \in Nat /\ call.start \in Nat
      /\ Len(call.text) \in Nat /\ call.done <= Len(call.text) /\ Len(rest) \in Nat
  BY <1>1, LenProperties DEF Calls, TypeOK
<1>3. CASE call.peer = Custom
  <2>1. Quiet(streams)
    BY <1>1 DEF Quiet, ReadersBufferNothing
  <2>2. PICK x \in {"io", "ok"}, n \in Nat :
          r = [status |-> x, count |-> n, streams |-> streams, disk |-> disk]
    <3>1. \A n \in 0 .. Len(rest) + 1 : n \in Nat
      OBVIOUS
    <3> QED
      BY <1>3, <3>1 DEF CustomWrite
  <2>3. r.status = x /\ r.count = n /\ r.streams = streams
    BY <2>2
  <2>4. Progress(r, Len(rest)) => r.count \in 1 .. Len(rest)
    BY <1>2, <2>3 DEF Progress, NoProgress, Overclaims
  <2> QED
    BY <1>3, <2>1, <2>3, <2>4 DEF Statuses
<1>4. CASE call.peer # Custom
  <2>1. call.peer \in Everyone /\ r \in WriteSome(call.peer, rest)
    BY <1>4 DEF IInv, Inside, Everyone
  <2>2. /\ Quiet(r.streams) /\ r.status \in {"ok", "io", "state"} /\ r.count \in 0 .. Len(rest)
        /\ ~(IsOpen(call.peer) /\ files[call.peer].writable) => r.status = "state"
        /\ IsOpen(call.peer) /\ files[call.peer].writable =>
             r.disk \o r.streams[files[call.peer].handle].pending
               = Content(call.peer) \o First(rest, r.count)
    BY <1>1, <2>1, WriteSomeFacts, WriteSomeExact
  <2>3. Progress(r, Len(rest)) => r.count \in 1 .. Len(rest) /\ IsOpen(call.peer)
    BY <1>2, <2>2 DEF Progress, NoProgress
  <2>4. ASSUME IsOpen(call.peer), files[call.peer].writable
        PROVE  Agrees(r.disk \o r.streams[files[call.peer].handle].pending,
                      call.start, call.text, call.done + r.count)
    <3>0. PICK text \in Seq(Bytes), start \in Nat : text = call.text /\ start = call.start
      BY <1>2
    <3> DEFINE c == Content(call.peer)
    <3>1. PICK n \in 0 .. Len(text) : n = call.done /\ text = call.text /\ start = call.start
      BY <1>2, <3>0
    <3>2. c \in Seq(Bytes)
      <4>1. streams[files[call.peer].handle] \in StreamObjects
        BY <1>1, <2>1, <2>4, HandleFacts
      <4>2. streams[files[call.peer].handle].pending \in Seq(Bytes) /\ disk \in Seq(Bytes)
        BY <1>1, <4>1 DEF StreamObjects, TypeOK
      <4> QED
        BY <4>2, AppendFacts DEF Content
    <3>3. Agrees(c, start, text, n)
      BY <1>1, <1>4, <2>4, <3>1 DEF WriteAllSoFar
    <3> HIDE DEF c
    <3>4. PICK m \in 0 .. Len(text) - n : m = r.count
      <4>1. rest = After(text, n) /\ Len(After(text, n)) = Len(text) - n
        BY <3>1, FirstFacts
      <4> QED
        BY <2>2, <4>1
    <3>5. First(After(text, n), m) \in Seq(Bytes)
      <4>1. After(text, n) \in Seq(Bytes) /\ Len(After(text, n)) = Len(text) - n
        BY FirstFacts
      <4> QED
        BY <4>1, FirstFacts
    <3>6. Agrees(c \o First(After(text, n), m), start, text, n + m)
      BY <3>2, <3>3, <3>5, AgreesExtends
    <3>7. r.disk \o r.streams[files[call.peer].handle].pending = c \o First(After(text, n), m)
      BY <2>2, <2>4, <3>1, <3>4 DEF c
    <3> QED
      BY <3>1, <3>4, <3>6, <3>7
  <2> QED
    BY <1>4, <2>2, <2>3, <2>4 DEF Statuses
<1> QED
  BY <1>3, <1>4

LEMMA WriteAllKeeps ==
  ASSUME IInv, SoFar, WriteAll
  PROVE  SoFar'
<1>1. /\ call.op \in {"writeAll", "writeText"} /\ call.phase = "transfer" /\ UNCHANGED files
  BY DEF WriteAll
<1>2. /\ TypeOK /\ call \in Calls /\ disk \in Seq(Bytes) /\ Quiet(streams)
      /\ WriteAllSoFar /\ WriteTextSoFar
  BY TypeFacts DEF IInv, SoFar, Quiet, ReadersBufferNothing
<1>3. /\ call.memory \in Seq(Bytes \cup {Unset}) /\ call.text \in Seq(Bytes)
      /\ call.done \in 0 .. Len(call.text) /\ call.start \in Nat /\ Len(call.text) \in Nat
  BY <1>1, <1>2, LenProperties DEF TypeOK, Calls
<1>0. PICK text \in Seq(Bytes) : text = call.text
  BY <1>3
<1>01. PICK done \in 0 .. Len(text) : done = call.done
  BY <1>0, <1>3
<1>4. PICK rest \in Seq(Bytes) :
        /\ text = call.text /\ done = call.done /\ rest = After(text, done)
        /\ Len(rest) = Len(text) - done /\ Len(text) \in Nat
  <2>1. After(text, done) \in Seq(Bytes) /\ Len(After(text, done)) = Len(text) - done
    BY FirstFacts
  <2> QED
    BY <1>0, <1>01, <1>3, <2>1
<1>5. /\ call.op = "writeAll" => call.peer # Local
      /\ call.op = "writeText" => /\ call.peer = Local /\ call.peer # Custom /\ IsOpen(Local)
                                 /\ files[Local].writable /\ call.start = 0
  BY <1>1, <1>2, NameAssumption DEF IInv, Inside, WriteTextSoFar
<1>6. CASE rest = <<>> /\ WroteAll /\ UNCHANGED <<disk, streams>>
  <2>1. done = Len(text)
    BY <1>4, <1>6
  <2>2. /\ Agrees(call.memory, 0, text, Len(text))
        /\ call.peer # Custom /\ IsOpen(call.peer) =>
             Agrees(Content(call.peer), call.start, text, Len(text))
        /\ call.peer # Custom /\ ~IsOpen(call.peer) => Len(text) = 0
    BY <1>1, <1>2, <1>4, <2>1 DEF WriteAllSoFar
  <2>3. CASE call.op = "writeText"
    <3>1. call' = [call EXCEPT !.phase = "flush"]
      BY <1>6, <2>3 DEF WroteAll
    <3>2. Kept /\ call'.start = call.start /\ call'.phase = "flush"
      BY <1>2, <3>1, PhaseFacts DEF Statuses
    <3>3. Content(Local) = text
      <4>1. Content(Local) \in Seq(Bytes)
        <5>1. streams[files[Local].handle] \in StreamObjects
          BY <1>2, <1>5, <2>3, HandleFacts DEF Everyone
        <5>2. streams[files[Local].handle].pending \in Seq(Bytes)
          BY <5>1 DEF StreamObjects
        <5> QED
          BY <1>2, <5>2, AppendFacts DEF Content
      <4>2. Agrees(Content(Local), 0, text, Len(text))
        BY <1>5, <2>2, <2>3
      <4> QED
        BY <4>1, <4>2, AgreesIsEqual
    <3>4. WriteTextSoFar'
      BY <1>1, <1>4, <1>5, <1>6, <2>3, <3>2, <3>3 DEF WriteTextSoFar, Kept, IsOpen, Content
    <3>5. WriteAllSoFar'
      BY <2>3, <3>2 DEF WriteAllSoFar, Kept
    <3> QED
      BY <1>2, <1>6, <2>3, <3>2, <3>4, <3>5, OnePart DEF Kept, Quiet
  <2>4. CASE call.op = "writeAll"
    <3>1. Leave("ok")
      BY <1>6, <2>4 DEF WroteAll
    <3>2. Kept /\ call'.start = call.start /\ call'.phase = "returned"
      BY <1>2, <3>1, PhaseFacts DEF Statuses
    <3>3. text # <<>> => Len(text) # 0
      BY EmptySeq
    <3>4. WriteAllSoFar'
      BY <1>1, <1>4, <1>6, <2>2, <2>4, <3>2, <3>3 DEF WriteAllSoFar, Kept, IsOpen, Content
    <3> QED
      BY <1>2, <1>6, <2>4, <3>2, <3>4, OnePart DEF Kept, Quiet
  <2> QED
    BY <1>1, <2>3, <2>4
<1>7. CASE rest # <<>>
  <2>1. PICK r \in IF call.peer = Custom THEN CustomWrite(rest) ELSE WriteSome(call.peer, rest) :
          /\ streams' = r.streams /\ disk' = r.disk
          /\ \/ r.status # "ok" /\ End(r.status)
             \/ NoProgress(r) /\ End("io")
             \/ Overclaims(r, Len(rest)) /\ End("internal")
             \/ /\ Progress(r, Len(rest))
                /\ call' = [call EXCEPT !.done = @ + r.count, !.turn = ~@,
                                        !.memory = @ \o First(rest, Smaller(r.count, Len(rest)))]
    BY <1>4, <1>7 DEF WriteAll
  <2>2. /\ Quiet(streams') /\ r.status \in Statuses
        /\ Progress(r, Len(rest)) => r.count \in 1 .. Len(rest)
        /\ call.peer # Custom /\ Progress(r, Len(rest)) => IsOpen(call.peer)
        /\ call.peer # Custom /\ IsOpen(call.peer) /\ files[call.peer].writable =>
             /\ r.count \in 0 .. Len(rest)
             /\ Agrees(disk' \o streams'[files[call.peer].handle].pending,
                       call.start, text, done + r.count)
    <3>1. rest = After(call.text, call.done)
      BY <1>4
    <3> QED
      BY <1>1, <1>4, <1>7, <2>1, <3>1, SinkTakes
  <2>3. ASSUME NEW x \in Statuses, x # "ok", End(x)
        PROVE  SoFar'
    <3>1. CASE call.op = "writeText"
      <4>1. Kept /\ call'.start = call.start /\ call'.phase = "destroy" /\ call'.status = x
        BY <1>2, <1>5, <2>3, <3>1, PhaseFacts DEF End
      <4>2. /\ r.count \in 0 .. Len(rest)
            /\ Agrees(Content(Local)', 0, text, done + r.count)
        BY <1>1, <1>5, <2>2, <3>1 DEF Content
      <4>3. Begins(Content(Local)', text)
        <5>1. done + r.count \in 0 .. Len(text)
          BY <1>4, <4>2
        <5> QED
          BY <4>2, <5>1, <1>4 DEF Agrees, Begins
      <4>4. WriteTextSoFar'
        BY <1>1, <1>4, <1>5, <2>3, <3>1, <4>1, <4>3 DEF WriteTextSoFar, Kept, IsOpen
      <4>5. WriteAllSoFar'
        BY <3>1, <4>1 DEF WriteAllSoFar, Kept
      <4> QED
        BY <2>2, <3>1, <4>1, <4>4, <4>5, OnePart DEF Kept
    <3>2. CASE call.op = "writeAll"
      <4>1. Kept /\ call'.phase = "returned" /\ call'.status = x
        BY <1>2, <1>5, <2>3, <3>2, PhaseFacts DEF End
      <4>2. WriteAllSoFar'
        BY <2>3, <3>2, <4>1 DEF WriteAllSoFar, Kept
      <4> QED
        BY <2>2, <3>2, <4>1, <4>2, OnePart DEF Kept
    <3> QED
      BY <1>1, <3>1, <3>2
  <2>4. CASE /\ Progress(r, Len(rest))
             /\ call' = [call EXCEPT !.done = @ + r.count, !.turn = ~@,
                                     !.memory = @ \o First(rest, Smaller(r.count, Len(rest)))]
    <3> DEFINE memory == call.memory \o First(rest, Smaller(r.count, Len(rest)))
    <3>1. PICK n \in 0 .. Len(text) - done : n = r.count /\ Smaller(n, Len(rest)) = n
      BY <1>4, <2>2, <2>4 DEF Smaller
    <3>2. memory = call.memory \o First(After(text, done), n)
      BY <1>4, <3>1
    <3> HIDE DEF memory
    <3>3. call' = [call EXCEPT !.done = @ + r.count, !.turn = ~@, !.memory = memory]
      BY <2>4 DEF memory
    <3>4. /\ call'.op = call.op /\ call'.phase = call.phase /\ call'.peer = call.peer
          /\ call'.text = call.text /\ call'.start = call.start
          /\ call'.done = done + n /\ call'.memory = memory
      BY <1>2, <1>4, <3>1, <3>3 DEF Calls
    <3>5. Agrees(memory, 0, text, done + n)
      <4>1. PICK c \in Seq(Bytes \cup {Unset}) : c = call.memory
        BY <1>3
      <4>2. Agrees(c, 0, text, done)
        BY <1>1, <1>2, <1>4, <4>1 DEF WriteAllSoFar
      <4>3. First(After(text, done), n) \in Seq(Bytes \cup {Unset})
        <5>1. First(After(text, done), n) \in Seq(Bytes)
          BY <1>4, <3>1, FirstFacts
        <5> QED
          BY <5>1
      <4>4. Agrees(c \o First(After(text, done), n), 0, text, done + n)
        BY <4>2, <4>3, AgreesExtends
      <4> QED
        BY <3>2, <4>1, <4>4
    <3>6. call.peer # Custom => IsOpen(call.peer)
      BY <2>2, <2>4
    <3>7. call.peer # Custom => files[call.peer].writable
      <4>1. SUFFICES ASSUME call.peer # Custom, ~files[call.peer].writable PROVE FALSE
        OBVIOUS
      <4>2. r.status = "state"
        <5>1. call.peer \in Everyone /\ r \in WriteSome(call.peer, rest)
          BY <1>1, <2>1, <4>1 DEF IInv, Inside, Everyone
        <5>2. TypeOK /\ StreamsAreClosedOnce /\ ReadersBufferNothing
          BY DEF IInv, SoFar
        <5> QED
          BY <1>7, <4>1, <5>1, <5>2, WriteSomeExact
      <4> QED
        BY <2>4, <4>2 DEF Progress
    <3>8. call.peer # Custom =>
            Agrees(disk' \o streams'[files[call.peer].handle].pending, call.start, text, done + n)
      BY <2>2, <3>1, <3>6, <3>7
    <3>9. WriteAllSoFar'
      BY <1>1, <1>4, <3>4, <3>5, <3>6, <3>8 DEF WriteAllSoFar, IsOpen, Content
    <3>10. call.op = "writeText" => WriteTextSoFar'
      BY <1>1, <1>5, <3>4 DEF WriteTextSoFar, IsOpen
    <3> QED
      BY <1>1, <2>2, <3>4, <3>9, <3>10, OnePart
  <2> QED
    BY <2>1, <2>2, <2>3, <2>4 DEF Statuses
<1> QED
  BY <1>4, <1>6, <1>7 DEF WriteAll

LEMMA OpenLocalKeeps ==
  ASSUME IInv, SoFar, OpenLocal \/ OpenLocalFails
  PROVE  SoFar'
<1>1. /\ TypeOK /\ call \in Calls /\ ReadersBufferNothing /\ call.phase = "open"
      /\ call.op \in {"readText", "writeText"} /\ call.peer = Local /\ ~IsOpen(Local)
      /\ ReadTextSoFar /\ WriteTextSoFar
  BY TypeFacts DEF IInv, Inside, SoFar, OpenLocal, OpenLocalFails
<1>2. CASE OpenLocalFails
  <2>1. /\ Kept /\ call'.start = call.start /\ call'.phase = "returned"
        /\ call'.status = "unopened" /\ UNCHANGED <<disk, streams, files>>
    BY <1>1, <1>2, PhaseFacts DEF OpenLocalFails, Statuses
  <2>2. ReadTextSoFar' /\ WriteTextSoFar' /\ WriteAllSoFar' /\ Quiet(streams')
    BY <1>1, <2>1 DEF ReadTextSoFar, WriteTextSoFar, WriteAllSoFar, Kept, IsOpen, Quiet,
       ReadersBufferNothing
  <2> QED
    BY <1>1, <2>1, <2>2, OnePart DEF Kept
<1>3. CASE OpenLocal
  <2> DEFINE mode == IF call.op = "readText" THEN "read" ELSE "write"
  <2>1. /\ Kept /\ call'.start = call.start /\ call'.phase = "transfer"
        /\ call'.status = call.status
    <3>1. "ok" \in Statuses /\ call' = [call EXCEPT !.phase = "transfer"]
      BY <1>3 DEF OpenLocal, Statuses
    <3> QED
      BY <1>1, <3>1, PhaseFacts
  <2>2. /\ Quiet(streams')
        /\ IsOpen(Local)' /\ files'[Local].readable = (mode = "read")
        /\ files'[Local].writable = (mode = "write")
        /\ disk' = IF mode = "write" THEN <<>> ELSE disk
        /\ streams'[files'[Local].handle].pending = <<>>
        /\ streams'[files'[Local].handle].position = 0
    <3> HIDE DEF mode
    <3>1. mode \in {"read", "write"} /\ Local \in Everyone
      BY DEF mode, Everyone
    <3>2. Open(Local, mode)
      BY <1>3 DEF OpenLocal, mode
    <3> QED
      BY <1>1, <3>1, <3>2, OpenExact
  <2>3. CASE call.op = "readText"
    <3>1. call.memory = <<>>
      BY <1>1, <2>3 DEF ReadTextSoFar
    <3>2. Begins(<<>>, disk) /\ Len(<<>>) = 0
      BY <1>1, EmptySeq, LenProperties DEF Begins, TypeOK
    <3>3. ReadTextSoFar'
      BY <2>1, <2>2, <2>3, <3>1, <3>2 DEF ReadTextSoFar, Kept
    <3> QED
      BY <2>1, <2>2, <2>3, <3>3, OnePart DEF Kept
  <2>4. CASE call.op = "writeText"
    <3>1. call.memory = <<>> /\ call.done = 0 /\ call.start = 0
      BY <1>1, <2>4 DEF WriteTextSoFar
    <3>2. disk' \o streams'[files'[Local].handle].pending = <<>>
      <4>1. <<>> \o <<>> = <<>>
        BY ConcatEmptySeq, EmptySeq
      <4> QED
        BY <2>2, <2>4, <4>1
    <3>3. Agrees(<<>>, 0, call.text, 0)
      BY EmptySeq DEF Agrees
    <3>4. WriteAllSoFar'
      BY <1>1, <2>1, <2>2, <2>4, <3>1, <3>2, <3>3 DEF WriteAllSoFar, Kept, Content
    <3>5. WriteTextSoFar'
      BY <2>1, <2>2, <2>4, <3>1 DEF WriteTextSoFar, Kept
    <3> QED
      BY <2>1, <2>2, <2>4, <3>4, <3>5, OnePart DEF Kept
  <2> QED
    BY <1>1, <2>3, <2>4
<1> QED
  BY <1>2, <1>3

LEMMA ReadTextKeeps ==
  ASSUME IInv, SoFar, ReadTextChunk
  PROVE  SoFar'
<1> DEFINE remaining == call.limit - Len(call.memory)
           request == ChunkRequest(remaining)
           s == streams[files[Local].handle]
<1>1. /\ TypeOK /\ call \in Calls /\ ReadersBufferNothing /\ ReadTextSoFar
      /\ call.op = "readText" /\ call.phase = "transfer" /\ UNCHANGED <<disk, files>>
  BY TypeFacts DEF IInv, SoFar, ReadTextChunk
<1>2. /\ IsOpen(Local) /\ files[Local].readable /\ Begins(call.memory, disk)
      /\ s.position = Len(call.memory) /\ Local \in Everyone
  BY <1>1 DEF ReadTextSoFar, Everyone
<1>3. /\ call.memory \in Seq(Bytes \cup {Unset}) /\ disk \in Seq(Bytes) /\ call.limit \in Nat
      /\ Len(call.memory) \in Nat /\ Len(disk) \in Nat /\ remaining \in Nat
  BY <1>1, LenProperties DEF TypeOK, Calls
<1>4. request \in Nat \ {0}
  BY <1>3, ValueAssumption DEF ChunkRequest
<1>5. PICK r \in ReadSome(Local, request) :
        /\ streams' = r.streams
        /\ \/ r.status # "ok" /\ LeaveHelper(r.status)
           \/ NoProgress(r) /\ call' = [call EXCEPT !.phase = "close"]
           \/ Overclaims(r, remaining) /\ LeaveHelper("overflow")
           \/ /\ Progress(r, remaining)
              /\ call' = [call EXCEPT !.memory = @ \o r.bytes, !.turn = ~@]
  BY DEF ReadTextChunk
<1> HIDE DEF request, s
<1>6. /\ Quiet(streams') /\ r.status \in Statuses
      /\ r.count \in Nat /\ r.bytes \in Seq(Bytes) /\ Len(r.bytes) = r.count
      /\ r.streams[files[Local].handle].position = s.position + r.count
      /\ r.count > 0 => s.position + r.count <= Len(disk)
      /\ \A i \in 1 .. r.count : r.bytes[i] = disk[s.position + i]
      /\ r.status = "ok" /\ r.count = 0 => s.position >= Len(disk)
  BY <1>1, <1>2, <1>4, <1>5, ReadSomeFacts, ReadSomeExact DEF Statuses, s
<1>7. CASE \/ r.status # "ok" /\ LeaveHelper(r.status)
           \/ Overclaims(r, remaining) /\ LeaveHelper("overflow")
  <2>1. PICK x \in Statuses \ {"ok"} :
          LeaveHelper(x) /\ (x = "overflow" => r.count > remaining \/ r.status = "overflow")
    BY <1>6, <1>7 DEF Statuses, Overclaims
  <2>2. Kept /\ call'.phase = "destroy" /\ call'.status = x
    BY <1>1, <2>1, PhaseFacts
  <2>3. r.status # "overflow"
    BY <1>1, <1>2, <1>4, <1>5, ReadSomeFacts
  <2>4. x = "overflow" => Len(disk) > call.limit
    BY <1>2, <1>3, <1>6, <2>1, <2>3
  <2>5. ReadTextSoFar'
    BY <1>1, <1>2, <2>2, <2>4 DEF ReadTextSoFar, Kept, IsOpen
  <2> QED
    BY <1>1, <1>6, <2>2, <2>5, OnePart DEF Kept
<1>8. CASE NoProgress(r) /\ call' = [call EXCEPT !.phase = "close"]
  <2>1. Kept /\ call'.phase = "close"
    BY <1>1, <1>8, PhaseFacts DEF Statuses
  <2>2. call.memory = disk
    <3>1. Len(call.memory) >= Len(disk)
      BY <1>2, <1>6, <1>8 DEF NoProgress
    <3>2. PICK m \in Seq(Bytes \cup {Unset}), d \in Seq(Bytes \cup {Unset}) :
            m = call.memory /\ d = disk
      BY <1>3
    <3>3. Len(m) = Len(d) /\ \A i \in 1 .. Len(m) : m[i] = d[i]
      BY <1>2, <1>3, <3>1, <3>2 DEF Begins
    <3> QED
      BY <3>2, <3>3, SeqEqual
  <2>3. ReadTextSoFar'
    BY <1>1, <1>2, <2>1, <2>2 DEF ReadTextSoFar, Kept, IsOpen
  <2> QED
    BY <1>1, <1>6, <2>1, <2>3, OnePart DEF Kept
<1>9. CASE /\ Progress(r, remaining)
           /\ call' = [call EXCEPT !.memory = @ \o r.bytes, !.turn = ~@]
  <2>1. PICK m \in Seq(Bytes \cup {Unset}), b \in Seq(Bytes \cup {Unset}) :
          m = call.memory /\ b = r.bytes
    BY <1>3, <1>6
  <2>2. call' = [call EXCEPT !.memory = m \o b, !.turn = ~@]
    BY <1>9, <2>1
  <2>3. /\ call'.op = call.op /\ call'.phase = call.phase /\ call'.memory = m \o b
        /\ call'.status = call.status
    BY <1>1, <2>2 DEF Calls
  <2>41. PICK k \in Nat, at \in Nat : k = r.count /\ at = s.position
    BY <1>2, <1>3, <1>6
  <2>42. at = Len(m) /\ Len(b) = k
    BY <1>2, <1>6, <2>1, <2>41
  <2>43. k # 0 /\ (k > 0 => at + k <= Len(disk))
    BY <1>6, <1>9, <2>41 DEF Progress, NoProgress
  <2>4. k > 0 /\ Len(m) + Len(b) <= Len(disk) /\ Len(m) \in Nat /\ Len(b) = k
    BY <2>41, <2>42, <2>43
  <2>5. /\ Len(m \o b) = Len(m) + Len(b)
        /\ \A i \in 1 .. Len(m) + Len(b) : (m \o b)[i] = IF i <= Len(m) THEN m[i] ELSE b[i - Len(m)]
    BY ConcatProperties
  <2>6. ASSUME NEW i \in 1 .. Len(m) + Len(b)
        PROVE  (m \o b)[i] = disk[i]
    <3>1. CASE i <= Len(m)
      <4>1. i \in 1 .. Len(m)
        BY <2>4, <3>1
      <4> QED
        BY <1>2, <2>1, <2>5, <3>1, <4>1 DEF Begins
    <3>2. CASE i > Len(m)
      <4> DEFINE j == i - Len(m)
      <4>1. j \in 1 .. k /\ at + j = i
        BY <2>4, <2>42, <3>2
      <4>2. (m \o b)[i] = b[j]
        BY <2>4, <2>5, <3>2
      <4> HIDE DEF j
      <4>3. r.bytes[j] = disk[at + j]
        BY <1>6, <2>41, <4>1
      <4> QED
        BY <2>1, <4>1, <4>2, <4>3
    <3>3. i \in Int
      OBVIOUS
    <3> QED
      BY <2>4, <3>1, <3>2, <3>3
  <2>7. Begins(m \o b, disk)
    BY <2>4, <2>5, <2>6 DEF Begins
  <2>8. streams'[files'[Local].handle].position = Len(m \o b)
    BY <1>1, <1>2, <1>3, <1>5, <1>6, <2>1, <2>4, <2>5
  <2>9. ReadTextSoFar'
    BY <1>1, <1>2, <2>3, <2>7, <2>8 DEF ReadTextSoFar, IsOpen
  <2> QED
    BY <1>1, <1>6, <2>3, <2>9, OnePart
<1> QED
  BY <1>5, <1>7, <1>8, <1>9

(* Where the helpers that are past their transfer stand *)
LEMMA HelperPhases ==
  ASSUME IInv, SoFar, call.phase \in {"flush", "close", "destroy"}
  PROVE  /\ call.op \in {"readText", "writeText"}
         /\ call.phase = "flush" => call.op = "writeText"
<1>1. call \in Calls
  BY TypeFacts DEF IInv
<1>2. call.op \in {"none", "readExact", "writeAll", "readText", "writeText"}
  BY <1>1 DEF Calls
<1>3. call.op # "none"
  BY DEF IInv, Inside, Request
<1> QED
  BY <1>2, <1>3 DEF SoFar, ReadExactSoFar, WriteAllSoFar, ReadTextSoFar

LEMMA FlushLocalKeeps ==
  ASSUME IInv, SoFar, FlushLocal
  PROVE  SoFar'
<1>1. /\ TypeOK /\ StreamsAreClosedOnce /\ call \in Calls /\ ReadersBufferNothing
      /\ WriteTextSoFar /\ call.op = "writeText" /\ call.phase = "flush" /\ UNCHANGED files
  BY TypeFacts, HelperPhases DEF IInv, SoFar, FlushLocal
<1>2. /\ IsOpen(Local) /\ files[Local].writable /\ Content(Local) = call.text
      /\ call.start = 0 /\ Local \in Everyone /\ call.text \in Seq(Bytes)
  BY <1>1 DEF WriteTextSoFar, Everyone, Calls
<1>3. PICK r \in Flush(Local) :
        /\ streams' = r.streams /\ disk' = r.disk
        /\ IF r.status = "ok" THEN call' = [call EXCEPT !.phase = "close"] ELSE LeaveHelper(r.status)
  BY DEF FlushLocal
<1>4. /\ Quiet(streams') /\ r.status \in Statuses
      /\ r.status = "ok" =>
           r.disk = Content(Local) /\ r.streams[files[Local].handle].pending = <<>>
      /\ \A text \in Seq(Bytes) : Begins(Content(Local), text) =>
           Begins(r.disk \o r.streams[files[Local].handle].pending, text)
  BY <1>1, <1>2, <1>3, FlushFacts, FlushExact DEF Statuses
<1>5. Begins(call.text, call.text)
  BY <1>2, LenProperties DEF Begins
<1>6. CASE r.status = "ok"
  <2>1. Kept /\ call'.start = call.start /\ call'.phase = "close"
    BY <1>1, <1>3, <1>4, <1>6, PhaseFacts
  <2>2. WriteTextSoFar' /\ WriteAllSoFar'
    BY <1>1, <1>2, <1>3, <1>4, <1>6, <2>1 DEF WriteTextSoFar, WriteAllSoFar, Kept, IsOpen
  <2> QED
    BY <1>1, <1>4, <2>1, <2>2, OnePart DEF Kept
<1>7. CASE r.status # "ok"
  <2>1. Kept /\ call'.start = call.start /\ call'.phase = "destroy" /\ call'.status = r.status
    BY <1>1, <1>3, <1>4, <1>7, PhaseFacts
  <2>2. Begins(disk' \o streams'[files[Local].handle].pending, call.text)
    BY <1>2, <1>3, <1>4, <1>5
  <2>3. WriteTextSoFar' /\ WriteAllSoFar'
    BY <1>1, <1>2, <1>7, <2>1, <2>2 DEF WriteTextSoFar, WriteAllSoFar, Kept, IsOpen, Content
  <2> QED
    BY <1>1, <1>4, <2>1, <2>3, OnePart DEF Kept
<1> QED
  BY <1>6, <1>7

(* The stream of ReadTextFile buffers nothing that a close could write. *)
LEMMA LocalReader ==
  ASSUME IInv, SoFar, IsOpen(Local), files[Local].readable
  PROVE  streams[files[Local].handle].pending = <<>>
<1>1. files[Local].handle \in Streams /\ Local \in Everyone
  BY HandleFacts DEF IInv, Everyone
<1>2. streams[files[Local].handle].mode = "read"
  BY DEF IInv, StreamsAreClosedOnce
<1> QED
  BY <1>1, <1>2 DEF SoFar, ReadersBufferNothing

LEMMA CloseLocalKeeps ==
  ASSUME IInv, SoFar, CloseLocal \/ DestroyLocal
  PROVE  SoFar'
<1>1. /\ TypeOK /\ call \in Calls /\ ReadersBufferNothing /\ call.text \in Seq(Bytes)
      /\ ReadTextSoFar /\ WriteTextSoFar /\ call.phase \in {"close", "destroy"}
      /\ call.op \in {"readText", "writeText"} /\ Local \in Everyone
      /\ call.status \in Statuses
  BY TypeFacts, HelperPhases DEF IInv, SoFar, CloseLocal, DestroyLocal, Everyone, Calls
<1>2. PICK r \in Close(Local) : streams' = r.streams /\ disk' = r.disk /\ files' = r.files
                               /\ \/ call.phase = "close" /\ LeaveHelper(r.status)
                                  \/ call.phase = "destroy" /\ Leave(call.status)
  BY DEF CloseLocal, DestroyLocal
<1>3. /\ Quiet(streams') /\ r.status \in Statuses /\ ~IsOpen(Local)'
      /\ ~IsOpen(Local) => r.disk = disk
      /\ IsOpen(Local) =>
           /\ streams[files[Local].handle].pending = <<>> => r.disk = disk
           /\ \A text \in Seq(Bytes) : Begins(Content(Local), text) => Begins(r.disk, text)
  BY <1>1, <1>2, CloseFacts, CloseExact DEF Statuses, IsOpen
<1>4. /\ Kept /\ call'.start = call.start
      /\ call.phase = "close" => call'.phase = "destroy" /\ call'.status = r.status
      /\ call.phase = "destroy" => call'.phase = "returned" /\ call'.status = call.status
  BY <1>1, <1>2, <1>3, PhaseFacts
<1>5. CASE call.op = "readText"
  <2>1. disk' = disk
    BY <1>1, <1>2, <1>3, <1>5, LocalReader DEF ReadTextSoFar
  <2>2. r.status # "overflow"
    BY <1>1, <1>2, CloseFacts
  <2>3. ReadTextSoFar'
    BY <1>1, <1>3, <1>4, <1>5, <2>1, <2>2 DEF ReadTextSoFar, Kept
  <2> QED
    BY <1>3, <1>4, <1>5, <2>3, OnePart DEF Kept
<1>6. CASE call.op = "writeText"
  <2>1. Begins(call.text, call.text)
    BY <1>1, LenProperties DEF Begins
  <2>2. CASE call.phase = "close"
    <3>1. disk' = call.text
      BY <1>1, <1>2, <1>3, <1>6, <2>2 DEF WriteTextSoFar
    <3>2. WriteTextSoFar' /\ WriteAllSoFar'
      BY <1>1, <1>3, <1>4, <1>6, <2>1, <2>2, <3>1 DEF WriteTextSoFar, WriteAllSoFar, Kept
    <3> QED
      BY <1>3, <1>4, <1>6, <3>2, OnePart DEF Kept
  <2>3. CASE call.phase = "destroy"
    <3>1. Begins(disk', call.text) /\ (call.status = "ok" => disk' = call.text)
      BY <1>1, <1>2, <1>3, <1>6, <2>3 DEF WriteTextSoFar
    <3>2. WriteTextSoFar' /\ WriteAllSoFar'
      BY <1>1, <1>3, <1>4, <1>6, <2>3, <3>1 DEF WriteTextSoFar, WriteAllSoFar, Kept
    <3> QED
      BY <1>3, <1>4, <1>6, <3>2, OnePart DEF Kept
  <2> QED
    BY <1>1, <2>2, <2>3
<1> QED
  BY <1>1, <1>5, <1>6

LEMMA NextSoFar == IInv /\ SoFar /\ [Next]_vars => SoFar'
<1> SUFFICES ASSUME IInv, SoFar, [Next]_vars PROVE SoFar'
  OBVIOUS
<1>1. CASE UNCHANGED vars
  BY <1>1 DEF vars, SoFar, ReadersBufferNothing, ReadExactSoFar, WriteAllSoFar, ReadTextSoFar,
     WriteTextSoFar, IsOpen, Content
<1>2. ASSUME NEW f \in Files,
             \/ OpenRead(f) \/ OpenWrite(f) \/ FlushFile(f) \/ CloseFile(f)
             \/ \E n \in Limits : ReadOnce(f, n)
             \/ \E text \in Texts : WriteOnce(f, text)
             \/ \E g \in Files : MoveFile(f, g)
      PROVE  SoFar'
  BY <1>2, CallerSoFar
<1>3. CASE \/ \E peer \in Files \cup {Custom}, text \in Texts :
                BeginWriteAll(peer, text) \/ \E n \in Limits : BeginReadExact(peer, n, text)
           \/ \E limit \in Limits : BeginReadTextFile(limit)
           \/ \E text \in Texts : BeginWriteTextFile(text)
           \/ \E f, g \in Files : MoveOverOpen(f, g)
           \/ Resume
  BY <1>3, BeginSoFar
<1>4. CASE CallStep
  BY <1>4, ReadExactKeeps, WriteAllKeeps, OpenLocalKeeps, ReadTextKeeps, FlushLocalKeeps,
     CloseLocalKeeps DEF CallStep
<1> QED
  BY <1>1, <1>2, <1>3, <1>4 DEF Next

(* What the calls have done when they return *)
LEMMA SoFarIsExact == IInv /\ SoFar => TransfersAreExact
<1> SUFFICES ASSUME IInv, SoFar PROVE TransfersAreExact
  OBVIOUS
<1>1. /\ call \in Calls /\ TypeOK /\ disk \in Seq(Bytes) /\ call.text \in Seq(Bytes)
      /\ call.memory \in Seq(Bytes \cup {Unset}) /\ Len(call.memory) \in Nat
      /\ call.start \in Nat /\ Len(disk) \in Nat /\ Len(call.text) \in Nat
  BY TypeFacts, LenProperties DEF IInv, Calls
<1>2. ASSUME Succeeded("readExact")
      PROVE  call.memory = SubSeq(IF call.peer = Custom THEN call.text ELSE disk,
                                  call.start + 1, call.start + Len(call.memory))
  <2>1. PICK source \in Seq(Bytes) : source = IF call.peer = Custom THEN call.text ELSE disk
    BY <1>1
  <2>2. PICK m \in Seq(Bytes \cup {Unset}), start \in Nat : m = call.memory /\ start = call.start
    BY <1>1
  <2>3. /\ call.done = Len(m) /\ Len(m) \in Nat /\ Len(source) \in Nat
        /\ \A i \in 1 .. Len(m) : start + i <= Len(source) /\ m[i] = source[start + i]
    BY <1>1, <1>2, <2>1, <2>2, LenProperties DEF Succeeded, SoFar, ReadExactSoFar
  <2>4. /\ SubSeq(source, start + 1, start + Len(m)) \in Seq(Bytes \cup {Unset})
        /\ Len(SubSeq(source, start + 1, start + Len(m))) = Len(m)
        /\ \A i \in 1 .. Len(m) : SubSeq(source, start + 1, start + Len(m))[i] = source[start + i]
    <3>1. CASE Len(m) = 0
      BY <2>3, <3>1, SubSeqEmpty, EmptySeq
    <3>2. CASE Len(m) > 0
      <4>1. start + Len(m) <= Len(source)
        BY <2>3, <3>2
      <4>2. /\ Len(SubSeq(source, start + 1, start + Len(m))) = Len(m)
            /\ \A i \in 1 .. Len(m) :
                 SubSeq(source, start + 1, start + Len(m))[i] = source[start + i]
        BY <2>3, <4>1, MiddleElements
      <4>3. \A i \in start + 1 .. start + Len(m) : source[i] \in Bytes
        BY <2>3, <4>1, ElementOfSeq
      <4>4. SubSeq(source, start + 1, start + Len(m)) \in Seq(Bytes \cup {Unset})
        BY <2>3, <4>3, SubSeqProperties
      <4> QED
        BY <4>2, <4>4
    <3> QED
      BY <2>3, <3>1, <3>2
  <2>5. m = SubSeq(source, start + 1, start + Len(m))
    BY <2>3, <2>4, SeqEqual
  <2> QED
    BY <2>1, <2>2, <2>5
<1>3. ASSUME Succeeded("writeAll")
      PROVE  /\ call.memory = call.text
             /\ call.peer # Custom /\ call.text # <<>> =>
                  After(disk \o streams[files[call.peer].handle].pending, call.start) = call.text
  <2>1. PICK m \in Seq(Bytes \cup {Unset}), t \in Seq(Bytes \cup {Unset}) :
          m = call.memory /\ t = call.text
    BY <1>1
  <2>2. Agrees(m, 0, t, Len(t))
    BY <1>3, <2>1 DEF Succeeded, SoFar, WriteAllSoFar
  <2>3. m = t
    BY <2>2, AgreesIsEqual
  <2>4. ASSUME call.peer # Custom, call.text # <<>>
        PROVE  After(disk \o streams[files[call.peer].handle].pending, call.start) = call.text
    <3>1. /\ IsOpen(call.peer)
          /\ Agrees(Content(call.peer), call.start, call.text, Len(call.text))
      BY <1>3, <2>4 DEF Succeeded, SoFar, WriteAllSoFar
    <3>2. call.peer \in Everyone
      BY <1>3, <2>4 DEF IInv, Inside, Everyone, Succeeded
    <3>3. streams[files[call.peer].handle] \in StreamObjects
      BY <1>1, <3>1, <3>2, HandleFacts
    <3>4. Content(call.peer) \in Seq(Bytes)
      <4>1. streams[files[call.peer].handle].pending \in Seq(Bytes)
        BY <3>3 DEF StreamObjects
      <4> QED
        BY <1>1, <4>1, AppendFacts DEF Content
    <3>5. PICK c \in Seq(Bytes), text \in Seq(Bytes), start \in Nat :
            c = Content(call.peer) /\ text = call.text /\ start = call.start
      BY <1>1, <3>4
    <3>6. After(c, start) = text
      BY <3>1, <3>5, AgreesWhole
    <3> QED
      BY <3>5, <3>6 DEF Content
  <2> QED
    BY <2>1, <2>3, <2>4
<1>4. Succeeded("readText") => call.memory = disk
  BY DEF SoFar, ReadTextSoFar, Succeeded
<1>5. Succeeded("readText") => Len(disk) <= call.limit
  BY <1>1, <1>4 DEF Succeeded, TypeOK
<1>6. Stopped("readText") /\ call.status = "overflow" => Len(disk) > call.limit
  BY DEF SoFar, ReadTextSoFar, Stopped
<1>7. Succeeded("writeText") => disk = call.text
  BY DEF SoFar, WriteTextSoFar, Succeeded
<1>8. Stopped("writeText") /\ call.status # "unopened" => IsPrefix(disk, call.text)
  BY <1>1, BeginsIsPrefix DEF SoFar, WriteTextSoFar, Stopped
<1> QED
  BY <1>2, <1>3, <1>4, <1>5, <1>6, <1>7, <1>8 DEF TransfersAreExact

(* A call that reports success has moved exactly the bytes it was asked to, *)
(* in order, and a text that failed to be written is on the disk as a       *)
(* beginning of itself: whatever the pieces, the errors and the spills of   *)
(* the streams that ReadExact, WriteAll and the two helpers go through.     *)
THEOREM Exact == Spec => []TransfersAreExact
<1>1. Init => SoFar
  BY InitSoFar
<1>2. IInv /\ SoFar /\ [Next]_vars => SoFar'
  BY NextSoFar
<1>3. IInv /\ SoFar => TransfersAreExact
  BY SoFarIsExact
<1>4. Spec => []IInv
  BY Invariance
<1> QED
  BY <1>1, <1>2, <1>3, <1>4, PTL DEF Spec
=============================================================================
