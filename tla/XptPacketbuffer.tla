-------------------------- MODULE XptPacketbuffer --------------------------
(***************************************************************************)
(* xptPacketbuffer.cpp and what the packet handlers make of it: a packet   *)
(* is written field by field into one buffer, travels whole or cut short,  *)
(* and is read field by field out of another, which still holds the bytes  *)
(* of the packet before.  Positions are counted from the end of the header; *)
(* bytes are digits to a small base.                                       *)
(***************************************************************************)
EXTENDS Naturals, Sequences

CONSTANTS
  Base,         (* 256: a byte is below it                                  *)
  WriteLimit,   (* bytes the writer's buffer has room for                   *)
  ReadLimit,    (* bytes the reader's buffer has room for at first          *)
  Layouts,      (* the packets written: sequences of fields                 *)
  Handlers      (* the ops whose handler is called, with the fields it reads *)

(* A field is an integer of so many bytes, an array of so many, or a string *)
(* with its maxStringLength.  check: the handler looks at readError after  *)
(* it.                                                                     *)
Kinds == {"int", "data", "string"}
Field == [kind : Kinds, size : Nat \ {0}, check : BOOLEAN]

ASSUME BufferAssumption ==
  /\ Base \in Nat \ {0, 1} /\ WriteLimit \in Nat /\ ReadLimit \in Nat
  /\ Layouts \subseteq Seq(Field)
  /\ \A op \in DOMAIN Handlers : Handlers[op] \in Layouts

VARIABLES
  stage,        (* "write", "read", "done"                                  *)
  layout,       (* the fields of the packet                                 *)
  k,            (* the field that is next                                   *)
  values,       (* the values given to the writer, one per field            *)
  sendBuffer,   (* the bytes written                                        *)
  writeFailed,  (* history: some write set the error                        *)
  cut,          (* history: bytes missing at the end of what travelled      *)
  buffer,       (* the reader's buffer: bufferLimit bytes                   *)
  bufferSize, parserIndex, error,
  results,      (* the values read                                          *)
  readFailed,   (* history: some read set the error                         *)
  verdict       (* what the handler returned, or None                       *)

writeVars == <<values, sendBuffer, writeFailed>>
vars == <<stage, layout, k, writeVars, cut, buffer, bufferSize, parserIndex, error,
          results, readFailed, verdict>>

None == "none"
bufferLimit == Len(buffer)

-----------------------------------------------------------------------------
(* Bytes. *)

(* The numbers below Power[w] fit into w bytes. *)
Power[w \in Nat] == IF w = 0 THEN 1 ELSE Base * Power[w - 1]

(* Little endian, in w bytes; what does not fit is cut off.  Left: without  *)
(* the lowest bytes.                                                       *)
Left(n, w) ==
  LET left[b \in 0..w] == IF b = 0 THEN n ELSE left[b - 1] \div Base IN left
Bytes(n, w) == [b \in 1..w |-> Left(n, w)[b - 1] % Base]

(* The number whose bytes are s; High: of the highest ones. *)
High(s) ==
  LET high[b \in 0..Len(s)] ==
        IF b = 0 THEN 0 ELSE high[b - 1] * Base + s[Len(s) + 1 - b]
  IN high
Number(s) == High(s)[Len(s)]

(* A string or array of n bytes, none of them 0: the data is its length. *)
Text(n) == [b \in 1..n |-> 1 + (b % (Base - 1))]

(* Bytes of the length prefix. *)
PrefixSize(max) == IF max - 1 < Base THEN 1 ELSE 2
ValidMax(max) == max # 0 /\ max < Base * Base

(* The values a field may be given; a string's and an array's is a length. *)
ValuesOf(fd) ==
  CASE fd.kind = "int" -> {1, Power[fd.size] - 1}
    [] fd.kind = "data" -> {fd.size}
    [] OTHER -> 0..fd.size

-----------------------------------------------------------------------------
(* Writing. *)

Init ==
  /\ stage = "write" /\ layout \in Layouts /\ k = 1
  /\ values = <<>> /\ sendBuffer = <<>> /\ writeFailed = FALSE
  /\ cut = 0
  /\ buffer = [b \in 1..ReadLimit |-> 1] /\ bufferSize = 0
  /\ parserIndex = 0 /\ error = FALSE /\ results = <<>> /\ readFailed = FALSE
  /\ verdict = None

(* What writing v appends, for a write that is not refused. *)
Encoded(fd, v) ==
  CASE fd.kind = "int" -> Bytes(v, fd.size)
    [] fd.kind = "data" -> Text(v)
    [] OTHER -> Bytes(v, PrefixSize(fd.size)) \o Text(v)

(* The length without the final 0 that maxStringLength counts. *)
StringTooLong(fd, v) == fd.kind = "string" /\ (~ValidMax(fd.size) \/ v > fd.size - 1)

Refused(fd, v) ==
  StringTooLong(fd, v) \/ Len(sendBuffer) + Len(Encoded(fd, v)) > WriteLimit

(* A write that is refused leaves the buffer alone, and a later one that   *)
(* succeeds sets the error flag to false.                                  *)
Write(v) ==
  /\ stage = "write" /\ k <= Len(layout)
  /\ values' = Append(values, v)
  /\ IF Refused(layout[k], v)
     THEN writeFailed' = TRUE /\ UNCHANGED sendBuffer
     ELSE /\ sendBuffer' = sendBuffer \o Encoded(layout[k], v)
          /\ UNCHANGED writeFailed
  /\ k' = k + 1
  /\ UNCHANGED <<stage, layout, cut, buffer, bufferSize, parserIndex, error, results,
                 readFailed, verdict>>

-----------------------------------------------------------------------------
(* The packet arrives: the header's size, then the bytes. *)

(* Mutant of Grown: the buffer stays as it is. *)
GrownNever(size) == buffer
(* xptPacketbuffer_changeSizeLimit, when the packet is larger. *)
Grown(size) ==
  IF size > bufferLimit THEN buffer \o [b \in 1..(size - bufferLimit) |-> 1]
  ELSE buffer

Receive(c) ==
  /\ stage = "write" /\ k > Len(layout)
  /\ c <= Len(sendBuffer)
  /\ LET size == Len(sendBuffer) - c IN
       /\ buffer' = [b \in DOMAIN Grown(size) |->
                       IF b <= size THEN sendBuffer[b] ELSE Grown(size)[b]]
       /\ bufferSize' = size
  /\ cut' = c
  /\ stage' = "read" /\ k' = 1
  /\ parserIndex' = 0 /\ error' = FALSE /\ results' = <<>> /\ readFailed' = FALSE
  /\ verdict' = None
  /\ UNCHANGED <<layout, writeVars>>

-----------------------------------------------------------------------------
(* Reading.  Each operator takes the cursor where the read begins, and is  *)
(* what the read leaves: cursor, error flag and value.                     *)

Outcome(index, failed, value) == [index |-> index, failed |-> failed, value |-> value]
Piece(at, n) == [b \in 1..n |-> buffer[at + b]]

(* Mutants of Short: the wrong bound; off by one. *)
ShortInBuffer(at, n) == at + n > bufferLimit
ShortAtEnd(at, n) == at + n >= bufferSize
Short(at, n) == at + n > bufferSize

(* readU8 .. readU64, readFloat: the cursor goes to the end on an error. *)
ReadInt(at, w) ==
  IF Short(at, w) THEN Outcome(bufferSize, TRUE, 0)
  ELSE Outcome(at + w, FALSE, Number(Piece(at, w)))

ReadData(at, n) ==
  IF Short(at, n) THEN Outcome(bufferSize, TRUE, <<>>)
  ELSE Outcome(at + n, FALSE, Piece(at, n))

(* Longer than the reader takes, though the writer writes it. *)
LengthInvalid(n, max) == n >= max - 1

(* On an error the cursor stays behind the prefix. *)
ReadString(at, max) ==
  IF ~ValidMax(max) THEN Outcome(at, TRUE, <<>>)
  ELSE LET prefix == ReadInt(at, PrefixSize(max)) n == prefix.value IN
         IF prefix.failed \/ LengthInvalid(n, max) \/ Short(prefix.index, n)
         THEN Outcome(prefix.index, TRUE, <<>>)
         ELSE Outcome(prefix.index + n, FALSE, Piece(prefix.index, n))

ReadOf(fd) ==
  CASE fd.kind = "int" -> ReadInt(parserIndex, fd.size)
    [] fd.kind = "data" -> ReadData(parserIndex, fd.size)
    [] OTHER -> ReadString(parserIndex, fd.size)

(* A handler returns at a checked field that fails; the error flag of a    *)
(* field that is not checked is overwritten by the next.                   *)
Read ==
  /\ stage = "read" /\ k <= Len(layout)
  /\ LET out == ReadOf(layout[k]) IN
       /\ parserIndex' = out.index
       /\ error' = out.failed
       /\ results' = Append(results, out.value)
       /\ readFailed' = (readFailed \/ out.failed)
       /\ IF layout[k].check /\ out.failed
          THEN verdict' = "refused" /\ stage' = "done"
          ELSE UNCHANGED <<verdict, stage>>
  /\ k' = k + 1
  /\ UNCHANGED <<layout, writeVars, cut, buffer, bufferSize>>

Accept ==
  /\ stage = "read" /\ k > Len(layout)
  /\ verdict' = "handled" /\ stage' = "done"
  /\ UNCHANGED <<layout, k, writeVars, cut, buffer, bufferSize, parserIndex, error,
                 results, readFailed>>

(* The next packet, into the same buffers.  What the packet before left in *)
(* the reader's is abstracted to one byte throughout.                      *)
NextPacket ==
  /\ stage = "done"
  /\ stage' = "write" /\ layout' \in Layouts /\ k' = 1
  /\ values' = <<>> /\ sendBuffer' = <<>> /\ writeFailed' = FALSE
  /\ cut' = 0 /\ parserIndex' = 0 /\ error' = FALSE /\ results' = <<>>
  /\ readFailed' = FALSE /\ verdict' = None
  /\ bufferSize' = 0 /\ \E stale \in 0..(Base - 1) : buffer' = [b \in DOMAIN buffer |-> stale]

Next ==
  \/ k <= Len(layout) /\ \E v \in ValuesOf(layout[k]) : Write(v)
  \/ \E c \in 0..Len(sendBuffer) : Receive(c)
  \/ Read \/ Accept \/ NextPacket

Spec == Init /\ [][Next]_vars
-----------------------------------------------------------------------------
(* The value of a field as the reader returns it. *)
AsRead(fd, v) == IF fd.kind = "int" THEN v ELSE Text(v)

IsRoundTrip ==
  /\ ~readFailed /\ verdict = "handled"
  /\ results = [j \in DOMAIN layout |-> AsRead(layout[j], values[j])]

(* A packet that was written without an error, and arrives whole, is read  *)
(* back as it was written, at every boundary of buffer and length, if and  *)
(* only if no string has the greatest length: the writer takes it and the  *)
(* reader, with the same maxStringLength, does not                         *)
(* (xptPacketbuffer.cpp:40-380).                                           *)
LongestStrings ==
  {j \in DOMAIN layout : layout[j].kind = "string" /\ values[j] = layout[j].size - 1}

RoundTrip ==
  stage = "done" /\ ~writeFailed /\ cut = 0 => (IsRoundTrip <=> LongestStrings = {})

(* No access outside the buffers, and none to what a packet before left in *)
(* the reader's buffer (xptPacketbuffer.cpp:31-37, 63-380).                *)
CursorInBounds ==
  /\ Len(sendBuffer) <= WriteLimit
  /\ stage = "read" => parserIndex <= bufferSize /\ bufferSize <= bufferLimit

(* What the handlers return on a packet cut short, as XptClient has it: a  *)
(* packet with a part missing that a handler checks is refused             *)
(* (xptClientPacketHandler.cpp:7-186).                                     *)
CheckedFields == {j \in DOMAIN layout : layout[j].check}
Ends ==   (* where the fields end in the whole packet *)
  LET ends[n \in 0..Len(values)] ==
        IF n = 0 THEN 0 ELSE ends[n - 1] + Len(Encoded(layout[n], values[n]))
  IN ends
FieldEnd(j) == Ends[j]

CutRefused ==
  stage = "done" /\ ~writeFailed /\ layout \in {Handlers[op] : op \in DOMAIN Handlers} =>
    \A j \in CheckedFields :
      (bufferSize < FieldEnd(j)
       /\ \A h \in 1..(j - 1) : layout[h].kind = "string" => layout[h].check)
        => verdict = "refused"
=============================================================================
