------------------------------- MODULE XlogBlock -------------------------------
(***************************************************************************)
(* LogBuffer (log/src/log_buffer.cc) over LogCrypt (log/crypt/log_crypt.cc)*)
(* in the mmap file, one memory write at a time: what is in the file when  *)
(* the process dies between two of them, what LogBuffer::__Fix makes of    *)
(* it, and what the decoder of the project reads from a flushed block.     *)
(*                                                                         *)
(* Memory is a header and Room cells.  A line is compressed by the deflate *)
(* stream of the block into a number of cells that depends on the line;    *)
(* the bytes themselves, the hours and the sequence number are abstracted. *)
(***************************************************************************)
EXTENDS Integers, Sequences, Selection

CONSTANTS
  Room,      \* cells of the block after the header
  CryptRoom, \* cells of crypt_buffer (4096 bytes)
  Sizes,     \* numbers of cells a line may be compressed to, none of them 0
  MaxLines, MaxCrashes  \* bounds of the model, not of the code

HeaderLen == 1     \* LogCrypt::GetHeaderLen, as one cell
PrefixLen == 2     \* sizeof(single_log_len)
MaxLength == HeaderLen + Room

Zero        == [t |-> "zero"]
End         == [t |-> "end"]                     \* kMagicEnd
Prefix(c)   == <<[t |-> "len", c |-> c], [t |-> "len2"]>>
Deflated(n, d) == [k \in 1..d |-> [t |-> "z", n |-> n, k |-> k, d |-> d]]

VARIABLES
  magic, loglen, cells,  \* the mmap file: start byte, length field, cells 1..Room
  length,                \* buff_.Length()
  stream, pending,       \* cstream_.state # NULL; output the stream still holds
  pc,                    \* inside Write or Flush
  crypt,                 \* crypt_buffer
  up,                    \* the process runs
  count, taken,          \* lines offered; lines Flush returned, decoded (history)
  crashes                \* bound

mem  == <<magic, loglen, cells>>
vars == <<magic, loglen, cells, length, stream, pending, pc, crypt,
          up, count, taken, crashes>>

Blank == [i \in 1..Room |-> Zero]

Init ==
  /\ magic = FALSE /\ loglen = 0 /\ cells = Blank
  /\ length = 0 /\ stream = FALSE /\ pending = <<>>
  /\ pc = "idle" /\ crypt = <<>> /\ up = TRUE
  /\ count = 0 /\ taken = <<>> /\ crashes = 0
-----------------------------------------------------------------------------
(* The decoder (log/crypt/decode_mars_log_file.py) on a block of len cells *)
(* of data: the singly prefixed pieces are put together and inflated.      *)
Pieces(s, len) ==
  LET from[i \in 1..(len + 1)] ==
        IF i > len \/ s[i].t # "len" THEN <<>>
        ELSE LET last == i + PrefixLen + s[i].c - 1
             IN SubSeq(s, i + PrefixLen, IF last < len THEN last ELSE len)
                \o (IF last < len THEN from[last + 1] ELSE <<>>)
  IN from

Payload(s, len) == Pieces(s, len)[1]

Continuous(s) ==
  \A i \in DOMAIN s :
    /\ s[i].t = "z"
    /\ IF s[i].k = 1 THEN i = 1 \/ s[i - 1].k = s[i - 1].d
                     ELSE i > 1 /\ s[i - 1] = [s[i] EXCEPT !.k = @ - 1]

(* A break in the stream is a decompress error: nothing of the block is    *)
(* read.  A line cut at the end of the stream is not a line.               *)
Decode(s, len) ==
  LET data == Payload(s, len)
      ends == Only(data, {c \in Members(data) : c.k = c.d})
  IN IF Continuous(data) THEN [i \in DOMAIN ends |-> ends[i].n] ELSE <<>>

(* What a restart at this moment would recover: __Fix, Flush, decode.      *)
Recoverable == IF magic /\ loglen <= Room THEN Decode(cells, loglen) ELSE <<>>

(* PtrBuffer::Write, memcpy: s goes to memory from the pos-th byte on; what *)
(* is written behind the block is not part of it.                          *)
Put(s, pos) ==
  cells' = [i \in 1..Room |-> LET at == i + HeaderLen - pos + 1
                              IN IF at \in DOMAIN s THEN s[at] ELSE cells[i]]
-----------------------------------------------------------------------------
(* LogBuffer::Write(_data, _length) of the next line                       *)

(* __Reset when the block is empty: clear, open a deflate stream, header.  *)
WriteBegin ==
  /\ up /\ pc = "idle" /\ count < MaxLines
  /\ pc' = "deflate" /\ count' = count + 1
  /\ IF length = 0
     THEN /\ magic' = TRUE /\ loglen' = 0 /\ cells' = Blank
          /\ stream' = TRUE /\ pending' = <<>> /\ length' = HeaderLen
     ELSE UNCHANGED <<mem, stream, pending, length>>
  /\ UNCHANGED <<crypt, up, taken, crashes>>

(* deflate: it fails without a stream (a recovered block) or without room, *)
(* and writes what fits otherwise; the rest stays in the stream.           *)
WriteDeflate(d) ==
  /\ up /\ pc = "deflate"
  /\ LET avail  == MaxLength - length
         output == pending \o Deflated(count, d)
         n      == IF Len(output) < avail THEN Len(output) ELSE avail
     IN IF stream /\ avail > 0
        THEN /\ pc' = "prefix"
             /\ Put(SubSeq(output, 1, n), length + 1)
             /\ pending' = SubSeq(output, n + 1, Len(output))
             /\ crypt' = SubSeq(output, 1, IF n < CryptRoom THEN n ELSE CryptRoom)
        ELSE pc' = "idle" /\ UNCHANGED <<cells, pending, crypt>>
  /\ UNCHANGED <<magic, loglen, length, stream, up, count, taken, crashes>>

(* Wrong order: the length field is raised before the data is written.     *)
WritePrefixEarlyLen ==
  /\ up /\ pc = "prefix"
  /\ pc' = "data"
  /\ Put(Prefix(Len(crypt)), length + 1)
  /\ loglen' = loglen + PrefixLen + Len(crypt)
  /\ UNCHANGED <<magic, length, stream, pending, crypt,
                 up, count, taken, crashes>>

(* The length of the piece, over the start of the compressed data ...      *)
WritePrefix ==
  /\ up /\ pc = "prefix"
  /\ pc' = "data"
  /\ Put(Prefix(Len(crypt)), length + 1)
  /\ UNCHANGED <<magic, loglen, length, stream, pending, crypt,
                 up, count, taken, crashes>>

(* ... and behind it the data again, from crypt_buffer.  min(_nLen,        *)
(* max_length_ - _nPos) wraps around when the prefix has crossed the end.  *)
WriteData ==
  /\ up /\ pc = "data"
  /\ pc' = "length"
  /\ Put(crypt, length + PrefixLen + 1)
  /\ UNCHANGED <<magic, loglen, length, stream, pending, crypt,
                 up, count, taken, crashes>>

(* buff_.Length(before_len, before_len), capped at the maximum.            *)
NewLength == length + PrefixLen + Len(crypt)

WriteLength ==
  /\ up /\ pc = "length"
  /\ pc' = "loglen"
  /\ length' = IF NewLength > MaxLength THEN MaxLength ELSE NewLength
  /\ UNCHANGED <<mem, stream, pending, crypt, up, count, taken, crashes>>

(* UpdateLogLen: from here on the line survives the process.               *)
WriteLogLen ==
  /\ up /\ pc = "loglen"
  /\ pc' = "idle"
  /\ loglen' = loglen + PrefixLen + Len(crypt)
  /\ UNCHANGED <<magic, cells, length, stream, pending, crypt,
                 up, count, taken, crashes>>
-----------------------------------------------------------------------------
(* LogBuffer::Flush                                                        *)

(* The stream ends; an empty block is only cleared.                        *)
FlushBegin ==
  /\ up /\ pc = "idle"
  /\ stream' = FALSE /\ pending' = <<>>
  /\ pc' = IF length >= HeaderLen /\ magic /\ loglen > 0 THEN "tail" ELSE "clear"
  /\ UNCHANGED <<mem, length, crypt, up, count, taken, crashes>>

(* __Flush: the tail byte behind the data, with no test of the room left.  *)
FlushTail ==
  /\ up /\ pc = "tail"
  /\ pc' = "copy"
  /\ Put(<<End>>, length + 1)
  /\ length' = IF length + 1 > MaxLength THEN MaxLength ELSE length + 1
  /\ UNCHANGED <<magic, loglen, stream, pending, crypt,
                 up, count, taken, crashes>>

(* The copy and the first byte that __Clear resets: before it a restart    *)
(* finds the block, after it only the caller has the lines.  A copy whose  *)
(* tail byte is not where the length field says is skipped by the decoder. *)
FlushCopy ==
  /\ up /\ pc = "copy"
  /\ pc' = "clear"
  /\ LET copied == length - HeaderLen
         good   == loglen + 1 <= copied /\ cells[loglen + 1] = End
     IN taken' = IF good THEN taken \o Decode(cells, loglen) ELSE taken
  /\ magic' = FALSE
  /\ UNCHANGED <<loglen, cells, length, stream, pending, crypt,
                 up, count, crashes>>

(* Wrong clear: only the volatile length is reset.                         *)
FlushClearLengthOnly ==
  /\ up /\ pc = "clear"
  /\ pc' = "idle"
  /\ magic' = (loglen > 0) /\ length' = 0
  /\ UNCHANGED <<loglen, cells, stream, pending, crypt, up, count, taken, crashes>>

(* The rest of __Clear.                                                    *)
FlushClear ==
  /\ up /\ pc = "clear"
  /\ pc' = "idle"
  /\ magic' = FALSE /\ loglen' = 0 /\ cells' = Blank /\ length' = 0
  /\ UNCHANGED <<stream, pending, crypt, up, count, taken, crashes>>
-----------------------------------------------------------------------------
(* The process dies between two writes; the mmap file stays.               *)
Crash ==
  /\ up /\ crashes < MaxCrashes
  /\ up' = FALSE /\ crashes' = crashes + 1
  /\ length' = 0 /\ stream' = FALSE /\ pending' = <<>>
  /\ pc' = "idle" /\ crypt' = <<>>
  /\ UNCHANGED <<mem, count, taken>>

(* The constructor of LogBuffer over the mapped file: __Fix takes the      *)
(* length from the header if there is one, and opens no deflate stream.    *)
Restart ==
  /\ ~up /\ up' = TRUE
  /\ length' = IF magic THEN HeaderLen + loglen ELSE 0
  /\ UNCHANGED <<mem, stream, pending, pc, crypt, count, taken, crashes>>

Next ==
  \/ WriteBegin \/ \E d \in Sizes : WriteDeflate(d)
  \/ WritePrefix \/ WriteData \/ WriteLength \/ WriteLogLen
  \/ FlushBegin \/ FlushTail \/ FlushCopy \/ FlushClear
  \/ Crash \/ Restart

Spec == Init /\ [][Next]_vars
-----------------------------------------------------------------------------
(* Properties                                                              *)

(* Types; and between two calls the volatile length agrees with the header *)
(* in the mmap file, from which a restart takes it.                        *)
TypeOK ==
  /\ magic \in BOOLEAN /\ stream \in BOOLEAN /\ up \in BOOLEAN
  /\ loglen \in Nat /\ length \in 0..MaxLength /\ DOMAIN cells = 1..Room
  /\ pc \in {"idle", "deflate", "prefix", "data", "length", "loglen", "tail", "copy", "clear"}
  /\ count \in 0..MaxLines /\ crashes \in 0..MaxCrashes
  /\ Len(crypt) <= CryptRoom
  /\ up /\ pc = "idle" => length = IF magic THEN HeaderLen + loglen ELSE 0

(* The lines in flight are only the one Write is working on: the block is  *)
(* at any moment a set of whole lines, and one the deflate stream agrees   *)
(* with (nothing half written is ever behind the length field).            *)
AB == INSTANCE AtomicBlock WITH
        block <- Recoverable,
        count <- IF pc \in {"deflate", "prefix", "data", "length", "loglen"} THEN count - 1 ELSE count

(* Write and Flush are atomic for whoever restarts from the mmap file: a   *)
(* crash at any byte finds the lines whose Write ended, whole, in order,   *)
(* and never one that Flush already gave away.                             *)
ImplementsBlock == AB!Spec

(* ASSERT(_nLenght <= MaxLength()) of PtrBuffer::Length, for the length    *)
(* LogBuffer::Write sets.  deflate may fill the block to its end, and the  *)
(* prefix moves what it wrote by two bytes.                                *)
LengthAssert == pc = "length" => NewLength <= MaxLength
=============================================================================
