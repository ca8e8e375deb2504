------------------------------ MODULE GGUFParser ------------------------------
(***************************************************************************)
(* GGUFParser (include/core/gguf_parser.h, src/core/gguf_parser.cpp): the  *)
(* constructor reads a header field by field through one ifstream, and     *)
(* readTensorData later reads tensors through the same stream.  The file   *)
(* may end anywhere.  A read past its end sets the fail bit of the stream, *)
(* which nothing clears.  A constructor that throws leaves no object, so   *)
(* that reads up to the next decision are one step.                        *)
(***************************************************************************)
EXTENDS GGUFFile

CONSTANTS
  Documents,     \* the documents the files were written from
  Uint32Values,  \* number of values of a uint32_t
  FloatUnits,    \* units in which floating-point numbers are counted, per 1
  MaxReads       \* bound: calls of readTensorData

ASSUME Uint32ValuesIsNat == Uint32Values \in Nat \ {0}
ASSUME FloatUnitsIsNat == FloatUnits \in Nat \ {0}
ASSUME MaxReadsIsNat == MaxReads \in Nat

(* The kinds of JSON values that convert to a number, and the whole number *)
(* such a value has: a boolean is 0 or 1, a float loses its fraction.      *)
Numbers == {"number", "float", "boolean"}

Whole(json) ==
  CASE json[1] = "boolean" -> IF json[2] THEN 1 ELSE 0
    [] json[1] = "float" -> IF json[2] < 0 THEN -((-json[2]) \div FloatUnits)
                            ELSE json[2] \div FloatUnits
    [] OTHER -> json[2]

(* The writers keep to the format: text is text, there are as many entries *)
(* and tensors as the counts say, and the data is aligned as the metadata  *)
(* say, or to 32 if they do not.                                           *)
ASSUME DocumentsAreWritten ==
  \A d \in Documents :
    /\ IsText(d.magic) /\ d.version \in Nat
    /\ d.kvs \in Seq(STRING \X Values)
    /\ \A n \in DOMAIN d.kvs : IsText(d.kvs[n][1])
    /\ d.tensors \in Seq([name : STRING, dims : Seq(Nat), dtype : DataTypes])
    /\ \A i \in DOMAIN d.tensors : IsText(d.tensors[i].name)
    /\ d.alignment \in 1 .. Uint32Values - 1
    /\ LET meant == MeantUpTo(d.kvs, Len(d.kvs))
       IN  IF "general.alignment" \in DOMAIN meant
           THEN meant["general.alignment"][1] \in Numbers =>
                  Whole(meant["general.alignment"]) = d.alignment
           ELSE d.alignment = 32

VARIABLES
  doc, fields, length,  \* the document, the fields of its header, the file's size
  at, pos,              \* the next field and the position of the stream
  failbit,              \* the fail bit of the stream
  phase,                \* "open", "entry", "value", "tensor", "ready", "failed"
  tensor_count, kv_count,
  key, value_type,      \* the metadata entry being read
  frames,               \* the arrays being read, the innermost last
  entries,              \* metadata entries read
  meta_data,            \* GGUFInfo::meta_data: values by key
  tensor_info_vec,      \* GGUFInfo::tensor_info_vec
  data_offset,          \* GGUFParser::data_offset
  offset,               \* GGUFInfo::offset
  reads                 \* the calls of readTensorData: tensor, from, to, ok

file   == <<doc, fields, length>>
stream == <<at, pos, failbit>>
header == <<tensor_count, kv_count>>
entry  == <<key, value_type, frames, entries, meta_data>>
info   == <<tensor_info_vec, data_offset, offset>>
vars   == <<file, stream, phase, header, entry, info, reads>>

Init ==
  /\ doc \in Documents
  /\ fields = HeaderFields(doc)
  /\ length \in 0 .. WholeLength(doc)
  /\ at = 1 /\ pos = 0 /\ failbit = FALSE
  /\ phase = "open"
  /\ tensor_count = 0 /\ kv_count = 0
  /\ key = "" /\ value_type = "" /\ frames = <<>> /\ entries = 0
  /\ meta_data = <<>>
  /\ tensor_info_vec = <<>> /\ data_offset = 0 /\ offset = 0
  /\ reads = <<>>

-----------------------------------------------------------------------------
(* The next n fields, reading them, and whether the file holds them: every *)
(* reader throws when it does not.                                         *)
Coming(n) == SubSeq(fields, at, at + n - 1)

(* Wrong: the outcome of a read is not looked at. *)
CanReadAlways(n) == at + n - 1 <= Len(fields)

CanRead(n) == at + n - 1 <= Len(fields) /\ pos + Bytes(Coming(n)) <= length

Read(n) ==
  /\ at' = at + n
  /\ pos' = pos + Bytes(Coming(n))
  /\ UNCHANGED failbit

(* Wrong: older versions are let through. *)
SupportedUpToThree(version) == version <= 3

Supported(version) == version = 3

(* The magic, the version and the counts; the counts are read before the   *)
(* version is looked at.                                                   *)
HeaderAcceptable ==
  /\ CanRead(4)
  /\ fields[at].value = "GGUF"
  /\ Supported(fields[at + 1].value)

ReadHeader ==
  /\ phase = "open"
  /\ HeaderAcceptable
  /\ Read(4)
  /\ tensor_count' = fields[at + 2].value
  /\ kv_count' = fields[at + 3].value
  /\ phase' = "entry"
  /\ UNCHANGED <<file, entry, info, reads>>

ReadKey ==
  /\ phase = "entry"
  /\ entries < kv_count
  /\ CanRead(2)
  /\ Read(2)
  /\ key' = fields[at].value
  /\ value_type' = fields[at + 1].value
  /\ phase' = "value"
  /\ UNCHANGED <<file, header, frames, entries, meta_data, info, reads>>

EndMetadata ==
  /\ phase = "entry"
  /\ entries = kv_count
  /\ phase' = "tensor"
  /\ UNCHANGED <<file, stream, header, entry, info, reads>>

-----------------------------------------------------------------------------
(* readMetadataValue.  A JSON value is a pair of its kind and its content. *)
Scalars ==
  Signed \cup Floating \cup {"BOOL", "STRING", "UINT8", "UINT16", "UINT32", "UINT64"}

JsonOf(type, raw) ==
  CASE type = "STRING" -> <<"string", raw>>
    [] type = "BOOL"   -> <<"boolean", raw # 0>>
    [] type \in Floating -> <<"float", raw>>
    [] type \in Signed /\ raw >= SignBit(type) -> <<"number", raw - 2 * SignBit(type)>>
    [] OTHER -> <<"number", raw>>

Innermost == Last(frames)

ArrayEnded == frames # <<>> /\ Innermost.left = 0

ExpectedType == IF frames = <<>> THEN value_type ELSE Innermost.elem

(* A value is complete: it is the value of the key, or the next item of    *)
(* the innermost of the arrays that are still open.                        *)
Deliver(json, open) ==
  IF open = <<>>
  THEN /\ meta_data' =
            [k \in DOMAIN meta_data \cup {key} |-> IF k = key THEN json ELSE meta_data[k]]
       /\ entries' = entries + 1
       /\ frames' = <<>>
       /\ phase' = "entry"
  ELSE /\ LET array == Last(open)
          IN  frames' = Append(Front(open),
                [array EXCEPT !.left = @ - 1, !.items = Append(@, json)])
       /\ UNCHANGED <<phase, entries, meta_data>>

ReadScalar ==
  /\ phase = "value" /\ ~ArrayEnded
  /\ ExpectedType \in Scalars
  /\ CanRead(1)
  /\ Read(1)
  /\ Deliver(JsonOf(ExpectedType, fields[at].value), frames)
  /\ UNCHANGED <<file, header, key, value_type, info, reads>>

OpenArray ==
  /\ phase = "value" /\ ~ArrayEnded
  /\ ExpectedType = "ARRAY"
  /\ CanRead(2)
  /\ Read(2)
  /\ frames' = Append(frames,
       [elem |-> fields[at].value, left |-> fields[at + 1].value, items |-> <<>>])
  /\ UNCHANGED <<file, phase, header, key, value_type, entries, meta_data, info, reads>>

CloseArray ==
  /\ phase = "value" /\ ArrayEnded
  /\ Deliver(<<"array", Innermost.items>>, Front(frames))
  /\ UNCHANGED <<file, stream, header, key, value_type, info, reads>>

ValueReadable ==
  \/ ExpectedType \in Scalars /\ CanRead(1)
  \/ ExpectedType = "ARRAY" /\ CanRead(2)

-----------------------------------------------------------------------------
(* Wrong: the dimensions are kept in the order of the file. *)
DimensionsAsStored(n_dims) == [d \in 1 .. n_dims |-> fields[at + 1 + d].value]

(* The file holds the fastest dimension first, the info holds it last. *)
Dimensions(n_dims) == [d \in 1 .. n_dims |-> fields[at + 2 + n_dims - d].value]

TensorInfoReadable == CanRead(2) /\ CanRead(4 + fields[at + 1].value)

ReadTensorInfo ==
  /\ phase = "tensor"
  /\ Len(tensor_info_vec) < tensor_count
  /\ TensorInfoReadable
  /\ LET n_dims == fields[at + 1].value
     IN  /\ Read(4 + n_dims)
         /\ tensor_info_vec' = Append(tensor_info_vec,
              [name       |-> fields[at].value,
               dimensions |-> Dimensions(n_dims),
               dtype      |-> fields[at + 2 + n_dims].value,
               offset     |-> fields[at + 3 + n_dims].value])
  /\ UNCHANGED <<file, phase, header, entry, data_offset, offset, reads>>

(* The conversion to a uint32_t is defined for every integer, and for the  *)
(* floats that the format allows for an alignment.                         *)
Alignment ==
  IF "general.alignment" \in DOMAIN meta_data
  THEN Whole(meta_data["general.alignment"]) % Uint32Values ELSE 32

(* get<uint32_t>() throws for a string or an array. *)
AlignmentUsable ==
  "general.alignment" \in DOMAIN meta_data =>
    meta_data["general.alignment"][1] \notin {"string", "array"}

(* Wrong: a header that ends on the boundary is padded all the same. *)
AlwaysPadded(raw_offset) == raw_offset + (Alignment - (raw_offset % Alignment))

Padded(raw_offset) ==
  raw_offset + ((Alignment - (raw_offset % Alignment)) % Alignment)

FinishParse ==
  /\ phase = "tensor"
  /\ Len(tensor_info_vec) = tensor_count
  /\ AlignmentUsable
  /\ data_offset' = Padded(pos)
  /\ offset' = Padded(pos) % Uint32Values
  /\ phase' = "ready"
  /\ UNCHANGED <<file, stream, header, entry, tensor_info_vec, reads>>

(* Every exception of the constructor. *)
Throw ==
  /\ \/ phase = "open" /\ ~HeaderAcceptable
     \/ phase = "entry" /\ entries < kv_count /\ ~CanRead(2)
     \/ phase = "value" /\ ~ArrayEnded /\ ~ValueReadable
     \/ phase = "tensor" /\ Len(tensor_info_vec) < tensor_count /\ ~TensorInfoReadable
     \/ phase = "tensor" /\ Len(tensor_info_vec) = tensor_count /\ ~AlignmentUsable
  /\ phase' = "failed"
  /\ UNCHANGED <<file, stream, header, entry, info, reads>>

-----------------------------------------------------------------------------
(* dataTypeSize: all types of super-blocks, and two of blocks of 32, are   *)
(* given 256 bytes.                                                        *)
DataTypeSize(dtype) ==
  CASE dtype \in DOMAIN ElementBytes -> ElementBytes[dtype]
    [] dtype \in DOMAIN SuperBlockBytes \cup {"IQ4_NL", "MXFP4"} -> 256
    [] dtype = "Q4_0" -> 8
    [] dtype = "Q4_1" -> 12
    [] dtype = "Q5_0" -> 10
    [] dtype = "Q5_1" -> 14
    [] dtype = "Q8_0" -> 12
    [] dtype = "Q8_1" -> 16
    [] OTHER -> 0

(* TensorInfo::bytes, the size a client reads. *)
InfoBytes(t) == DataTypeSize(t.dtype) * Product(t.dimensions)

(* Wrong: the stream is made good again before the seek. *)
SeeksAndReadsAfterClear(from, to) == to <= length \/ from = to

(* seekg does nothing and read fails once the fail bit is set; seeking     *)
(* beyond the end succeeds, and a read there fails unless it is of nothing.*)
SeeksAndReads(from, to) == ~failbit /\ (to <= length \/ from = to)

ReadTensorData(i) ==
  /\ phase = "ready"
  /\ Len(reads) < MaxReads
  /\ LET from == tensor_info_vec[i].offset + data_offset
         to   == from + InfoBytes(tensor_info_vec[i])
         ok   == SeeksAndReads(from, to)
     IN  /\ reads' = Append(reads, [tensor |-> i, from |-> from, to |-> to, ok |-> ok])
         /\ failbit' = ~ok
         /\ pos' = IF ok THEN to ELSE pos
  /\ UNCHANGED <<file, at, phase, header, entry, info>>

Parse ==
  \/ ReadHeader
  \/ ReadKey
  \/ ReadScalar
  \/ OpenArray
  \/ CloseArray
  \/ EndMetadata
  \/ ReadTensorInfo
  \/ FinishParse
  \/ Throw

Next == Parse \/ \E i \in DOMAIN tensor_info_vec : ReadTensorData(i)

Spec == Init /\ [][Next]_vars

-----------------------------------------------------------------------------
(* What the metadata of the document mean. *)
MeantMetadata == MeantUpTo(doc.kvs, Len(doc.kvs))

TypeOK ==
  /\ at \in 1 .. Len(fields) + 1
  /\ pos \in Nat /\ (phase # "ready" => pos <= length)
  /\ failbit \in BOOLEAN
  /\ phase \in {"open", "entry", "value", "tensor", "ready", "failed"}
  /\ tensor_count \in Nat /\ kv_count \in Nat
  /\ entries \in 0 .. kv_count
  /\ \A n \in DOMAIN frames : frames[n].left \in Nat
  /\ Len(tensor_info_vec) <= tensor_count
  /\ data_offset \in Nat /\ offset \in 0 .. Uint32Values - 1
  /\ Len(reads) <= MaxReads

(* A header of version 3 with metadata whose types it knows. *)
WellFormed ==
  /\ doc.magic = "GGUF" /\ doc.version = 3
  /\ \A n \in DOMAIN doc.kvs : Encoding[doc.kvs[n][2]].readable
  /\ "general.alignment" \in DOMAIN MeantMetadata =>
       MeantMetadata["general.alignment"][1] \in Numbers

(***************************************************************************)
(* The constructor accepts every file whose version-3 header is there to   *)
(* its last byte and rejects every other, wherever the file is cut off and *)
(* however deep the arrays are nested.                                     *)
(***************************************************************************)
AcceptsExactlyWholeHeaders ==
  /\ phase = "ready"  => WellFormed /\ HeaderBytes(doc) <= length
  /\ phase = "failed" => ~(WellFormed /\ HeaderBytes(doc) <= length)

(***************************************************************************)
(* What an accepted file was written from is what the info says: every     *)
(* value with its sign and nesting, the last entry of a repeated key, and  *)
(* the dimensions of every tensor with the slowest first.                  *)
(***************************************************************************)
ParsedAsWritten ==
  phase = "ready" =>
    /\ meta_data = MeantMetadata
    /\ Len(tensor_info_vec) = Len(doc.tensors)
    /\ \A i \in DOMAIN doc.tensors :
         /\ tensor_info_vec[i].name = doc.tensors[i].name
         /\ tensor_info_vec[i].dtype = doc.tensors[i].dtype
         /\ tensor_info_vec[i].dimensions = Reverse(doc.tensors[i].dims)

(* Tensors whose elements each have bytes of their own. *)
IsPlain(i) == doc.tensors[i].dtype \in DOMAIN ElementBytes

(***************************************************************************)
(* readTensorData reads from where the writer put the first byte of the    *)
(* tensor, whatever the alignment, the types of the tensors before it and  *)
(* the reads before.  Of a tensor of a plain type a successful read is all *)
(* its bytes and no more.  Of the size of the tensors in blocks nothing is *)
(* said: bytes() does not give it.                                         *)
(***************************************************************************)
ReadsAreTheTensors ==
  \A n \in DOMAIN reads :
    /\ reads[n].from = TensorStart(doc, reads[n].tensor)
    /\ reads[n].ok /\ IsPlain(reads[n].tensor) =>
         reads[n].to = TensorEnd(doc, reads[n].tensor)

(* A read that asks for something beyond the end of the file. *)
MeetsEnd(read) == read.from # read.to /\ read.to > length

(***************************************************************************)
(* The fail bit outlives the call that set it: reads succeed up to the     *)
(* first that meets the end of the file, and from then on none does, not   *)
(* even of a tensor that the file holds or of one without elements.  Before*)
(* that, a tensor without elements is read beyond the end of the file too. *)
(***************************************************************************)
ReadsUntilFirstFailure ==
  \A n \in DOMAIN reads :
    reads[n].ok <=> \A m \in 1 .. n : ~MeetsEnd(reads[m])

=============================================================================
