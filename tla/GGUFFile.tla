------------------------------- MODULE GGUFFile -------------------------------
(***************************************************************************)
(* What a GGUF file holds, as far as the parser of src/core/gguf_parser.cpp*)
(* depends on it.  Files are written by other programs; this module says   *)
(* which fields, in which order and of which size, such a program writes   *)
(* for a document, and where it puts the data of the tensors.              *)
(*                                                                         *)
(* A document is a record of magic, version, kvs (pairs of a key and a     *)
(* value), tensors (records of name, dims with the fastest dimension       *)
(* first, and dtype) and alignment.  A value is a record of type and       *)
(* - num, the number meant, for the scalar types,                          *)
(* - text for "STRING",                                                    *)
(* - elem, the type of the items, and items for "ARRAY".                   *)
(***************************************************************************)
EXTENDS Integers, Sequences, FiniteSets, SequencesExt

CONSTANT Values   \* the metadata values in use, with the items of arrays

(* BFLOAT16 stands for the types of later formats. *)
Signed == {"INT8", "INT16", "INT32", "INT64"}

Unsigned == {"UINT8", "UINT16", "UINT32", "UINT64", "BFLOAT16"}

Floating == {"FLOAT32", "FLOAT64"}

ValueTypes == Signed \cup Unsigned \cup Floating \cup {"BOOL", "STRING", "ARRAY"}

(* The bytes of a scalar. *)
ScalarBytes ==
  [BOOL |-> 1, UINT8 |-> 1, INT8 |-> 1, UINT16 |-> 2, INT16 |-> 2,
   UINT32 |-> 4, INT32 |-> 4, FLOAT32 |-> 4,
   UINT64 |-> 8, INT64 |-> 8, FLOAT64 |-> 8, BFLOAT16 |-> 2, MAGIC |-> 4]

SignBit(type) == 2 ^ (8 * ScalarBytes[type] - 1)

IsText(s) == s \in STRING /\ Len(s) \in Nat

(* A number fits its type.  A floating-point number is counted in units of *)
(* which each has a whole number; its bits are not spelled out.            *)
IsValue(v) ==
  \/ v.type = "STRING" /\ IsText(v.text)
  \/ /\ v.type = "ARRAY" /\ v.elem \in ValueTypes
     /\ v.items \in Seq(Values) /\ \A n \in DOMAIN v.items : v.items[n].type = v.elem
  \/ v.type = "BOOL" /\ v.num \in {0, 1}
  \/ v.type \in Unsigned /\ v.num \in Nat
  \/ v.type \in Floating /\ v.num \in Int
  \/ v.type \in Signed /\ v.num \in -SignBit(v.type) .. SignBit(v.type) - 1

ASSUME ValuesAreTyped == \A v \in Values : IsValue(v)

(* Arrays nest to a finite depth. *)
ASSUME ValuesAreFinite ==
  \A S \in SUBSET Values :
    S # {} => \E v \in S : v.type = "ARRAY" => \A n \in DOMAIN v.items : v.items[n] \notin S

Product(s) ==
  LET product[n \in 0 .. Len(s)] == IF n = 0 THEN 1 ELSE product[n - 1] * s[n]
  IN  product[Len(s)]

Field(type, value) == [type |-> type, value |-> value]

FieldBytes(f) ==
  IF f.type = "STRING" THEN 8 + Len(f.value) ELSE ScalarBytes[f.type]

Bytes(fields) ==
  LET bytes[n \in 0 .. Len(fields)] ==
        IF n = 0 THEN 0 ELSE bytes[n - 1] + FieldBytes(fields[n])
  IN  bytes[Len(fields)]

(* Negative integers are written in two's complement. *)
Raw(type, num) ==
  IF type \in Signed /\ num < 0 THEN num + 2 * SignBit(type) ELSE num

(* The fields of a value, the JSON value that is meant (a pair of its kind *)
(* and its content), and whether a reader of version 3 knows its types,    *)
(* from these of the items of an array.                                    *)
Encoded(v, encoding) ==
  CASE v.type = "STRING" ->
         [fields   |-> <<Field("STRING", v.text)>>,
          json     |-> <<"string", v.text>>,
          readable |-> TRUE]
    [] v.type = "ARRAY"  ->
         [fields   |-> <<Field("UINT32", v.elem), Field("UINT64", Len(v.items))>>
                         \o FlattenSeq([n \in DOMAIN v.items |-> encoding[v.items[n]].fields]),
          json     |-> <<"array", [n \in DOMAIN v.items |-> encoding[v.items[n]].json]>>,
          readable |-> \A n \in DOMAIN v.items : encoding[v.items[n]].readable]
    [] OTHER ->
         [fields   |-> <<Field(v.type, Raw(v.type, v.num))>>,
          json     |-> IF v.type = "BOOL" THEN <<"boolean", v.num # 0>>
                       ELSE IF v.type \in Floating THEN <<"float", v.num>>
                       ELSE <<"number", v.num>>,
          readable |-> v.type # "BFLOAT16"]

Encoding ==
  LET encoding[v \in Values] == Encoded(v, encoding)
  IN  encoding

(* What the first n entries of a list mean: the last entry of a key counts.*)
MeantUpTo(kvs, n) ==
  [k \in {kvs[i][1] : i \in 1 .. n} |->
     LET places == {i \in 1 .. n : kvs[i][1] = k}
     IN  Encoding[kvs[CHOOSE i \in places : \A j \in places : j <= i][2]].json]

EntryFields(kv) ==
  <<Field("STRING", kv[1]), Field("UINT32", kv[2].type)>> \o Encoding[kv[2]].fields

(* The bytes of an element, and of a block of 32 or of 256 elements.       *)
(* NEWER stands for the types of later formats.                            *)
ElementBytes ==
  [F64 |-> 8, I64 |-> 8, F32 |-> 4, I32 |-> 4, F16 |-> 2, BF16 |-> 2, I16 |-> 2, I8 |-> 1]

BlockBytes ==
  [Q4_0 |-> 18, Q4_1 |-> 20, Q5_0 |-> 22, Q5_1 |-> 24, Q8_0 |-> 34, Q8_1 |-> 36,
   IQ4_NL |-> 18, MXFP4 |-> 17, NEWER |-> 36]

SuperBlockBytes ==
  [Q2_K |-> 84, Q3_K |-> 110, Q4_K |-> 144, Q5_K |-> 176, Q6_K |-> 210, Q8_K |-> 292,
   IQ1_S |-> 50, IQ1_M |-> 56, IQ2_XXS |-> 66, IQ2_XS |-> 74, IQ2_S |-> 82,
   IQ3_XXS |-> 98, IQ3_S |-> 110, IQ4_XS |-> 136, TQ1_0 |-> 54, TQ2_0 |-> 66]

DataTypes == DOMAIN ElementBytes \cup DOMAIN BlockBytes \cup DOMAIN SuperBlockBytes

DataBytes(tensor) ==
  LET elements == Product(tensor.dims)
  IN  CASE tensor.dtype \in DOMAIN ElementBytes -> elements * ElementBytes[tensor.dtype]
        [] tensor.dtype \in DOMAIN BlockBytes -> (elements \div 32) * BlockBytes[tensor.dtype]
        [] OTHER -> (elements \div 256) * SuperBlockBytes[tensor.dtype]

RoundedUp(n, alignment) == ((n + alignment - 1) \div alignment) * alignment

(* Offsets are relative to the start of the data and aligned. *)
DataOffset(doc, i) ==
  LET offset[n \in 1 .. i] ==
        IF n = 1 THEN 0
        ELSE RoundedUp(offset[n - 1] + DataBytes(doc.tensors[n - 1]), doc.alignment)
  IN  offset[i]

TensorFields(doc, i) ==
  LET t == doc.tensors[i]
  IN  <<Field("STRING", t.name), Field("UINT32", Len(t.dims))>>
        \o [d \in DOMAIN t.dims |-> Field("UINT64", t.dims[d])]
        \o <<Field("UINT32", t.dtype), Field("UINT64", DataOffset(doc, i))>>

HeaderFields(doc) ==
  <<Field("MAGIC", doc.magic), Field("UINT32", doc.version),
    Field("UINT64", Len(doc.tensors)), Field("UINT64", Len(doc.kvs))>>
    \o FlattenSeq([n \in DOMAIN doc.kvs |-> EntryFields(doc.kvs[n])])
    \o FlattenSeq([i \in DOMAIN doc.tensors |-> TensorFields(doc, i)])

HeaderBytes(doc) == Bytes(HeaderFields(doc))

(* The first byte of the data, and the bytes of tensor i in the file. *)
DataStart(doc) == RoundedUp(HeaderBytes(doc), doc.alignment)

TensorStart(doc, i) == DataStart(doc) + DataOffset(doc, i)

TensorEnd(doc, i) == TensorStart(doc, i) + DataBytes(doc.tensors[i])

WholeLength(doc) ==
  IF doc.tensors = <<>> THEN DataStart(doc) ELSE TensorEnd(doc, Len(doc.tensors))

=============================================================================
