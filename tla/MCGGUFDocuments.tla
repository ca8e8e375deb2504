----------------------------- MODULE MCGGUFDocuments -----------------------------
(* Documents for TLC: up to two metadata entries and two tensors. *)
EXTENDS Integers, Sequences

U32(n)  == [type |-> "UINT32", num |-> n]
I8(n)   == [type |-> "INT8", num |-> n]
F32(n)  == [type |-> "FLOAT32", num |-> n]
Bool(n) == [type |-> "BOOL", num |-> n]
Text(s) == [type |-> "STRING", text |-> s]
List(elem, items) == [type |-> "ARRAY", elem |-> elem, items |-> items]
Newer   == [type |-> "BFLOAT16", num |-> 0]

NoBytes  == List("INT8", <<>>)
TwoBytes == List("INT8", <<I8(-128), I8(127)>>)
Tokens   == List("STRING", <<Text("a"), Text("")>>)
Nested   == List("ARRAY", <<NoBytes, TwoBytes, NoBytes>>)
NoLists  == List("ARRAY", <<>>)
Newers   == List("ARRAY", <<NoBytes, List("BFLOAT16", <<Newer>>)>>)

SomeValues ==
  {U32(n) : n \in {2, 8, 9, 16, 4095, 4096, 8194}} \cup {F32(n) : n \in {-5, 5, 32, 8193, 9000}}
    \cup
  {I8(-128), I8(127), Bool(0), Bool(1), Text("a"), Text(""),
   NoBytes, TwoBytes, Tokens, Nested, NoLists, Newer, List("BFLOAT16", <<Newer>>), Newers}

Aligned(n) == <<"general.alignment", U32(n)>>

SomeEntries ==
  {<<"k", I8(-128)>>, <<"k", Bool(1)>>, <<"k", Tokens>>, <<"k", Nested>>, <<"k", NoLists>>, <<"k", Newer>>,
   <<"k", Newers>>}

EntryLists ==
  {<<>>, <<Aligned(8)>>, <<Aligned(8), Aligned(16)>>, <<Aligned(16), <<"k", Text("a")>>>>,
   <<<<"general.alignment", Text("a")>>>>, <<<<"general.alignment", F32(32)>>>>, <<<<"general.alignment", Bool(1)>>>>}
    \cup {<<e>> : e \in SomeEntries}
    \cup {<<<<"k", Nested>>, <<"k", NoBytes>>>>, <<<<"k", Tokens>>, Aligned(8)>>}

(* With no entry, the header of the vector alone ends on the alignment. *)
Vector == [name |-> "v.weight", dims |-> <<3>>, dtype |-> "F32"]
Matrix == [name |-> "m", dims |-> <<2, 5>>, dtype |-> "F16"]

(* Tensors in blocks, of more, of less and of no bytes for the parser. *)
Blocks    == [name |-> "q", dims |-> <<32>>, dtype |-> "Q4_0"]
LongBlock == [name |-> "q", dims |-> <<32>>, dtype |-> "IQ4_NL"]
NewBlock  == [name |-> "q", dims |-> <<32, 2>>, dtype |-> "NEWER"]
Long      == [name |-> "l", dims |-> <<64>>, dtype |-> "F32"]

TensorLists == {<<>>, <<Vector>>, <<Matrix, Vector>>, <<Vector, Matrix>>}

BlockLists == {<<Blocks, Long>>, <<NewBlock>>, <<LongBlock, NewBlock>>}

LastAlignment(kvs) ==
  LET places == {n \in DOMAIN kvs : kvs[n][1] = "general.alignment"
                                        /\ kvs[n][2].type \in {"UINT32", "BOOL", "FLOAT32"}}
      last   == kvs[CHOOSE n \in places : \A m \in places : m <= n][2]
  IN  IF places = {} THEN 32 ELSE IF last.type = "FLOAT32" THEN last.num \div 2 ELSE last.num

Written(magic, version, kvs, tensors) ==
  [magic |-> magic, version |-> version, kvs |-> kvs, tensors |-> tensors,
   alignment |-> LastAlignment(kvs)]

SomeDocuments ==
  {Written("GGUF", 3, kvs, tensors) : kvs \in EntryLists, tensors \in TensorLists}
    \cup {Written("GGUF", 3, <<Aligned(8)>>, tensors) : tensors \in BlockLists}
    \cup {Written("GGUF", 2, <<>>, <<Vector>>), Written("GGML", 3, <<>>, <<Vector>>)}
=============================================================================
