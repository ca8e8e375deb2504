---------------------------- MODULE MCModelLoading ----------------------------
(* Instances of ModelLoading, and of the parser it runs, for TLC. *)
EXTENDS ModelLoading, MCGGUFDocuments

Embd(dims) == [name |-> "token_embd.weight", dims |-> dims, dtype |-> "I8"]

(* A matrix, one without columns, one whose first dimension is 0 to an int,*)
(* and a vector of that name.                                              *)
Embedding  == Embd(<<3, 5>>)
NoColumns  == Embd(<<0, 5>>)
TooLong    == Embd(<<8192, 0>>)
FlatVector == Embd(<<4>>)

Hidden(v)    == <<"qwen3.embedding_length", v>>
Context(v)   == <<"qwen3.context_length", v>>
Epsilon(v)   == <<"qwen3.attention.layer_norm_rms_epsilon", v>>
Listed(v)    == <<"tokenizer.ggml.tokens", v>>

(* Numbers that an int holds, in part or not at all. *)
Conversions ==
  {<<Hidden(U32(4095))>>, <<Hidden(U32(4096))>>, <<Hidden(U32(8194))>>, <<Hidden(F32(-5))>>,
   <<Hidden(F32(8193)), Context(F32(9000))>>, <<Epsilon(F32(5)), Context(U32(4096))>>, <<Epsilon(U32(9))>>}

ModelEntryLists ==
  {<<Hidden(U32(2))>>, <<Hidden(Bool(1)), Listed(Tokens)>>, <<Listed(NoBytes), Hidden(U32(2))>>,
   <<Listed(Text("a")), Context(Text("a"))>>, <<Listed(Text("a")), Hidden(U32(8))>>, <<Hidden(Text("a")), Hidden(U32(8))>>,
   <<Listed(Tokens), Hidden(Tokens)>>}

ModelDocuments ==
  SomeDocuments
    \cup {Written("GGUF", 3, kvs, tensors) :
            kvs \in ModelEntryLists,
            tensors \in {<<>>, <<Embedding>>, <<FlatVector, Embedding>>}}
    \cup {Written("GGUF", 3, kvs, <<Embedding>>) : kvs \in Conversions}
    \cup {Written("GGUF", 3, <<Hidden(U32(2))>>, tensors) :
            tensors \in {<<NoColumns, Embedding>>, <<TooLong>>}}

AfterThreeTokens == {[NewConfig EXCEPT !.hidden_size = 7, !.max_seq_len = 9, !.vocab_size = 3]}

(* The least and the largest int, and zero. *)
SomeInts == {-4096, 0, 4095}

(* Floats of three digits: larger numbers are rounded down to even ones. *)
Rounded(x) == IF x \in -7 .. 7 THEN x ELSE 2 * (x \div 2)
=============================================================================
