----------------------------- MODULE ModelLoading -----------------------------
(***************************************************************************)
(* Qwen3Model::parseConfig (src/model/qwen3.cpp) at work on the GGUFInfo   *)
(* of a parser: the configuration a model takes from a file.  parseConfig  *)
(* has no caller yet; here it is called once the constructor of the parser *)
(* has returned, on a new model or on one that has parsed a file before.   *)
(* The names in the module stand for the keys of the metadata.             *)
(***************************************************************************)
EXTENDS GGUFParser

CONSTANTS
  ParsedBefore,   \* configurations that earlier files left in a model
  Single(_),      \* the float nearest to a number, both in FloatUnits
  OutOfRange      \* the ints a build may make of a float that no int holds

VARIABLES
  config,    \* Qwen3Model::config
  before,    \* the configuration when parseConfig is called
  outcome    \* "none", "parsed" or "thrown"

model     == <<config, before, outcome>>
modelVars == <<vars, model>>

IntField(name, from, default) ==
  [name |-> name, key |-> from, type |-> "int", default |-> default]

FloatField(name, from, default) ==
  [name |-> name, key |-> from, type |-> "float", default |-> default]

(* The fields in the order of their assignment, with key and default; 0    *)
(* stands for the epsilon's default of a millionth.                        *)
Fields ==
  << IntField("hidden_size",       "qwen3.embedding_length",        1024),
     IntField("num_layers",        "qwen3.block_count",             28),
     IntField("num_heads",         "qwen3.attention.head_count",    16),
     IntField("num_kv_heads",      "qwen3.attention.head_count_kv", 8),
     IntField("head_dim",          "qwen3.attention.key_length",    128),
     IntField("intermediate_size", "qwen3.feed_forward_length",     3072),
     IntField("max_seq_len",       "qwen3.context_length",          2048),
     FloatField("rms_norm_eps",    "qwen3.attention.layer_norm_rms_epsilon", 0),
     FloatField("rope_theta",      "qwen3.rope.freq_base", 1000000 * FloatUnits) >>

FieldNames == {Fields[i].name : i \in DOMAIN Fields}

Place(name) == CHOOSE i \in DOMAIN Fields : Fields[i].name = name

NewConfig ==
  [name \in FieldNames \cup {"vocab_size"} |->
     IF name = "vocab_size" THEN 0 ELSE Fields[Place(name)].default]

(* Conversion to an int takes an integer modulo the number of ints. *)
Ints == -(Uint32Values \div 2) .. Uint32Values \div 2 - 1

AsInt(n) ==
  LET low == n % Uint32Values IN IF low \in Ints THEN low ELSE low - Uint32Values

IsConfig(c) ==
  /\ DOMAIN c = FieldNames \cup {"vocab_size"}
  /\ \A i \in DOMAIN Fields : Fields[i].type = "int" => c[Fields[i].name] \in Ints
  /\ c["vocab_size"] \in Ints

(* Half of the ints are negative.  An int holds the defaults, and what     *)
(* earlier files were parsed into.                                         *)
ASSUME HalfAreNegative == Uint32Values % 2 = 0
ASSUME IntsAreInts == OutOfRange \subseteq Ints
ASSUME ConfigsAreWhole == \A c \in {NewConfig} \cup ParsedBefore : IsConfig(c)

ModelInit ==
  /\ Init
  /\ before \in {NewConfig} \cup ParsedBefore
  /\ config = before
  /\ outcome = "none"

-----------------------------------------------------------------------------
(* value() throws for a metadata that is null, as it is without an entry,  *)
(* and for a value that is no number; a boolean counts as one.             *)
Convertible(f) ==
  /\ DOMAIN meta_data # {}
  /\ f.key \in DOMAIN meta_data => meta_data[f.key][1] \in Numbers

Nearest(json) ==
  Single(IF json[1] = "float" THEN json[2] ELSE Whole(json) * FloatUnits)

ValueOf(f) ==
  IF f.key \notin DOMAIN meta_data THEN f.default
  ELSE IF f.type = "float" THEN Nearest(meta_data[f.key])
  ELSE AsInt(Whole(meta_data[f.key]))

(* The conversion to an int of a float that is too large for one. *)
IsUndefined(f) ==
  /\ f.type = "int" /\ f.key \in DOMAIN meta_data
  /\ meta_data[f.key][1] = "float" /\ Whole(meta_data[f.key]) \notin Ints

(* The fields assigned before the first that throws. *)
Assigned == {i \in DOMAIN Fields : \A j \in 1 .. i : Convertible(Fields[j])}

TokensKey == "tokenizer.ggml.tokens"

CountedTokens ==
  IF TokensKey \in DOMAIN meta_data /\ meta_data[TokensKey][1] = "array"
  THEN AsInt(Len(meta_data[TokensKey][2])) ELSE config.vocab_size

Embeddings ==
  {i \in DOMAIN tensor_info_vec : /\ tensor_info_vec[i].name = "token_embd.weight"
                                  /\ Len(tensor_info_vec[i].dimensions) = 2}

(* Wrong: the tensor is asked before the tokens. *)
VocabSizeOfTensorFirst ==
  IF Embeddings # {} THEN AsInt(tensor_info_vec[Min(Embeddings)].dimensions[2])
  ELSE CountedTokens

VocabSize ==
  IF CountedTokens # 0 THEN CountedTokens
  ELSE IF Embeddings = {} THEN 0
  ELSE AsInt(tensor_info_vec[Min(Embeddings)].dimensions[2])

(* Wrong: a model without a vocabulary is let through. *)
ConfigAcceptableWithoutVocab == Assigned = DOMAIN Fields

ConfigAcceptable == Assigned = DOMAIN Fields /\ VocabSize # 0

ParseConfig ==
  /\ phase = "ready" /\ outcome = "none"
  /\ \E wild \in [{i \in Assigned : IsUndefined(Fields[i])} -> OutOfRange] :
       config' = [name \in DOMAIN config |->
         IF name = "vocab_size"
         THEN IF Assigned = DOMAIN Fields THEN VocabSize ELSE config[name]
         ELSE IF Place(name) \in DOMAIN wild THEN wild[Place(name)]
         ELSE IF Place(name) \in Assigned THEN ValueOf(Fields[Place(name)])
         ELSE config[name]]
  /\ outcome' = IF ConfigAcceptable THEN "parsed" ELSE "thrown"
  /\ UNCHANGED <<vars, before>>

ModelNext ==
  \/ Next /\ UNCHANGED model
  \/ ParseConfig

ModelSpec == ModelInit /\ [][ModelNext]_modelVars

-----------------------------------------------------------------------------
ModelTypeOK ==
  /\ TypeOK
  /\ outcome \in {"none", "parsed", "thrown"}
  /\ IsConfig(config)

(* What the document says of a field, its fraction left out where the field*)
(* is an int.  Of a number that no int holds nothing is said.              *)
Says(f, value) ==
  LET meant == MeantMetadata
  IN  IF f.key \notin DOMAIN meant THEN value = f.default
      ELSE /\ meant[f.key][1] \in Numbers
           /\ f.type = "float" => value = Nearest(meant[f.key])
           /\ f.type = "int" /\ Whole(meant[f.key]) \in Ints => value = Whole(meant[f.key])

ListsTokens ==
  TokensKey \in DOMAIN MeantMetadata /\ MeantMetadata[TokensKey][1] = "array"

MeantTokens == IF ListsTokens THEN Len(MeantMetadata[TokensKey][2]) ELSE 0

(***************************************************************************)
(* A configuration that is accepted says of every field what the last      *)
(* entry of its key in the file says, as far as an int can hold it, or the *)
(* default and never a value of an earlier file, and takes the vocabulary  *)
(* from the tokens if the file lists any that an int can count ("get       *)
(* vocab_size from tokenizer.tokens firstly", qwen3.cpp:17), whatever the  *)
(* tensors are.  Nothing is said of the vocabulary of other files.         *)
(***************************************************************************)
ConfigAsWritten ==
  outcome = "parsed" =>
    /\ \A i \in DOMAIN Fields : Says(Fields[i], config[Fields[i].name])
    /\ MeantTokens \in Ints \ {0} => config.vocab_size = MeantTokens

(* The file says of a field what is no number. *)
Contradicts(f) ==
  f.key \in DOMAIN MeantMetadata /\ MeantMetadata[f.key][1] \notin Numbers

(* The embeddings of the file that are matrices. *)
MeantEmbeddings ==
  {i \in DOMAIN doc.tensors :
     doc.tensors[i].name = "token_embd.weight" /\ Len(doc.tensors[i].dims) = 2}

NamesNoVocabulary ==
  /\ AsInt(MeantTokens) = 0
  /\ MeantEmbeddings # {} => AsInt(doc.tensors[Min(MeantEmbeddings)].dims[1]) = 0

(***************************************************************************)
(* A file is refused if it has no metadata at all or says of a field what  *)
(* is no number; otherwise it is refused only if it leaves the vocabulary  *)
(* open, and always then if it has a list of tokens or the model has no    *)
(* vocabulary yet.  It leaves it open if it lists no tokens and has no     *)
(* embedding or an empty one first; what an int cannot tell from zero      *)
(* counts as none.  A value that was only overwritten in the file, or      *)
(* another tensor that comes first, changes nothing.  What was assigned    *)
(* before the refusal stays assigned, and what comes after keeps its value *)
(* from before.                                                            *)
(***************************************************************************)
ConfigRefusedExactly ==
  outcome # "none" =>
    LET bad == {i \in DOMAIN Fields : doc.kvs = <<>> \/ Contradicts(Fields[i])}
    IN  /\ bad # {} => outcome = "thrown"
        /\ outcome = "thrown" => bad # {} \/ NamesNoVocabulary
        /\ NamesNoVocabulary /\ (ListsTokens \/ before.vocab_size = 0) => outcome = "thrown"
        /\ \A i \in DOMAIN Fields :
             IF \A b \in bad : i < b THEN Says(Fields[i], config[Fields[i].name])
             ELSE config[Fields[i].name] = before[Fields[i].name]

(***************************************************************************)
(* "hidden_size" is what op_factory.hpp:116 calls the second dimension of  *)
(* the embedding's info; its vocabulary is the first, the slowest, that is *)
(* the last in the file.                                                   *)
(***************************************************************************)
VocabIsNotTheHiddenSize ==
  outcome = "parsed" /\ before.vocab_size = 0 /\ MeantTokens = 0 =>
    \E i \in DOMAIN doc.tensors :
      /\ doc.tensors[i].name = "token_embd.weight"
      /\ config.vocab_size = AsInt(Last(doc.tensors[i].dims))

=============================================================================
