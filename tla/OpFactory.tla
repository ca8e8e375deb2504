------------------------------- MODULE OpFactory -------------------------------
(***************************************************************************)
(* OpFactory (include/model/op_factory.hpp): the calls a model definition  *)
(* makes to build the tensors of its graph.  A tensor here is its          *)
(* operation, its dims and strides, its source tensors (by position in     *)
(* tensors) and the operation's parameters.  A dimension is positive, 0    *)
(* (unused) or -1 (known only at run time).  All elements have the same    *)
(* type; names, layers and data pointers are left out.  A call that throws *)
(* hands out nothing.                                                      *)
(***************************************************************************)
EXTENDS Integers, Sequences, FiniteSets, Functions

CONSTANTS
  TENSOR_MAX_DIMS,
  ElementSize,    \* dataTypeSize of the element type
  SizeValues,     \* number of values of a size_t
  InputShapes,    \* dims of the placeholders a client makes
  WeightShapes,   \* dimensions of the TensorInfos of the file, two each
  NewShapes,      \* shapes a client reshapes to
  Perms,          \* permutations a client permutes by
  InnerSizes,     \* sizes passed to narrow and ssmScan
  MaxCalls        \* bound: calls of the factory

(* embeddingLookup writes the third dimension. *)
ASSUME MaxDimsIsNat == TENSOR_MAX_DIMS \in Nat /\ TENSOR_MAX_DIMS >= 3
ASSUME SizesAreNat == ElementSize \in Nat /\ SizeValues \in Nat \ {0}
ASSUME MaxCallsIsNat == MaxCalls \in Nat

(* The contract of a client, which no call checks: shapes with no zero in  *)
(* them, new shapes that fit into dims, and permutations that name every   *)
(* dimension once.                                                         *)
ASSUME ShapesHaveNoZeros ==
  \A s \in InputShapes \cup NewShapes :
    s \in Seq(Int) /\ s # <<>> /\ \A i \in DOMAIN s : s[i] = -1 \/ s[i] > 0
ASSUME NewShapesFit == \A s \in NewShapes : Len(s) <= TENSOR_MAX_DIMS
ASSUME WeightsAreMatrices ==
  \A w \in WeightShapes : w \in Seq(Nat \ {0}) /\ Len(w) = 2
ASSUME PermsArePermutations ==
  \A p \in Perms : p \in Seq(Nat) /\ p \in Bijection(1 .. Len(p), 0 .. Len(p) - 1)
ASSUME InnerSizesArePositive == InnerSizes \subseteq Nat \ {0}

Dim == 1 .. TENSOR_MAX_DIMS

VARIABLES
  tensors,   \* the tensors handed out, weights with the operation they feed
  calls,     \* calls made
  outcome    \* how the last call ended: "ok" or "threw"

vars == <<tensors, calls, outcome>>

Init == tensors = <<>> /\ calls = 0 /\ outcome = "ok"

-----------------------------------------------------------------------------
Product(s) ==
  LET product[n \in 0 .. Len(s)] == IF n = 0 THEN 1 ELSE product[n - 1] * s[n]
  IN  product[Len(s)]

(* A shape in the fixed array dims. *)
Padded(shape) == [i \in Dim |-> IF i <= Len(shape) THEN shape[i] ELSE 0]

(* The dimensions in use, as reshape and permute collect them. *)
Used(dims) ==
  LET used[n \in 0 .. TENSOR_MAX_DIMS] ==
        IF n = 0 THEN <<>>
        ELSE IF dims[n] = 0 THEN used[n - 1] ELSE Append(used[n - 1], dims[n])
  IN  used[TENSOR_MAX_DIMS]

(* The running product of computeStrides when it has passed the dimensions *)
(* after i.                                                                *)
Span(dims, i) ==
  Product([n \in 1 .. TENSOR_MAX_DIMS - i |->
             IF dims[i + n] = 0 THEN 1 ELSE dims[i + n]])

(* Wrong: the stride of a dimension includes the dimension. *)
InclusiveStrides(dims) ==
  [i \in Dim |-> IF dims[i] = 0 THEN 0
                 ELSE (ElementSize * Span(dims, i - 1)) % SizeValues]

(* Wrong: a dynamic dimension makes the strides before it negative. *)
StridesUnwrapped(dims) ==
  [i \in Dim |-> IF dims[i] = 0 THEN 0 ELSE ElementSize * Span(dims, i)]

(* computeStrides: the running product wraps around like a size_t. *)
Strides(dims) ==
  [i \in Dim |-> IF dims[i] = 0 THEN 0
                 ELSE (ElementSize * Span(dims, i)) % SizeValues]

(* Tensor::numel: the product up to the first unused dimension. *)
Numel(dims) ==
  LET unused == {i \in Dim : dims[i] = 0}
      rank   == IF unused = {} THEN TENSOR_MAX_DIMS
                ELSE (CHOOSE i \in unused : \A j \in unused : i <= j) - 1
  IN  Product([i \in 1 .. rank |-> IF dims[i] < 0 THEN -dims[i] ELSE dims[i]])

(* The last dimension in use, 0 when there is none. *)
LastUsed(dims) ==
  LET used == {i \in Dim : dims[i] # 0}
  IN  IF used = {} THEN 0 ELSE CHOOSE i \in used : \A j \in used : j <= i

Tensor(op, dims, src, params) ==
  [op |-> op, dims |-> dims, strides |-> Strides(dims), src |-> src, params |-> params]

(* weightPlaceHolder leaves the strides at zero. *)
Weight(w) ==
  [op |-> "WEIGHT", dims |-> Padded(w), strides |-> [i \in Dim |-> 0],
   src |-> <<>>, params |-> <<>>]

(* The next tensor's position, the positions a client may pass, and the    *)
(* end of a call that allocates new or throws.                             *)
Next1 == Len(tensors) + 1

Handed == {n \in DOMAIN tensors : tensors[n].op # "WEIGHT"}

Dims(x) == tensors[x].dims

Return(new) ==
  /\ calls' = calls + 1
  /\ tensors' = tensors \o new
  /\ outcome' = "ok"

Throw ==
  /\ calls' = calls + 1
  /\ outcome' = "threw"
  /\ UNCHANGED tensors

-----------------------------------------------------------------------------
PlaceHolder(shape) ==
  IF Len(shape) > TENSOR_MAX_DIMS THEN Throw
  ELSE Return(<<Tensor("PLACEHOLDER", Padded(shape), <<>>, <<>>)>>)

(* Wrong: the two dimensions of the weight are never swapped. *)
WeightInOutUnswapped(w, transpose) == w

WeightInOut(w, transpose) == IF transpose THEN <<w[2], w[1]>> ELSE w

LinearFits(dims, in) ==
  /\ LastUsed(dims) # 0
  /\ LET last == dims[LastUsed(dims)] IN ~(last > 0 /\ in > 0 /\ last # in)

Linear(x, w, transpose) ==
  LET in_out == WeightInOut(w, transpose)
  IN  IF LinearFits(Dims(x), in_out[1])
      THEN Return(<<Tensor("LINEAR", [Dims(x) EXCEPT ![LastUsed(Dims(x))] = in_out[2]],
                           <<x, Next1 + 1>>, <<transpose>>),
                    Weight(w)>>)
      ELSE Throw

(* The hidden size goes into the third dimension whatever the rank of the  *)
(* ids, which no line of the code checks: the client passes a batch and a  *)
(* sequence dimension.                                                     *)
EmbeddingLookup(ids, w, transpose) ==
  /\ LastUsed(Dims(ids)) = 2
  /\ Return(<<Tensor("EMBEDDING",
                     Padded(<<Dims(ids)[1], Dims(ids)[2], IF transpose THEN w[1] ELSE w[2]>>),
                     <<ids, Next1 + 1>>, <<transpose>>),
              Weight(w)>>)

RmsNorm(x, w) ==
  Return(<<Tensor("RMS_NORM", Dims(x), <<x, Next1 + 1>>, <<>>), Weight(w)>>)

CausalConv1d(x, w) ==
  Return(<<Tensor("CAUSAL_CONV1D", Dims(x), <<x, Next1 + 1>>, <<>>), Weight(w)>>)

Silu(x) == Return(<<Tensor("SILU", Dims(x), <<x>>, <<>>)>>)

Sigmoid(x) == Return(<<Tensor("SIGMOID", Dims(x), <<x>>, <<>>)>>)

Add(a, b) == Return(<<Tensor("ADD", Dims(a), <<a, b>>, <<>>)>>)

Mul(a, b) ==
  IF \E i \in Dim : Dims(a)[i] # Dims(b)[i] /\ Dims(a)[i] > 0 /\ Dims(b)[i] > 0
  THEN Throw
  ELSE Return(<<Tensor("MUL", Dims(a), <<a, b>>, <<>>)>>)

(* No line of narrow checks the dimension or the range: the first three    *)
(* conjuncts are the client's contract.  dim counts from 0.                *)
Narrow(x, dim, start, size) ==
  /\ dim < LastUsed(Dims(x))
  /\ start >= 0 /\ size > 0
  /\ Dims(x)[dim + 1] = -1 \/ start + size <= Dims(x)[dim + 1]
  /\ Return(<<Tensor("NARROW", [Dims(x) EXCEPT ![dim + 1] = size], <<x>>,
                     <<dim, start, size>>)>>)

RopeCache(max_seq_len, head_dim) ==
  LET cache == Tensor("ROPE_CACHE", Padded(<<max_seq_len, head_dim>>), <<>>,
                      <<head_dim, max_seq_len>>)
  IN  Return(<<cache, cache>>)

-----------------------------------------------------------------------------
(* reshape.  Static dimensions count; of several -1 in the new shape the   *)
(* last is inferred and the others stay.                                   *)
StaticProduct(s) == Product([i \in DOMAIN s |-> IF s[i] = -1 THEN 1 ELSE s[i]])

HasDynamic(s) == \E i \in DOMAIN s : s[i] = -1

Inferred(dims, shape) ==
  LET infer == {i \in DOMAIN shape : shape[i] = -1}
      last  == CHOOSE i \in infer : \A j \in infer : j <= i
  IN  IF infer = {} \/ HasDynamic(Used(dims)) THEN shape
      ELSE [shape EXCEPT ![last] = StaticProduct(Used(dims)) \div StaticProduct(shape)]

(* Wrong: the remainder is not looked at, only the product of the result.  *)
ReshapeFitsUnverified(dims, shape) == TRUE

ReshapeFits(dims, shape) ==
  HasDynamic(Used(dims)) \/
    /\ HasDynamic(shape) =>
         StaticProduct(Used(dims)) % StaticProduct(shape) = 0
    /\ StaticProduct(Inferred(dims, shape)) = StaticProduct(Used(dims))

Reshaped(x, dims, shape) ==
  Tensor("RESHAPE", Padded(Inferred(dims, shape)), <<x>>, <<>>)

Reshape(x, shape) ==
  IF ReshapeFits(Dims(x), shape) THEN Return(<<Reshaped(x, Dims(x), shape)>>) ELSE Throw

PermuteFits(dims, perm) ==
  /\ Len(perm) = Len(Used(dims))
  /\ \A i \in DOMAIN perm : perm[i] \in 0 .. Len(Used(dims)) - 1

Permuted(x, dims, perm) ==
  Tensor("PERMUTE",
         Padded([i \in DOMAIN perm |-> Used(dims)[perm[i] + 1]]), <<x>>, perm)

Permute(x, perm) ==
  IF PermuteFits(Dims(x), perm) THEN Return(<<Permuted(x, Dims(x), perm)>>) ELSE Throw

(* When the second half throws, the tensor of the first is lost.           *)
ReshapePermute(x, shape, perm) ==
  IF ReshapeFits(Dims(x), shape) /\ PermuteFits(Reshaped(x, Dims(x), shape).dims, perm)
  THEN LET reshaped == Reshaped(x, Dims(x), shape)
       IN  Return(<<reshaped, Permuted(Next1, reshaped.dims, perm)>>)
  ELSE Throw

PermuteReshape(x, perm, shape) ==
  IF PermuteFits(Dims(x), perm) /\ ReshapeFits(Permuted(x, Dims(x), perm).dims, shape)
  THEN LET permuted == Permuted(x, Dims(x), perm)
       IN  Return(<<permuted, Reshaped(Next1, permuted.dims, shape)>>)
  ELSE Throw

-----------------------------------------------------------------------------
(* The output shares dims and strides with its first source. *)
LikeFirst(op, x, src, params) ==
  [op |-> op, dims |-> Dims(x), strides |-> tensors[x].strides, src |-> src,
   params |-> params]

(* The client passes tensors with heads in the second dimension. *)
ScaledDotProductAttention(q, k, v, groups) ==
  LET n_heads    == Dims(q)[2]
      n_kv_heads == Dims(k)[2]
  IN  /\ n_heads > 0 /\ n_kv_heads > 0
      /\ IF n_heads % n_kv_heads # 0 THEN Throw
         ELSE Return(<<LikeFirst("SDPA", q, <<q, k, v>>,
                <<Dims(q)[TENSOR_MAX_DIMS],
                  IF groups < 1 THEN n_heads \div n_kv_heads ELSE groups>>)>>)

(* The last positive dimension, 0 when there is none. *)
HeadDim(dims) ==
  LET positive == {i \in Dim : dims[i] > 0}
  IN  IF positive = {} THEN 0
      ELSE dims[CHOOSE i \in positive : \A j \in positive : j <= i]

ApplyRope(q, k, cos, sin) ==
  LET head_dim == HeadDim(Dims(q))
      rope_dim == Dims(cos)[2]
      out(x)   == LikeFirst("APPLY_ROPE", x, <<x, cos, sin>>, <<head_dim, rope_dim>>)
  IN  IF \/ head_dim <= 0 \/ head_dim % 2 # 0
         \/ rope_dim > head_dim \/ rope_dim % 2 # 0
      THEN Throw
      ELSE Return(<<out(q), out(k)>>)

(* Wrong: the size replaces the last element of the array. *)
WithInnerSizeAtEnd(dims, size) ==
  IF size > 0 THEN [dims EXCEPT ![TENSOR_MAX_DIMS] = size] ELSE dims

WithInnerSize(dims, size) ==
  IF size > 0 THEN [dims EXCEPT ![LastUsed(dims)] = size] ELSE dims

SsmScan(x, w, size) ==
  Return(<<Tensor("SSM_SCAN", WithInnerSize(Dims(x), size),
                  <<x, Next1 + 1, Next1 + 2, Next1 + 3, Next1 + 4>>, <<size>>),
           Weight(w), Weight(w), Weight(w), Weight(w)>>)

Next ==
  /\ calls < MaxCalls
  /\ \/ \E shape \in InputShapes : PlaceHolder(shape)
     \/ \E x \in InnerSizes, y \in InnerSizes : RopeCache(x, y)
     \/ \E x \in Handed :
          \/ Silu(x)
          \/ Sigmoid(x)
          \/ \E w \in WeightShapes :
               \/ \E transpose \in BOOLEAN : Linear(x, w, transpose)
               \/ \E transpose \in BOOLEAN : EmbeddingLookup(x, w, transpose)
               \/ RmsNorm(x, w)
               \/ CausalConv1d(x, w)
               \/ \E size \in InnerSizes \cup {0} : SsmScan(x, w, size)
          \/ \E dim \in 0 .. TENSOR_MAX_DIMS - 1, start \in {0, 1}, size \in InnerSizes :
               Narrow(x, dim, start, size)
          \/ \E shape \in NewShapes : Reshape(x, shape)
          \/ \E perm \in Perms : Permute(x, perm)
          \/ \E shape \in NewShapes, perm \in Perms :
               ReshapePermute(x, shape, perm) \/ PermuteReshape(x, perm, shape)
          \/ \E y \in Handed :
               \/ Add(x, y)
               \/ Mul(x, y)
               \/ \E v \in Handed, groups \in {0, 1} :
                    ScaledDotProductAttention(x, y, v, groups)
               \/ \E cos, sin \in {n \in Handed : tensors[n].op = "ROPE_CACHE"} :
                    ApplyRope(x, y, cos, sin)

Spec == Init /\ [][Next]_vars

-----------------------------------------------------------------------------
Operations == {t \in DOMAIN tensors : tensors[t].op # "WEIGHT"}

TypeOK ==
  /\ calls \in 0 .. MaxCalls
  /\ outcome \in {"ok", "threw"}
  /\ \A t \in DOMAIN tensors :
       /\ tensors[t].dims \in [Dim -> Int]
       /\ tensors[t].strides \in [Dim -> 0 .. SizeValues - 1]
       /\ \A i \in DOMAIN tensors[t].src :
            tensors[t].src[i] \in DOMAIN tensors \ {t}

(***************************************************************************)
(* No chain of calls leaves an unused dimension before one in use, where   *)
(* numel and nbytes would stop counting while the strides and reshape go   *)
(* on.                                                                     *)
(***************************************************************************)
ShapesHaveNoHoles ==
  \A t \in DOMAIN tensors : \A i, j \in Dim :
    i < j /\ tensors[t].dims[i] = 0 => tensors[t].dims[j] = 0

(***************************************************************************)
(* One reshape or permute of a tensor whose shape is static has as many    *)
(* elements as that tensor, whatever was inferred, and so has a chain of   *)
(* them for as long as every shape on the way is static.  A shape that     *)
(* keeps one of several -1 is not: see ViewsKeepElements.                  *)
(***************************************************************************)
ShapeOpsKeepElements ==
  \A t \in Operations :
    tensors[t].op \in {"RESHAPE", "PERMUTE"} =>
      LET source == tensors[tensors[t].src[1]]
      IN  ~HasDynamic(source.dims) => Numel(tensors[t].dims) = Numel(source.dims)

(***************************************************************************)
(* The strides of a tensor walk its memory densely, in the arithmetic of a *)
(* size_t: each is what the next dimension spans, the last one element, so *)
(* that for a static shape nbytesAt is the end of the last element.        *)
(* Copied strides (attention, rope) included.                              *)
(***************************************************************************)
StridesCoverTensor ==
  \A t \in Operations :
    LET d == tensors[t].dims
        s == tensors[t].strides
        r == LastUsed(d)
    IN  /\ s[r] = ElementSize % SizeValues
        /\ \A i \in 1 .. r - 1 : s[i] = (s[i + 1] * d[i + 1]) % SizeValues
        /\ ~HasDynamic(d) =>
             (s[1] * d[1]) % SizeValues = (ElementSize * Numel(d)) % SizeValues

(***************************************************************************)
(* What an executor sees of a linear layer fits together: by the flag it   *)
(* finds in the parameters, the dimension it sums over is as long in the   *)
(* weight as in the input, and the other one as in the output.             *)
(***************************************************************************)
LinearContractsMatching ==
  \A t \in Operations :
    tensors[t].op = "LINEAR" =>
      LET x == tensors[tensors[t].src[1]].dims
          w == tensors[tensors[t].src[2]].dims
          transpose == tensors[t].params[1]
          sum  == IF transpose THEN w[2] ELSE w[1]
          free == IF transpose THEN w[1] ELSE w[2]
      IN  /\ x[LastUsed(x)] \in {-1, sum}
          /\ tensors[t].dims[LastUsed(tensors[t].dims)] = free
          /\ LastUsed(tensors[t].dims) = LastUsed(x)

(* The tensor whose data a chain of reshapes and permutes shares. *)
Root ==
  LET root[t \in DOMAIN tensors] ==
        IF tensors[t].op \in {"RESHAPE", "PERMUTE"} THEN root[tensors[t].src[1]] ELSE t
  IN  root

(***************************************************************************)
(* reshape throws "Reshape mismatch: src elements = {} and target elements *)
(* = {}" (op_factory.hpp:273) when the two differ: a view whose shape is   *)
(* known has as many elements as the tensor, its shape known too, whose    *)
(* data the chain of views hands on, whatever the shapes in between.       *)
(***************************************************************************)
ViewsKeepElements ==
  \A t \in Operations :
    LET root == Root[t]
    IN  ~HasDynamic(Dims(t)) /\ ~HasDynamic(Dims(root)) =>
          Numel(Dims(t)) = Numel(Dims(root))

=============================================================================
