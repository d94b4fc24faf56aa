------------------------- MODULE BinaryPayloadProofs -------------------------
(***************************************************************************)
(* Proofs about BinaryPayload.  The chunk at which a field begins is a sum *)
(* over the fields before it.  The invariant does not compute it: it says  *)
(* that there is a function, from the fields to the chunks, that agrees    *)
(* with the buffer, and each call of the writer extends that function.     *)
(***************************************************************************)
EXTENDS BinaryPayload, SequenceTheorems, TLAPS

Primitive == DOMAIN Width

(* The chunks a field takes. *)
Span(f) == IF f.kind \in Primitive THEN 1 ELSE IF f.kind = "named" THEN 5 ELSE 2

Chunks == [value : Field \cup Nat \cup Texts, size : Nat]

(* A text and its length are at chunk p of b. *)
TextAt(b, p, t) == /\ b[p].value = t.chars
                   /\ b[p + 1] = [value |-> t, size |-> t.bytes]

(* The field f begins at chunk p of b; functions is the list of functions. *)
At(b, functions, p, f) ==
    /\ f.kind \in Primitive => b[p].value = f
    /\ f.kind = "string" => TextAt(b, p, f.text)
    /\ f.kind = "local" => /\ b[p].value = 1
                           /\ b[p + 1].value \in 0..(Len(functions) - 1)
                           /\ functions[b[p + 1].value + 1] = f.function
    /\ f.kind = "named" => /\ b[p].value = 0
                           /\ TextAt(b, p + 1, f.address)
                           /\ TextAt(b, p + 3, f.name)

(* start says where each field begins, and where the next one would. *)
Layout(start) ==
    /\ start \in [1..(Len(fields) + 1) -> 1..(Len(buffer) + 1)]
    /\ start[1] = 1
    /\ start[Len(fields) + 1] = Len(buffer) + 1
    /\ \A i \in 1..Len(fields) :
          /\ start[i + 1] = start[i] + Span(fields[i])
          /\ At(buffer, localFunctions, start[i], fields[i])

(* A reader that has not failed is at the beginning of a field. *)
InStep == \E start : /\ Layout(start)
                     /\ ~failed => next = start[Len(result) + 1]

(* Nothing is read before the payload is built, nor beyond its end. *)
Phases == /\ ~reading => result = <<>> /\ next = 1 /\ ~failed
          /\ Len(result) <= Len(fields)

BInv == BTypeOK /\ buffer \in Seq(Chunks) /\ Phases /\ InStep
                /\ ReadsBack /\ FunctionsResolve

-----------------------------------------------------------------------------
(* The kinds of fields *)

LEMMA Kinds ==
    /\ Primitive = {"byte", "boolean", "int", "double"}
    /\ \A k \in Primitive : Width[k] \in Nat
BY DEF Primitive, Width

LEMMA FieldKinds ==
    ASSUME NEW f \in Field
    PROVE  /\ f.kind \in Primitive \cup {"string", "local", "named"}
           /\ f.kind \in Primitive => f \in Field
           /\ f.kind = "string" => /\ f = [kind |-> "string", text |-> f.text]
                                   /\ f.text \in Texts
           /\ f.kind = "local" => /\ f = [kind |-> "local", function |-> f.function]
                                  /\ f.function \in Functions
           /\ f.kind = "named" => /\ f = [kind |-> "named", address |-> f.address,
                                          name |-> f.name]
                                  /\ f.address \in Texts /\ f.name \in Texts
BY Kinds DEF Field, Primitive

LEMMA TextTypes ==
    ASSUME NEW t \in Texts
    PROVE  /\ t.chars \in Nat /\ t.bytes \in Nat
           /\ t = [chars |-> t.chars, bytes |-> t.bytes]
BY TextsAssumption

-----------------------------------------------------------------------------
(* The encoding of a field *)

LEMMA Joined ==
    ASSUME NEW S, NEW s \in Seq(S), NEW t \in Seq(S)
    PROVE  /\ s \o t \in Seq(S)
           /\ Len(s) \in Nat /\ Len(t) \in Nat /\ Len(s \o t) = Len(s) + Len(t)
           /\ \A i \in 1..Len(s) : (s \o t)[i] = s[i]
           /\ \A i \in 1..Len(t) : (s \o t)[Len(s) + i] = t[i]
<1>1. Len(s) \in Nat /\ Len(t) \in Nat
  BY LenProperties
<1>2. /\ s \o t \in Seq(S) /\ Len(s \o t) = Len(s) + Len(t)
      /\ \A i \in 1..Len(s) + Len(t) :
            (s \o t)[i] = IF i <= Len(s) THEN s[i] ELSE t[i - Len(s)]
  BY ConcatProperties
<1>3. \A i \in 1..Len(s) : (s \o t)[i] = s[i]
  BY <1>1, <1>2
<1>4. ASSUME NEW i \in 1..Len(t)
      PROVE  (s \o t)[Len(s) + i] = t[i]
  <2>1. Len(s) + i \in 1..Len(s) + Len(t) /\ ~(Len(s) + i <= Len(s))
    BY <1>1
  <2>2. (s \o t)[Len(s) + i] = t[(Len(s) + i) - Len(s)]
    BY <1>2, <2>1
  <2>3. (Len(s) + i) - Len(s) = i
    BY <1>1
  <2> QED  BY <2>2, <2>3
<1> QED  BY <1>1, <1>2, <1>3, <1>4

LEMMA OneChunk ==
    ASSUME NEW v \in Field \cup Nat \cup Texts, NEW w \in Nat
    PROVE  /\ Chunk(v, w) \in Seq(Chunks)
           /\ Len(Chunk(v, w)) = 1
           /\ Chunk(v, w)[1] = [value |-> v, size |-> w]
BY DEF Chunk, Chunks

LEMMA TextChunks ==
    ASSUME NEW t \in Texts
    PROVE  /\ StringChunks(t) \in Seq(Chunks)
           /\ Len(StringChunks(t)) = 2
           /\ TextAt(StringChunks(t), 1, t)
<1> DEFINE c == Chunk(t.chars, Width.int)
           d == Chunk(t, t.bytes)
<1>0. Width.int \in Nat
  BY DEF Width
<1>1. /\ c \in Seq(Chunks) /\ Len(c) = 1 /\ c[1].value = t.chars
  <2>1. t.chars \in Field \cup Nat \cup Texts
    BY TextTypes
  <2>2. /\ c \in Seq(Chunks) /\ Len(c) = 1
        /\ c[1] = [value |-> t.chars, size |-> Width.int]
    BY <1>0, <2>1, OneChunk
  <2> QED  BY <2>2
<1>2. /\ d \in Seq(Chunks) /\ Len(d) = 1 /\ d[1] = [value |-> t, size |-> t.bytes]
  BY OneChunk, TextTypes
<1> HIDE DEF c, d
<1>3. /\ c \o d \in Seq(Chunks)
      /\ Len(c \o d) = 2
      /\ (c \o d)[1] = c[1] /\ (c \o d)[2] = d[1]
  BY <1>1, <1>2, ConcatProperties
<1>4. StringChunks(t) = c \o d
  BY DEF StringChunks, c, d
<1> QED  BY <1>1, <1>2, <1>3, <1>4 DEF TextAt

(* What is in the second of two buffers is found behind the first. *)
LEMMA TextBehind ==
    ASSUME NEW b \in Seq(Chunks), NEW c \in Seq(Chunks), NEW t \in Texts,
           NEW p \in Nat \ {0}, p + 1 <= Len(c), TextAt(c, p, t)
    PROVE  TextAt(b \o c, Len(b) + p, t)
<1>1. Len(b) \in Nat /\ Len(c) \in Nat
  BY LenProperties
<1>2. (b \o c)[Len(b) + p] = c[p] /\ (b \o c)[Len(b) + p + 1] = c[p + 1]
  BY <1>1, ConcatProperties
<1> QED  BY <1>2 DEF TextAt

LEMMA TextBefore ==
    ASSUME NEW b \in Seq(Chunks), NEW c \in Seq(Chunks), NEW t \in Texts,
           NEW p \in Nat \ {0}, p + 1 <= Len(b), TextAt(b, p, t)
    PROVE  TextAt(b \o c, p, t)
<1>1. Len(b) \in Nat /\ Len(c) \in Nat
  BY LenProperties
<1>2. (b \o c)[p] = b[p] /\ (b \o c)[p + 1] = b[p + 1]
  BY <1>1, ConcatProperties
<1> QED  BY <1>2 DEF TextAt

(* The encoding of a field is that field, as At says, from chunk 1 on. *)
LEMMA EncodedShape ==
    ASSUME NEW f \in Field, NEW id \in Int, NEW functions,
           f.kind = "local" => /\ id \in 0..(Len(functions) - 1)
                               /\ functions[id + 1] = f.function
    PROVE  /\ Encoded(f, id) \in Seq(Chunks)
           /\ Len(Encoded(f, id)) = Span(f)
           /\ At(Encoded(f, id), functions, 1, f)
<1>0. Width.int \in Nat /\ 0 \in Nat /\ 1 \in Nat
  BY DEF Width
<1>1. CASE f.kind \in Primitive
  <2>1. Encoded(f, id) = Chunk(f, Width[f.kind])
    BY <1>1, Kinds DEF Encoded, Primitive
  <2>2. Width[f.kind] \in Nat
    BY <1>1, Kinds
  <2>3. /\ Chunk(f, Width[f.kind]) \in Seq(Chunks)
        /\ Len(Chunk(f, Width[f.kind])) = 1
        /\ Chunk(f, Width[f.kind])[1] = [value |-> f, size |-> Width[f.kind]]
    BY <2>2, OneChunk
  <2>4. f.kind \notin {"string", "local", "named"}
    BY <1>1, Kinds
  <2> QED  BY <1>1, <2>1, <2>3, <2>4 DEF At, Span
<1>2. CASE f.kind = "string"
  <2>1. f.kind \notin Primitive
    BY <1>2, Kinds
  <2>2. Encoded(f, id) = StringChunks(f.text)
    BY <1>2, <2>1 DEF Encoded, Primitive
  <2>3. f.text \in Texts
    BY <1>2, FieldKinds
  <2> QED  BY <1>2, <2>1, <2>2, <2>3, TextChunks DEF At, Span
<1>3. CASE f.kind = "local"
  <2>1. f.kind \notin Primitive
    BY <1>3, Kinds
  <2>2. Encoded(f, id) = Chunk(1, 1) \o Chunk(id, Width.int)
    BY <1>3, <2>1 DEF Encoded, Primitive
  <2>3. id \in Nat
    BY <1>3
  <2>4. /\ Chunk(id, Width.int) \in Seq(Chunks) /\ Len(Chunk(id, Width.int)) = 1
        /\ Chunk(id, Width.int)[1] = [value |-> id, size |-> Width.int]
    BY <1>0, <2>3, OneChunk
  <2> DEFINE c == Chunk(id, Width.int)
             e == Chunk(1, 1)
  <2>5. /\ e \in Seq(Chunks) /\ Len(e) = 1 /\ e[1] = [value |-> 1, size |-> 1]
    BY OneChunk
  <2> HIDE DEF c, e
  <2>6. c \in Seq(Chunks) /\ Len(c) = 1 /\ c[1] = [value |-> id, size |-> Width.int]
    BY <2>4 DEF c
  <2>7. /\ e \o c \in Seq(Chunks) /\ Len(e \o c) = 2
        /\ (e \o c)[1] = e[1] /\ (e \o c)[2] = c[1]
    <3>1. e \in Seq(Chunks) /\ Len(e) = 1 /\ c \in Seq(Chunks) /\ Len(c) = 1
      BY <2>5, <2>6
    <3>2. /\ e \o c \in Seq(Chunks) /\ Len(e \o c) = Len(e) + Len(c)
          /\ \A i \in 1..Len(e) : (e \o c)[i] = e[i]
          /\ \A i \in 1..Len(c) : (e \o c)[Len(e) + i] = c[i]
      BY ONLY <3>1, Joined
    <3>3. (e \o c)[1] = e[1] /\ (e \o c)[1 + 1] = c[1]
      BY ONLY <3>1, <3>2
    <3> QED  BY <3>1, <3>2, <3>3
  <2>8. Encoded(f, id) = e \o c
    BY <2>2 DEF e, c
  <2>9. At(e \o c, functions, 1, f)
    BY <1>3, <2>1, <2>5, <2>6, <2>7 DEF At
  <2> QED  BY <1>3, <2>1, <2>7, <2>8, <2>9 DEF Span
<1>4. CASE f.kind = "named"
  <2>1. f.kind \notin Primitive
    BY <1>4, Kinds
  <2> DEFINE a == StringChunks(f.address)
             n == StringChunks(f.name)
             e == Chunk(0, 1)
  <2>2. Encoded(f, id) = (e \o a) \o n
    BY <1>4, <2>1 DEF Encoded, Primitive
  <2>3. f.address \in Texts /\ f.name \in Texts
    BY <1>4, FieldKinds
  <2>4. /\ a \in Seq(Chunks) /\ Len(a) = 2 /\ TextAt(a, 1, f.address)
        /\ n \in Seq(Chunks) /\ Len(n) = 2 /\ TextAt(n, 1, f.name)
    BY <2>3, TextChunks
  <2>5. /\ e \in Seq(Chunks) /\ Len(e) = 1 /\ e[1] = [value |-> 0, size |-> 1]
    BY OneChunk
  <2> HIDE DEF a, n, e
  <2>6. /\ e \o a \in Seq(Chunks) /\ Len(e \o a) = 3 /\ (e \o a)[1] = e[1]
    BY <2>4, <2>5, ConcatProperties
  <2>7. TextAt(e \o a, 2, f.address)
    <3>1. e \in Seq(Chunks) /\ a \in Seq(Chunks) /\ 1 + 1 <= Len(a) /\ 1 \in Nat \ {0}
      BY <2>4, <2>5
    <3>2. TextAt(e \o a, Len(e) + 1, f.address)
      BY ONLY <2>3, <2>4, <3>1, TextBehind
    <3>3. Len(e) + 1 = 2
      BY <2>5
    <3> QED  BY <3>2, <3>3
  <2>8. /\ (e \o a) \o n \in Seq(Chunks) /\ Len((e \o a) \o n) = 5
        /\ ((e \o a) \o n)[1] = e[1]
    <3>1. e \o a \in Seq(Chunks) /\ n \in Seq(Chunks) /\ Len(e \o a) = 3 /\ Len(n) = 2
      BY <2>4, <2>6
    <3>2. /\ (e \o a) \o n \in Seq(Chunks)
          /\ Len((e \o a) \o n) = Len(e \o a) + Len(n)
          /\ \A i \in 1..Len(e \o a) : ((e \o a) \o n)[i] = (e \o a)[i]
      BY ONLY <3>1, Joined
    <3> QED  BY <2>6, <3>1, <3>2
  <2>9. TextAt((e \o a) \o n, 2, f.address)
    <3>1. e \o a \in Seq(Chunks) /\ n \in Seq(Chunks) /\ 2 + 1 <= Len(e \o a) /\ 2 \in Nat \ {0}
      BY <2>4, <2>6
    <3> QED  BY ONLY <2>3, <2>7, <3>1, TextBefore
  <2>10. TextAt((e \o a) \o n, 4, f.name)
    <3>1. e \o a \in Seq(Chunks) /\ n \in Seq(Chunks) /\ 1 + 1 <= Len(n) /\ 1 \in Nat \ {0}
      BY <2>4, <2>6
    <3>2. TextAt((e \o a) \o n, Len(e \o a) + 1, f.name)
      BY ONLY <2>3, <2>4, <3>1, TextBehind
    <3>3. Len(e \o a) + 1 = 4
      BY <2>6
    <3> QED  BY <3>2, <3>3
  <2>11. At((e \o a) \o n, functions, 1, f)
    BY <1>4, <2>1, <2>5, <2>8, <2>9, <2>10 DEF At
  <2> QED  BY <1>4, <2>1, <2>2, <2>8, <2>11 DEF Span
<1> QED  BY <1>1, <1>2, <1>3, <1>4, FieldKinds

(* A field stays where it is when chunks and functions are added behind. *)
LEMMA AtKept ==
    ASSUME NEW b \in Seq(Chunks), NEW c \in Seq(Chunks), NEW f \in Field,
           NEW g, NEW h, Len(g) \in Nat, Len(h) \in Nat, Len(g) <= Len(h),
           \A i \in 1..Len(g) : h[i] = g[i],
           NEW p \in Nat \ {0}, p + Span(f) <= Len(b) + 1, At(b, g, p, f)
    PROVE  At(b \o c, h, p, f)
<1>1. Len(b) \in Nat
  BY LenProperties
<1>2. \A i \in 1..Len(b) : (b \o c)[i] = b[i]
  BY Joined
<1>3. CASE f.kind \in Primitive
  <2>1. p \in 1..Len(b)
    BY <1>1, <1>3 DEF Span
  <2>2. f.kind \notin {"string", "local", "named"}
    BY <1>3, Kinds
  <2> QED  BY <1>2, <1>3, <2>1, <2>2 DEF At
<1>4. CASE f.kind = "string"
  <2>1. f.kind \notin Primitive
    BY <1>4, Kinds
  <2>2. p + 1 <= Len(b)
    BY <1>1, <1>4, <2>1 DEF Span
  <2>3. f.text \in Texts
    BY <1>4, FieldKinds
  <2>4. TextAt(b, p, f.text)
    BY <1>4 DEF At
  <2>5. TextAt(b \o c, p, f.text)
    BY <2>2, <2>3, <2>4, TextBefore
  <2> QED  BY <1>4, <2>1, <2>5 DEF At
<1>5. CASE f.kind = "local"
  <2>1. f.kind \notin Primitive
    BY <1>5, Kinds
  <2>2. p \in 1..Len(b) /\ p + 1 \in 1..Len(b)
    BY <1>1, <1>5, <2>1 DEF Span
  <2>3. (b \o c)[p] = b[p] /\ (b \o c)[p + 1] = b[p + 1]
    BY <1>2, <2>2
  <2>4. /\ b[p].value = 1
        /\ b[p + 1].value \in 0..(Len(g) - 1)
        /\ g[b[p + 1].value + 1] = f.function
    BY <1>5 DEF At
  <2>5. /\ b[p + 1].value \in 0..(Len(h) - 1)
        /\ h[b[p + 1].value + 1] = f.function
    <3> DEFINE j == b[p + 1].value
    <3>1. j \in 0..(Len(g) - 1) /\ g[j + 1] = f.function
      BY <2>4
    <3> HIDE DEF j
    <3>2. j + 1 \in 1..Len(g) /\ j \in 0..(Len(h) - 1)
      BY <3>1
    <3>3. h[j + 1] = g[j + 1]
      BY <3>2
    <3> QED  BY <3>1, <3>2, <3>3 DEF j
  <2> QED  BY <1>5, <2>1, <2>3, <2>4, <2>5 DEF At
<1>6. CASE f.kind = "named"
  <2>1. f.kind \notin Primitive
    BY <1>6, Kinds
  <2>2. p \in 1..Len(b) /\ p + 4 <= Len(b)
    BY <1>1, <1>6, <2>1 DEF Span
  <2>3. f.address \in Texts /\ f.name \in Texts
    BY <1>6, FieldKinds
  <2>4. b[p].value = 0 /\ TextAt(b, p + 1, f.address) /\ TextAt(b, p + 3, f.name)
    BY <1>6 DEF At
  <2>5. TextAt(b \o c, p + 1, f.address)
    <3>1. p + 1 \in Nat \ {0} /\ (p + 1) + 1 <= Len(b)
      BY <1>1, <2>2
    <3> QED  BY <2>3, <2>4, <3>1, TextBefore
  <2>6. TextAt(b \o c, p + 3, f.name)
    <3>1. p + 3 \in Nat \ {0} /\ (p + 3) + 1 <= Len(b)
      BY <1>1, <2>2
    <3> QED  BY <2>3, <2>4, <3>1, TextBefore
  <2> QED  BY <1>2, <1>6, <2>1, <2>2, <2>4, <2>5, <2>6 DEF At
<1> QED  BY <1>3, <1>4, <1>5, <1>6, FieldKinds

(* A field's encoding, appended to a buffer, is the field behind it. *)
LEMMA AtBehind ==
    ASSUME NEW b \in Seq(Chunks), NEW c \in Seq(Chunks), NEW f \in Field,
           NEW g, Len(c) = Span(f), At(c, g, 1, f)
    PROVE  At(b \o c, g, Len(b) + 1, f)
<1>1. Len(b) \in Nat /\ \A i \in 1..Len(c) : (b \o c)[Len(b) + i] = c[i]
  BY Joined
<1>2. CASE f.kind \in Primitive
  <2>1. 1 \in 1..Len(c)
    BY <1>2 DEF Span
  <2>2. f.kind \notin {"string", "local", "named"}
    BY <1>2, Kinds
  <2>3. c[1].value = f
    BY <1>2 DEF At
  <2> QED  BY <1>1, <1>2, <2>1, <2>2, <2>3 DEF At
<1>3. CASE f.kind = "string"
  <2>1. f.kind \notin Primitive
    BY <1>3, Kinds
  <2>2. 1 + 1 <= Len(c) /\ 1 \in Nat \ {0}
    BY <1>3, <2>1 DEF Span
  <2>3. f.text \in Texts /\ TextAt(c, 1, f.text)
    BY <1>3, FieldKinds DEF At
  <2>4. TextAt(b \o c, Len(b) + 1, f.text)
    BY <2>2, <2>3, TextBehind
  <2> QED  BY <1>3, <2>1, <2>4 DEF At
<1>4. CASE f.kind = "local"
  <2>1. f.kind \notin Primitive
    BY <1>4, Kinds
  <2>2. 1 \in 1..Len(c) /\ 2 \in 1..Len(c)
    BY <1>4, <2>1 DEF Span
  <2>3. (b \o c)[Len(b) + 1] = c[1] /\ (b \o c)[Len(b) + 2] = c[2]
    BY <1>1, <2>2
  <2>4. (Len(b) + 1) + 1 = Len(b) + 2
    BY <1>1
  <2>5. /\ c[1].value = 1
        /\ c[2].value \in 0..(Len(g) - 1)
        /\ g[c[2].value + 1] = f.function
    BY <1>4 DEF At
  <2> QED  BY <1>4, <2>1, <2>3, <2>4, <2>5 DEF At
<1>5. CASE f.kind = "named"
  <2>1. f.kind \notin Primitive
    BY <1>5, Kinds
  <2>2. Len(c) = 5
    BY <1>5, <2>1 DEF Span
  <2>3. f.address \in Texts /\ f.name \in Texts
    BY <1>5, FieldKinds
  <2>4. c[1].value = 0 /\ TextAt(c, 2, f.address) /\ TextAt(c, 4, f.name)
    BY <1>5 DEF At
  <2>5. TextAt(b \o c, Len(b) + 2, f.address)
    <3>1. 2 \in Nat \ {0} /\ 2 + 1 <= Len(c)
      BY <2>2
    <3> QED  BY ONLY <2>3, <2>4, <3>1, b \in Seq(Chunks), c \in Seq(Chunks), TextBehind
  <2>6. TextAt(b \o c, Len(b) + 4, f.name)
    <3>1. 4 \in Nat \ {0} /\ 4 + 1 <= Len(c)
      BY <2>2
    <3> QED  BY ONLY <2>3, <2>4, <3>1, b \in Seq(Chunks), c \in Seq(Chunks), TextBehind
  <2>7. (b \o c)[Len(b) + 1] = c[1]
    <3>1. 1 \in 1..Len(c)
      BY <2>2
    <3> QED  BY <1>1, <3>1
  <2>8. (Len(b) + 1) + 1 = Len(b) + 2 /\ (Len(b) + 1) + 3 = Len(b) + 4
    BY <1>1
  <2> QED  BY <1>5, <2>1, <2>4, <2>5, <2>6, <2>7, <2>8 DEF At
<1> QED  BY <1>2, <1>3, <1>4, <1>5, FieldKinds
-----------------------------------------------------------------------------
(* The writer *)

LEMMA Appended ==
    ASSUME NEW S, NEW s \in Seq(S), NEW x \in S
    PROVE  /\ Append(s, x) \in Seq(S)
           /\ Len(s) \in Nat /\ Len(Append(s, x)) = Len(s) + 1
           /\ \A i \in 1..Len(s) : Append(s, x)[i] = s[i]
           /\ Append(s, x)[Len(s) + 1] = x
BY AppendProperties, LenProperties

LEMMA SpanIsNat == \A f : Span(f) \in Nat \ {0}
BY DEF Span

LEMMA InitKeeps == ASSUME BInit PROVE BInv
<1>1. /\ fields = <<>> /\ localFunctions = <<>> /\ buffer = <<>> /\ result = <<>>
      /\ next = 1 /\ failed = FALSE /\ reading = FALSE /\ counting \in Countings
  BY DEF BInit
<1>2. fields \in Seq(Field) /\ localFunctions \in Seq(Functions)
      /\ result \in Seq(Found) /\ buffer \in Seq(Chunks)
  BY <1>1
<1>3. Len(fields) = 0 /\ Len(buffer) = 0 /\ Len(result) = 0 /\ DOMAIN result = {}
  BY <1>1
<1>4. BTypeOK
  <2>1. next \in 1..(Len(buffer) + 1)
    BY <1>1, <1>3
  <2>2. reading \in BOOLEAN /\ failed \in BOOLEAN
    BY <1>1
  <2> QED  BY <1>1, <1>2, <2>1, <2>2 DEF BTypeOK
<1>5. Phases
  BY <1>1, <1>3 DEF Phases
<1>6. InStep
  <2>1. Layout([k \in 1..1 |-> 1])
    BY <1>3 DEF Layout
  <2> QED  BY <1>1, <1>3, <2>1 DEF InStep
<1>7. ReadsBack /\ FunctionsResolve
  BY <1>3 DEF ReadsBack, FunctionsResolve
<1> QED  BY <1>2, <1>4, <1>5, <1>6, <1>7 DEF BInv

(* What a write adds to the layout: the field begins where the next one was *)
(* to begin, and the next one begins behind it.                             *)
LEMMA WriteKeepsLayout ==
    ASSUME BInv, NEW f \in Field, Write(f)
    PROVE  /\ buffer' \in Seq(Chunks)
           /\ localFunctions' \in Seq(Functions)
           /\ \E start : Layout(start)' /\ start[1] = 1
<1>1. /\ fields \in Seq(Field) /\ localFunctions \in Seq(Functions)
      /\ buffer \in Seq(Chunks)
  BY DEF BInv, BTypeOK
<1> DEFINE n == Len(fields)
           g == localFunctions
           h == localFunctions'
           c == Encoded(f, Len(h) - 1)
<1>2. /\ fields' = Append(fields, f) /\ buffer' = buffer \o c
      /\ h = IF f.kind = "local" THEN Append(g, f.function) ELSE g
  BY DEF Write
<1>3. /\ h \in Seq(Functions) /\ Len(g) \in Nat /\ Len(h) \in Nat /\ Len(g) <= Len(h)
      /\ \A i \in 1..Len(g) : h[i] = g[i]
      /\ f.kind = "local" => Len(h) = Len(g) + 1 /\ h[Len(h)] = f.function
  <2>1. CASE f.kind = "local"
    <3>1. f.function \in Functions
      BY <2>1, FieldKinds
    <3>2. h = Append(g, f.function)
      BY <1>2, <2>1
    <3> QED  BY <1>1, <3>1, <3>2, Appended
  <2>2. CASE f.kind # "local"
    BY <1>1, <1>2, <2>2, LenProperties
  <2> QED  BY <2>1, <2>2
<1>4. /\ c \in Seq(Chunks) /\ Len(c) = Span(f) /\ At(c, h, 1, f)
  <2>1. Len(h) - 1 \in Int
    BY <1>3
  <2>2. f.kind = "local" => /\ Len(h) - 1 \in 0..(Len(h) - 1)
                            /\ h[(Len(h) - 1) + 1] = f.function
    BY <1>3
  <2> QED  BY <2>1, <2>2, EncodedShape
<1>5. /\ fields' \in Seq(Field) /\ n \in Nat /\ Len(fields') = n + 1
      /\ \A i \in 1..n : fields'[i] = fields[i]
      /\ fields'[n + 1] = f
  BY <1>1, <1>2, Appended
<1>6. PICK start : Layout(start)
  BY DEF BInv, InStep
<1> HIDE DEF c
<1>7. /\ buffer' \in Seq(Chunks) /\ Len(buffer) \in Nat
      /\ Len(buffer') = Len(buffer) + Span(f)
  <2>1. buffer \in Seq(Chunks) /\ c \in Seq(Chunks)
    BY <1>1, <1>4
  <2>2. buffer \o c \in Seq(Chunks) /\ Len(buffer) \in Nat
        /\ Len(buffer \o c) = Len(buffer) + Len(c)
    BY ONLY <2>1, Joined
  <2> QED  BY <1>2, <1>4, <2>2
<1>8. PICK longer : longer = [k \in 1..(n + 2) |->
                                 IF k <= n + 1 THEN start[k] ELSE Len(buffer')+ 1]
  OBVIOUS
<1> HIDE DEF h
<1>9. /\ longer[1] = 1
      /\ \A i \in 1..(n + 1) : longer[i] = start[i]
      /\ longer[n + 1] = Len(buffer) + 1 /\ longer[n + 2] = Len(buffer') + 1
  BY <1>5, <1>6, <1>8 DEF Layout
<1>10. longer \in [1..(n + 2) -> 1..(Len(buffer') + 1)]
  <2>1. \A k \in 1..(n + 1) : start[k] \in 1..(Len(buffer) + 1)
    BY <1>6 DEF Layout
  <2>2. \A k \in 1..(n + 1) : start[k] \in 1..(Len(buffer') + 1)
    BY <1>7, <2>1, SpanIsNat
  <2>3. Len(buffer') + 1 \in 1..(Len(buffer') + 1)
    BY <1>7, SpanIsNat
  <2>4. \A k \in 1..(n + 2) : k <= n + 1 => k \in 1..(n + 1)
    BY <1>5
  <2> QED  BY <1>8, <2>2, <2>3, <2>4
<1>11. ASSUME NEW i \in 1..(n + 1)
       PROVE  /\ longer[i + 1] = longer[i] + Span(fields'[i])
              /\ At(buffer', h, longer[i], fields'[i])
  <2>1. CASE i = n + 1
    <3>1. fields'[i] = f /\ longer[i] = Len(buffer) + 1
          /\ longer[i + 1] = Len(buffer') + 1
      BY <1>5, <1>9, <2>1
    <3>2. Len(buffer') + 1 = (Len(buffer) + 1) + Span(f)
      BY <1>7, SpanIsNat
    <3>3. At(buffer \o c, h, Len(buffer) + 1, f)
      BY <1>1, <1>4, AtBehind
    <3> QED  BY <1>2, <3>1, <3>2, <3>3
  <2>2. CASE i # n + 1
    <3>1. i \in 1..n /\ i + 1 \in 1..(n + 1)
      BY <1>5, <2>2
    <3>2. /\ fields'[i] = fields[i] /\ fields[i] \in Field
          /\ longer[i] = start[i] /\ longer[i + 1] = start[i + 1]
      BY <1>1, <1>5, <1>9, <3>1
    <3>3. /\ start[i + 1] = start[i] + Span(fields[i])
          /\ At(buffer, g, start[i], fields[i])
          /\ start[i + 1] \in 1..(Len(buffer) + 1)
          /\ start[i] \in 1..(Len(buffer) + 1)
      BY <1>6, <3>1 DEF Layout
    <3>4. start[i] \in Nat \ {0} /\ start[i] + Span(fields[i]) <= Len(buffer) + 1
      BY <1>7, <3>3
    <3>5. At(buffer \o c, h, start[i], fields[i])
      BY <1>1, <1>3, <1>4, <3>2, <3>3, <3>4, AtKept
    <3> QED  BY <1>2, <3>2, <3>3, <3>5
  <2> QED  BY <2>1, <2>2
<1>12. Layout(longer)'
  <2>1. /\ longer \in [1..(Len(fields') + 1) -> 1..(Len(buffer') + 1)]
        /\ longer[Len(fields') + 1] = Len(buffer') + 1
    <3>1. Len(fields') + 1 = n + 2
      BY <1>5
    <3> QED  BY <1>9, <1>10, <3>1
  <2>2. \A i \in 1..Len(fields') :
           /\ longer[i + 1] = longer[i] + Span(fields'[i])
           /\ At(buffer', localFunctions', longer[i], fields'[i])
    BY <1>5, <1>11 DEF h
  <2> QED  BY <1>9, <2>1, <2>2 DEF Layout
<1> QED  BY <1>3, <1>7, <1>9, <1>12 DEF h

LEMMA WriteKeeps ==
    ASSUME BInv, NEW f \in Field, Write(f)
    PROVE  BInv'
<1>1. /\ ~reading /\ fields' = Append(fields, f)
      /\ UNCHANGED <<reading, next, result, failed, counting>>
  BY DEF Write
<1>2. result = <<>> /\ next = 1 /\ ~failed /\ Len(result) = 0 /\ DOMAIN result = {}
  BY <1>1 DEF BInv, Phases
<1>3. fields' \in Seq(Field) /\ Len(fields') \in Nat
  BY Appended, <1>1, LenProperties DEF BInv, BTypeOK
<1>4. /\ buffer' \in Seq(Chunks) /\ localFunctions' \in Seq(Functions)
      /\ \E start : Layout(start)' /\ start[1] = 1
  BY WriteKeepsLayout
<1>5. Len(buffer') \in Nat
  BY <1>4, LenProperties
<1>6. BTypeOK'
  BY <1>1, <1>2, <1>3, <1>4, <1>5 DEF BInv, BTypeOK
<1>7. Phases'
  BY <1>1, <1>2, <1>3 DEF Phases
<1>8. InStep'
  BY <1>1, <1>2, <1>4 DEF InStep
<1>9. ReadsBack' /\ FunctionsResolve'
  BY <1>1, <1>2 DEF ReadsBack, FunctionsResolve
<1> QED  BY <1>4, <1>6, <1>7, <1>8, <1>9 DEF BInv

LEMMA BuildKeeps == ASSUME BInv, BuildBinary PROVE BInv'
<1>1. reading' = TRUE
      /\ UNCHANGED <<fields, localFunctions, buffer, next, result, failed, counting>>
  BY DEF BuildBinary
<1>2. BTypeOK' /\ Phases'
  BY <1>1 DEF BInv, BTypeOK, Phases
<1>3. InStep'
  BY <1>1 DEF BInv, InStep, Layout
<1>4. ReadsBack' /\ FunctionsResolve'
  BY <1>1 DEF BInv, ReadsBack, FunctionsResolve, Plain
<1> QED  BY <1>1, <1>2, <1>3, <1>4 DEF BInv
-----------------------------------------------------------------------------
(* The reader *)

(* A reader that is to read a field stands at its beginning. *)
LEMMA Here ==
    ASSUME BInv, NEW kinds, Reads(kinds)
    PROVE  LET k == Len(result) + 1
           IN  /\ k \in 1..Len(fields) /\ fields[k] \in Field
               /\ fields[k].kind \in kinds
               /\ At(buffer, localFunctions, next, fields[k])
<1>1. /\ fields \in Seq(Field) /\ result \in Seq(Found)
  BY DEF BInv, BTypeOK
<1>2. /\ Len(result) \in Nat /\ Len(fields) \in Nat
  BY <1>1, LenProperties
<1>3. ~failed /\ Len(result) < Len(fields) /\ fields[Len(result) + 1].kind \in kinds
  BY DEF Reads
<1>4. Len(result) + 1 \in 1..Len(fields)
  BY <1>2, <1>3
<1>5. PICK start : Layout(start) /\ next = start[Len(result) + 1]
  BY <1>3 DEF BInv, InStep
<1>6. At(buffer, localFunctions, next, fields[Len(result) + 1])
  BY <1>4, <1>5 DEF Layout
<1> QED  BY <1>1, <1>3, <1>4, <1>6

(* A call of the reader that takes the chunks of the field it was called    *)
(* for and returns that field, or loses its place, keeps the invariant.     *)
LEMMA ReadKeeps ==
    ASSUME BInv, NEW kinds, Reads(kinds), NEW r \in Found,
           failed' \in BOOLEAN,
           next' = next + Span(fields[Len(result) + 1]),
           result' = Append(result, r) \/ (result' = result /\ failed'),
           (counting = "chars" \/ Plain(fields[Len(result) + 1])) =>
               r = fields[Len(result) + 1] \/ fields[Len(result) + 1].kind = "local",
           r.kind = "local" =>
               /\ r.id < Len(localFunctions)
               /\ localFunctions[r.id + 1] = fields[Len(result) + 1].function
    PROVE  BInv'
<1> DEFINE k == Len(result) + 1
<1>1. /\ fields \in Seq(Field) /\ result \in Seq(Found) /\ buffer \in Seq(Chunks)
      /\ localFunctions \in Seq(Functions)
  BY DEF BInv, BTypeOK
<1>2. /\ reading /\ ~failed
      /\ UNCHANGED <<fields, localFunctions, buffer, reading, counting>>
  BY DEF Reads
<1>3. /\ Len(result) \in Nat /\ Len(fields) \in Nat /\ Len(buffer) \in Nat
      /\ k \in 1..Len(fields)
  BY <1>1, Here, LenProperties
<1>4. PICK start : Layout(start) /\ next = start[k]
  BY <1>2 DEF BInv, InStep
<1>5. next' = start[k + 1] /\ next' \in 1..(Len(buffer) + 1)
  <2>1. start[k + 1] = start[k] + Span(fields[k])
    BY <1>3, <1>4 DEF Layout
  <2>2. k + 1 \in 1..(Len(fields) + 1)
    BY <1>3
  <2>3. start[k + 1] \in 1..(Len(buffer) + 1)
    BY <1>4, <2>2 DEF Layout
  <2> QED  BY <1>4, <2>1, <2>3
<1>6. /\ result' \in Seq(Found) /\ Len(result') \in Nat /\ Len(result') <= Len(fields)
      /\ ~failed' => Len(result') = k
      /\ DOMAIN result' \subseteq 1..k
      /\ \A i \in DOMAIN result' \ {k} : i \in DOMAIN result /\ result'[i] = result[i]
      /\ k \in DOMAIN result' => result'[k] = r
  <2>1. CASE result' = Append(result, r)
    <3>1. /\ result' \in Seq(Found) /\ Len(result') = k /\ result'[k] = r
          /\ \A i \in 1..Len(result) : result'[i] = result[i]
      BY <1>1, <2>1, Appended
    <3>2. DOMAIN result = 1..Len(result) /\ DOMAIN result' = 1..k
      BY <1>1, <3>1, LenProperties
    <3> QED  BY <1>3, <3>1, <3>2
  <2>2. CASE result' = result /\ failed'
    <3>1. DOMAIN result = 1..Len(result)
      BY <1>1, LenProperties
    <3> QED  BY <1>1, <1>3, <2>2, <3>1
  <2> QED  BY <2>1, <2>2
<1>7. BTypeOK'
  <2>1. next' \in 1..(Len(buffer') + 1)
    BY <1>2, <1>5
  <2> QED  BY <1>2, <1>6, <2>1 DEF BInv, BTypeOK
<1>8. Phases'
  BY <1>2, <1>6 DEF Phases
<1>9. InStep'
  <2>1. Layout(start)'
    BY <1>2, <1>4 DEF Layout
  <2>2. ~failed' => next' = start[Len(result') + 1]
    BY <1>5, <1>6
  <2> QED  BY <2>1, <2>2 DEF InStep
<1>10. ReadsBack'
  <2> SUFFICES ASSUME NEW i \in DOMAIN result',
                      counting = "chars" \/ \A j \in 1..i : Plain(fields[j])
               PROVE  result'[i] = fields[i] \/ fields[i].kind = "local"
    BY <1>2 DEF ReadsBack, Plain
  <2>1. CASE i = k
    <3>1. i \in 1..i
      BY <1>3, <2>1
    <3> QED  BY <1>6, <2>1, <3>1
  <2>2. CASE i # k
    BY <1>6, <2>2 DEF BInv, ReadsBack
  <2> QED  BY <2>1, <2>2
<1>11. FunctionsResolve'
  <2> SUFFICES ASSUME NEW i \in DOMAIN result', result'[i].kind = "local"
               PROVE  /\ result'[i].id < Len(localFunctions)
                      /\ localFunctions[result'[i].id + 1] = fields[i].function
    BY <1>2 DEF FunctionsResolve
  <2>1. CASE i = k
    BY <1>6, <2>1
  <2>2. CASE i # k
    BY <1>6, <2>2 DEF BInv, FunctionsResolve
  <2> QED  BY <2>1, <2>2
<1> QED  BY <1>1, <1>2, <1>7, <1>8, <1>9, <1>10, <1>11 DEF BInv

(* A text at the chunk after its length is read whole if its bytes are as   *)
(* many as its units; a text that is cut short is a text all the same.      *)
LEMMA TextRead ==
    ASSUME NEW t \in Texts, NEW p, TextAt(buffer, p, t)
    PROVE  /\ Text(p + 1, buffer[p].value) \in AnyText
           /\ Whole(p + 1, buffer[p].value) => Text(p + 1, buffer[p].value) = t
           /\ counting = "chars" \/ t.chars = t.bytes => Whole(p + 1, buffer[p].value)
<1>1. buffer[p].value = t.chars /\ buffer[p + 1].value = t
      /\ buffer[p + 1].size = t.bytes
  BY DEF TextAt
<1>2. t \in AnyText /\ t.chars \in Nat
  BY TextsAssumption DEF AnyText
<1> QED  BY <1>1, <1>2 DEF Text, Whole, AnyText

LEMMA PrimitiveKeeps == ASSUME BInv, ReadPrimitive PROVE BInv'
<1> DEFINE f == fields[Len(result) + 1]
<1>1. Reads(Primitive) /\ result' = Append(result, buffer[next].value)
      /\ next' = next + 1 /\ failed' = failed
  BY DEF ReadPrimitive, Primitive
<1>2. f \in Field /\ f.kind \in Primitive /\ At(buffer, localFunctions, next, f)
  BY <1>1, Here
<1>3. f.kind \notin {"string", "local", "named"}
  BY <1>2, Kinds
<1>4. buffer[next].value = f /\ Span(f) = 1 /\ f \in Found
  BY <1>2 DEF At, Span, Found
<1>5. failed' \in BOOLEAN
  BY <1>1 DEF BInv, BTypeOK
<1> QED  BY <1>1, <1>3, <1>4, <1>5, ReadKeeps

LEMMA StringKeeps == ASSUME BInv, ReadString PROVE BInv'
<1> DEFINE f == fields[Len(result) + 1]
           r == [kind |-> "string", text |-> Text(next + 1, buffer[next].value)]
<1>1. /\ Reads({"string"}) /\ result' = Append(result, r) /\ next' = next + 2
      /\ failed' = ~Whole(next + 1, buffer[next].value)
  BY DEF ReadString
<1>2. f \in Field /\ f.kind = "string" /\ At(buffer, localFunctions, next, f)
  BY <1>1, Here
<1>3. f.text \in Texts /\ f = [kind |-> "string", text |-> f.text]
  BY <1>2, FieldKinds
<1>4. TextAt(buffer, next, f.text)
  BY <1>2 DEF At
<1>5. r \in Found /\ r.kind = "string"
  BY <1>3, <1>4, TextRead DEF Found
<1>6. counting = "chars" \/ Plain(f) => r = f
  BY <1>2, <1>3, <1>4, TextRead DEF Plain
<1>7. Span(f) = 2
  BY <1>2, Kinds DEF Span
<1>8. failed' \in BOOLEAN
  BY <1>1 DEF Whole
<1> HIDE DEF r
<1> QED  BY <1>1, <1>5, <1>6, <1>7, <1>8, ReadKeeps

LEMMA NamedKeeps == ASSUME BInv, ReadNamedFunction PROVE BInv'
<1> DEFINE f == fields[Len(result) + 1]
           a == buffer[next + 1].value
           n == buffer[next + 3].value
           r == [kind |-> "named", address |-> Text(next + 2, a), name |-> Text(next + 4, n)]
<1>1. /\ Reads({"local", "named"}) /\ buffer[next].value = 0 /\ next' = next + 5
      /\ IF Whole(next + 2, a) THEN result' = Append(result, r) ELSE result' = result
      /\ failed' = ~(Whole(next + 2, a) /\ Whole(next + 4, n))
  BY DEF ReadNamedFunction
<1>2. f \in Field /\ f.kind \in {"local", "named"} /\ At(buffer, localFunctions, next, f)
  BY <1>1, Here
<1>3. f.kind = "named"
  BY <1>1, <1>2 DEF At
<1>4. /\ f.address \in Texts /\ f.name \in Texts
      /\ f = [kind |-> "named", address |-> f.address, name |-> f.name]
  BY <1>2, <1>3, FieldKinds
<1>5. TextAt(buffer, next + 1, f.address) /\ TextAt(buffer, next + 3, f.name)
  BY <1>2, <1>3 DEF At
<1>6. /\ Whole(next + 2, a) => Text(next + 2, a) = f.address
      /\ Whole(next + 4, n) => Text(next + 4, n) = f.name
      /\ Text(next + 4, n) \in AnyText
      /\ counting = "chars" \/ f.address.chars = f.address.bytes => Whole(next + 2, a)
      /\ counting = "chars" \/ f.name.chars = f.name.bytes => Whole(next + 4, n)
  <2>1. (next + 1) + 1 = next + 2 /\ (next + 3) + 1 = next + 4
    BY DEF BInv, BTypeOK
  <2> QED  BY <1>4, <1>5, <2>1, TextRead
<1>7. Span(f) = 5
  BY <1>3, Kinds DEF Span
<1>8. failed' \in BOOLEAN
  BY <1>1
<1>9. CASE Whole(next + 2, a)
  <2>1. r \in Found /\ r.kind = "named"
    BY <1>4, <1>6, <1>9 DEF Found
  <2>2. counting = "chars" \/ Plain(f) => r = f
    BY <1>3, <1>4, <1>6 DEF Plain
  <2>3. result' = Append(result, r)
    BY <1>1, <1>9
  <2> HIDE DEF r
  <2> QED  BY <1>1, <1>7, <1>8, <2>1, <2>2, <2>3, ReadKeeps
<1>10. CASE ~Whole(next + 2, a)
  <2>1. f \in Found /\ f.kind # "local"
    BY <1>2, <1>3 DEF Found
  <2>2. result' = result /\ failed'
    BY <1>1, <1>10
  <2> QED  BY <1>1, <1>7, <1>8, <2>1, <2>2, ReadKeeps
<1> QED  BY <1>9, <1>10

LEMMA TheirsKeeps == ASSUME BInv, ReadTheirFunction PROVE BInv'
<1> DEFINE f == fields[Len(result) + 1]
           r == [kind |-> "local", id |-> buffer[next + 1].value]
<1>1. /\ Reads({"local", "named"}) /\ buffer[next].value = 1 /\ next' = next + 2
      /\ result' = Append(result, r) /\ failed' = TRUE
  BY DEF ReadTheirFunction
<1>2. f \in Field /\ f.kind \in {"local", "named"} /\ At(buffer, localFunctions, next, f)
  BY <1>1, Here
<1>3. f.kind = "local"
  BY <1>1, <1>2 DEF At
<1>4. /\ buffer[next + 1].value \in 0..(Len(localFunctions) - 1)
      /\ localFunctions[buffer[next + 1].value + 1] = f.function
  BY <1>2, <1>3 DEF At
<1>5. /\ r \in Found /\ r.id < Len(localFunctions)
      /\ localFunctions[r.id + 1] = f.function
  <2>1. Len(localFunctions) \in Nat
    BY LenProperties DEF BInv, BTypeOK
  <2>2. buffer[next + 1].value \in Nat /\ buffer[next + 1].value < Len(localFunctions)
    BY <1>4, <2>1
  <2> QED  BY <1>4, <2>2 DEF Found
<1>6. Span(f) = 2
  BY <1>3, Kinds DEF Span
<1> HIDE DEF r
<1> QED  BY <1>1, <1>3, <1>5, <1>6, ReadKeeps

-----------------------------------------------------------------------------
(* The theorems *)

LEMMA BStepKeeps == ASSUME BInv, [BNext]_bvars PROVE BInv'
<1>1. ASSUME NEW f \in Field, Write(f) PROVE BInv'
  BY <1>1, WriteKeeps
<1>2. CASE UNCHANGED bvars
  <2>1. UNCHANGED <<fields, localFunctions, buffer, reading, next, result, failed, counting>>
    BY <1>2 DEF bvars
  <2>2. BTypeOK' /\ (buffer \in Seq(Chunks))' /\ Phases'
    BY <2>1 DEF BInv, BTypeOK, Phases
  <2>3. InStep'
    BY <2>1 DEF BInv, InStep, Layout
  <2>4. ReadsBack' /\ FunctionsResolve'
    BY <2>1 DEF BInv, ReadsBack, FunctionsResolve, Plain
  <2> QED  BY <2>2, <2>3, <2>4 DEF BInv
<1> QED  BY <1>1, <1>2, BuildKeeps, PrimitiveKeeps, StringKeeps, NamedKeeps,
            TheirsKeeps DEF BNext

LEMMA BInvHolds == BSpec => []BInv
<1>1. BInit => BInv
  BY InitKeeps
<1>2. BInv /\ [BNext]_bvars => BInv'
  BY BStepKeeps
<1> QED  BY <1>1, <1>2, PTL DEF BSpec

(* The reader of BinaryPayload.kt never stands beyond the end of the bytes  *)
(* and returns nothing but fields, numbers of functions and cut texts.      *)
THEOREM PayloadTypes == BSpec => []BTypeOK
<1>1. BInv => BTypeOK
  BY DEF BInv
<1> QED  BY <1>1, BInvHolds, PTL

(* Whatever calls the writer was given, in whatever order, the same calls   *)
(* of the reader return what was written, up to the first text whose bytes  *)
(* are more than its units where readUtf8String counts bytes: the two       *)
(* classes agree on every field although the bytes carry no kinds.          *)
THEOREM FieldsReadBack == BSpec => []ReadsBack
<1>1. BInv => ReadsBack
  BY DEF BInv
<1> QED  BY <1>1, BInvHolds, PTL

(* The number that arrives for a local function is its index in the         *)
(* localFunctions of the writer, for any number of functions and whatever   *)
(* is written between them.                                                 *)
THEOREM FunctionsFound == BSpec => []FunctionsResolve
<1>1. BInv => FunctionsResolve
  BY DEF BInv
<1> QED  BY <1>1, BInvHolds, PTL
=============================================================================
