---------------------------- MODULE BinaryPayload ----------------------------
(***************************************************************************)
(* BinaryPayloadWriter and BinaryPayloadReader: fields written one after   *)
(* another into a buffer without any mark of their kind, and read back by  *)
(* the same sequence of calls.  The buffer is a sequence of chunks, each a *)
(* value and the bytes it takes; a reader that takes fewer bytes than a    *)
(* chunk has ends in the middle of it, and nothing it reads from there on  *)
(* means anything.                                                         *)
(***************************************************************************)
EXTENDS Integers, Sequences

CONSTANTS Texts,        \* strings: [chars: UTF-16 units, bytes: length in UTF-8]
          Functions,    \* local functions
          MaxFields,    \* bound on the fields of a payload
          Countings     \* readUtf8String(length) counts "chars" or "bytes"

ASSUME TextsAssumption == Texts \subseteq [chars : Nat, bytes : Nat]
ASSUME CountAssumption == Countings \subseteq {"chars", "bytes"} /\ Countings # {}

Width == [byte |-> 1, boolean |-> 1, int |-> 4, double |-> 8]

Field == [kind : DOMAIN Width]
         \cup [kind : {"string"}, text : Texts]
         \cup [kind : {"local"}, function : Functions]
         \cup [kind : {"named"}, address : Texts, name : Texts]

VARIABLES fields,         \* what the writer was given, in order
          localFunctions, \* PayloadWriter.localFunctions
          buffer,         \* bytePacketBuilder, then the reader's bytePacket
          reading,        \* buildBinary was called and a reader created
          next,           \* the chunk the reader is at the beginning of
          result,         \* what the reader found, in order
          failed,         \* the reader threw or is in the middle of a chunk
          counting        \* what the library's readUtf8String counts

bvars == <<fields, localFunctions, buffer, reading, next, result, failed, counting>>

(* What a reader can return: a text that was cut short is none of Texts. *)
AnyText == [chars : Nat, bytes : Nat]
Found == Field \cup [kind : {"local"}, id : Nat]
               \cup [kind : {"string"}, text : AnyText]
               \cup [kind : {"named"}, address : Texts, name : AnyText]

BTypeOK == /\ fields \in Seq(Field)
           /\ localFunctions \in Seq(Functions)
           /\ next \in 1..(Len(buffer) + 1)
           /\ result \in Seq(Found)
           /\ reading \in BOOLEAN /\ failed \in BOOLEAN
           /\ counting \in Countings

-----------------------------------------------------------------------------
(* The encoding *)

Chunk(v, w) == <<[value |-> v, size |-> w]>>

(* writeString: the length in UTF-16 units, then the text in UTF-8. *)
StringChunks(t) == Chunk(t.chars, Width.int) \o Chunk(t, t.bytes)

(* Fault: the name before the address. *)
Encoded_NameFirst(f, id) ==
    CASE f.kind \in DOMAIN Width -> Chunk(f, Width[f.kind])
      [] f.kind = "string"       -> StringChunks(f.text)
      [] f.kind = "local"        -> Chunk(1, 1) \o Chunk(id, Width.int)
      [] f.kind = "named"        -> Chunk(0, 1) \o StringChunks(f.name)
                                                \o StringChunks(f.address)

(* What the writer's call for a field appends; id is the number that        *)
(* putLocalFunction returned.                                               *)
Encoded(f, id) ==
    CASE f.kind \in DOMAIN Width -> Chunk(f, Width[f.kind])
      [] f.kind = "string"       -> StringChunks(f.text)
      [] f.kind = "local"        -> Chunk(1, 1) \o Chunk(id, Width.int)
      [] f.kind = "named"        -> Chunk(0, 1) \o StringChunks(f.address)
                                                \o StringChunks(f.name)

(* readUtf8String(n) at chunk i takes the whole text: always when it counts *)
(* characters; when it counts bytes, only a text with as many as units.     *)
Whole(i, n) == counting = "chars" \/ n = buffer[i].size

(* The text it returns: a text with more bytes than units is cut short. *)
Text(i, n) == IF Whole(i, n) THEN buffer[i].value
                             ELSE [chars |-> n, bytes |-> n]

-----------------------------------------------------------------------------
(* The writer *)

BInit == /\ fields = <<>> /\ localFunctions = <<>> /\ buffer = <<>>
         /\ reading = FALSE /\ next = 1 /\ result = <<>> /\ failed = FALSE
         /\ counting \in Countings

(* Fault: the number of a function is its position counted from 1. *)
Write_SizeForIndex(f) ==
    /\ ~reading /\ Len(fields) < MaxFields
    /\ fields' = Append(fields, f)
    /\ localFunctions' = IF f.kind = "local" THEN Append(localFunctions, f.function)
                                             ELSE localFunctions
    /\ buffer' = buffer \o Encoded(f, Len(localFunctions'))
    /\ UNCHANGED <<reading, next, result, failed, counting>>

(* A call of the writer.  putLocalFunction returns the last index of its    *)
(* list, counted from 0.                                                    *)
Write(f) ==
    /\ ~reading /\ Len(fields) < MaxFields
    /\ fields' = Append(fields, f)
    /\ localFunctions' = IF f.kind = "local" THEN Append(localFunctions, f.function)
                                             ELSE localFunctions
    /\ buffer' = buffer \o Encoded(f, Len(localFunctions') - 1)
    /\ UNCHANGED <<reading, next, result, failed, counting>>

(* buildBinary; the bytes reach a reader. *)
BuildBinary ==
    /\ ~reading
    /\ reading' = TRUE
    /\ UNCHANGED <<fields, localFunctions, buffer, next, result, failed, counting>>

-----------------------------------------------------------------------------
(* The reader, called for the kinds of the fields that were written *)

Reads(kinds) == /\ reading /\ ~failed
                /\ Len(result) < Len(fields)
                /\ fields[Len(result) + 1].kind \in kinds
                /\ UNCHANGED <<fields, localFunctions, buffer, reading, counting>>

(* readByte, readBoolean, readInt, readDouble. *)
ReadPrimitive ==
    /\ Reads(DOMAIN Width)
    /\ result' = Append(result, buffer[next].value)
    /\ next' = next + 1
    /\ UNCHANGED failed

(* Fault: the length is read once more before the text. *)
ReadString_TwoLengths ==
    /\ Reads({"string"})
    /\ LET n == buffer[next].value IN
       /\ result' = Append(result, [kind |-> "string", text |-> Text(next + 1, n)])
       /\ failed' = ~Whole(next + 1, n)
    /\ next' = next + 3

ReadString ==
    /\ Reads({"string"})
    /\ LET n == buffer[next].value IN
       /\ result' = Append(result, [kind |-> "string", text |-> Text(next + 1, n)])
       /\ failed' = ~Whole(next + 1, n)
    /\ next' = next + 2

(* readRemoteFunctionLink, tag 0.  A reader that loses its place in the     *)
(* address reads the length of the name from the rest of it.                *)
ReadNamedFunction ==
    /\ Reads({"local", "named"}) /\ buffer[next].value = 0
    /\ LET a == buffer[next + 1].value
           n == buffer[next + 3].value IN
       /\ IF Whole(next + 2, a)
          THEN result' = Append(result, [kind |-> "named", address |-> Text(next + 2, a),
                                                           name |-> Text(next + 4, n)])
          ELSE UNCHANGED result
       /\ failed' = ~(Whole(next + 2, a) /\ Whole(next + 4, n))
    /\ next' = next + 5

(* readRemoteFunctionLink, tag 1: getTheirFunction(id) is a TODO and throws. *)
ReadTheirFunction ==
    /\ Reads({"local", "named"}) /\ buffer[next].value = 1
    /\ result' = Append(result, [kind |-> "local", id |-> buffer[next + 1].value])
    /\ next' = next + 2
    /\ failed' = TRUE

BNext == \/ \E f \in Field : Write(f)
         \/ BuildBinary
         \/ ReadPrimitive \/ ReadString \/ ReadNamedFunction \/ ReadTheirFunction

BSpec == BInit /\ [][BNext]_bvars

-----------------------------------------------------------------------------
(* Properties *)

Plain(f) == /\ f.kind = "string" => f.text.chars = f.text.bytes
            /\ f.kind = "named" => /\ f.address.chars = f.address.bytes
                                   /\ f.name.chars = f.name.bytes

(* The bytes carry no kinds: a field is read back as it was written if the  *)
(* reader is still at its beginning.  It is if readUtf8String counts        *)
(* characters; if it counts bytes, up to the first text beyond ASCII.       *)
ReadsBack ==
    \A i \in DOMAIN result :
        (counting = "chars" \/ \A j \in 1..i : Plain(fields[j])) =>
            result[i] = fields[i] \/ fields[i].kind = "local"

(* "Puts local function to the payload and returns its ID": the number that *)
(* arrives in place of a function is its index in localFunctions, however   *)
(* fields of other kinds are mixed with it.                                 *)
FunctionsResolve ==
    \A i \in DOMAIN result :
        result[i].kind = "local" =>
            /\ result[i].id < Len(localFunctions)
            /\ localFunctions[result[i].id + 1] = fields[i].function
=============================================================================
