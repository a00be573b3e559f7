-------------------------------- MODULE Wire ---------------------------------
(***************************************************************************)
(* The encoding of a process info between the preload library and the      *)
(* server: the field descriptors generated for C (client/src/ogrt.pb-c.c)  *)
(* and what libprotobuf-c packs by them; the struct tags generated for Go  *)
(* (server/src/protocol/ogrt.pb.go) and what goprotobuf decodes by them.   *)
(*                                                                         *)
(* A message in memory is a record of its fields.  A packed message is a   *)
(* sequence of fields, each a number, a wire type and a value; the value   *)
(* of a nested message is again packed.                                    *)
(***************************************************************************)
EXTENDS Integers, SequencesExt

CONSTANT NULL

\* The elements of the sequence that are in the set, in their order.
Only(seq, set) ==
  LET upto[n \in 0..Len(seq)] ==
        IF n = 0 THEN <<>>
        ELSE IF seq[n] \in set THEN Append(upto[n - 1], seq[n])
        ELSE upto[n - 1]
  IN  upto[Len(seq)]

\* The types of messages.
MessageType == [JobStartMsg |-> 10, JobEndMsg |-> 11, ProcessInfoMsg |-> 12,
                SharedObjectMsg |-> 13, ForkMsg |-> 14, ExecveMsg |-> 15]

-----------------------------------------------------------------------------
(* The client.                                                             *)

Field(name, id, label, type) == [name |-> name, id |-> id, label |-> label, type |-> type]

SharedObjectFields ==
  << Field("path",      400, "required", "string"),
     Field("signature", 401, "optional", "string") >>

ModuleFields == << Field("name", 700, "required", "string") >>

\* Faulty variant: the numbers of two fields are confused.
ProcessInfoFieldsSwapped ==
  << Field("binpath",    300, "required", "string"),
     Field("pid",        301, "required", "int32"),
     Field("parent_pid", 302, "required", "int32"),
     Field("time",       303, "required", "int64"),
     Field("signature",  304, "optional", "string"),
     Field("job_id",     305, "optional", "string"),
     Field("username",   307, "optional", "string"),
     Field("hostname",   306, "optional", "string"),
     Field("cmdline",    308, "optional", "string"),
     Field("environment_variables", 309, "repeated", "string"),
     Field("arguments",             310, "repeated", "string"),
     Field("shared_objects",        311, "repeated", "SharedObject"),
     Field("loaded_modules",        312, "repeated", "Module") >>

ProcessInfoFields ==
  << Field("binpath",    300, "required", "string"),
     Field("pid",        301, "required", "int32"),
     Field("parent_pid", 302, "required", "int32"),
     Field("time",       303, "required", "int64"),
     Field("signature",  304, "optional", "string"),
     Field("job_id",     305, "optional", "string"),
     Field("username",   306, "optional", "string"),
     Field("hostname",   307, "optional", "string"),
     Field("cmdline",    308, "optional", "string"),
     Field("environment_variables", 309, "repeated", "string"),
     Field("arguments",             310, "repeated", "string"),
     Field("shared_objects",        311, "repeated", "SharedObject"),
     Field("loaded_modules",        312, "repeated", "Module") >>

WireType(type) == IF type \in {"int32", "int64"} THEN "varint" ELSE "bytes"

\* A required string that is NULL is packed as an empty one, an optional one
\* is left out, of a repeated field each element is packed.
PackField(field, value) ==
  LET entry(v) == [id |-> field.id, wire |-> WireType(field.type), value |-> v]
  IN  IF field.label = "repeated" THEN [k \in DOMAIN value |-> entry(value[k])]
      ELSE IF field.label = "optional" /\ value = NULL THEN <<>>
      ELSE << entry(IF value = NULL THEN "" ELSE value) >>

\* The fields in the order of their numbers.
PackFields(fields, msg) ==
  FlattenSeq([k \in DOMAIN fields |-> PackField(fields[k], msg[fields[k].name])])

\* ogrt__process_info__pack: the messages within are packed like it.
Pack(msg) ==
  PackFields(ProcessInfoFields,
    [msg EXCEPT !.shared_objects = [k \in DOMAIN @ |-> PackFields(SharedObjectFields, @[k])],
                !.loaded_modules = [k \in DOMAIN @ |-> PackFields(ModuleFields, @[k])]])

\* ogrt_prepare_sendbuffer and the pack into it: type and length, then the payload.
Sendbuffer(message_type, payload) ==
  [type |-> message_type, length |-> Len(payload), payload |-> payload]

-----------------------------------------------------------------------------
(* The server.                                                             *)

Tag(wire, id, label) == [wire |-> wire, id |-> id, label |-> label]

SharedObjectTags ==
  [path |-> Tag("bytes", 400, "req"), signature |-> Tag("bytes", 401, "opt")]

ModuleTags == [name |-> Tag("bytes", 700, "req")]

ProcessInfoTags ==
  [binpath    |-> Tag("bytes", 300, "req"),
   pid        |-> Tag("varint", 301, "req"),
   parent_pid |-> Tag("varint", 302, "req"),
   time       |-> Tag("varint", 303, "req"),
   signature  |-> Tag("bytes", 304, "opt"),
   job_id     |-> Tag("bytes", 305, "opt"),
   username   |-> Tag("bytes", 306, "opt"),
   hostname   |-> Tag("bytes", 307, "opt"),
   cmdline    |-> Tag("bytes", 308, "opt"),
   environment_variables |-> Tag("bytes", 309, "rep"),
   arguments             |-> Tag("bytes", 310, "rep"),
   shared_objects        |-> Tag("bytes", 311, "rep"),
   loaded_modules        |-> Tag("bytes", 312, "rep")]

\* Every required field is there, and no field has another wire type.
Decodable(tags, packed) ==
  \A name \in DOMAIN tags : LET tag == tags[name] IN
    /\ tag.label = "req" => \E k \in DOMAIN packed : packed[k].id = tag.id
    /\ \A k \in DOMAIN packed : packed[k].id = tag.id => packed[k].wire = tag.wire

\* The last value of a field, all values of a repeated one; nil if there is none.
UnmarshalField(tag, packed) ==
  LET those == Only(packed, {entry \in Range(packed) : entry.id = tag.id})
  IN  IF tag.label = "rep" THEN [k \in DOMAIN those |-> those[k].value]
      ELSE IF those = <<>> THEN NULL
      ELSE those[Len(those)].value

UnmarshalFields(tags, packed) ==
  [name \in DOMAIN tags |-> UnmarshalField(tags[name], packed)]

\* proto.Unmarshal into a ProcessInfo returns no error: the message can be
\* decoded, and the messages within.
Decodes(packed) ==
  LET fields == UnmarshalFields(ProcessInfoTags, packed) IN
    /\ Decodable(ProcessInfoTags, packed)
    /\ \A k \in DOMAIN fields.shared_objects : Decodable(SharedObjectTags, fields.shared_objects[k])
    /\ \A k \in DOMAIN fields.loaded_modules : Decodable(ModuleTags, fields.loaded_modules[k])

\* The ProcessInfo that proto.Unmarshal makes of what it decodes.
Unmarshal(packed) ==
  [UnmarshalFields(ProcessInfoTags, packed) EXCEPT
     !.shared_objects = [k \in DOMAIN @ |-> UnmarshalFields(SharedObjectTags, @[k])],
     !.loaded_modules = [k \in DOMAIN @ |-> UnmarshalFields(ModuleTags, @[k])]]
=============================================================================
