------------------------------ MODULE Messages -------------------------------
(***************************************************************************)
(* The messages of rkwhisper-protocol.  A schema says of each field number *)
(* how the field is encoded and which part of the message it is; messages  *)
(* are records.  Text is a sequence of bytes and a float its four bytes.   *)
(***************************************************************************)
EXTENDS Protobuf

Part(kind, name) == [kind |-> kind, name |-> name]

AudioSchema == [n \in 1..3 |->
    <<Part("u32", "sample_rate"), Part("u32", "channels"), Part("i32", "sample_format")>>[n]]

VadSchema == [n \in 1..5 |->
    <<Part("float", "threshold"), Part("u32", "min_speech_ms"), Part("u32", "min_silence_ms"),
      Part("u32", "speech_pad_ms"), Part("u64", "window_samples")>>[n]]

\* Field 2 is reserved.
HelloSchema == [n \in 1..11 \ {2} |->
    <<Part("text", "model"), {}, Part("text", "lang"), Part("text", "task"),
      Part("u64", "max_new_tokens"), Part("u64", "beam_size"), Part("bool", "notimestamps"),
      Part("text", "suppress_tokens"), Part("audio", "audio_format"), Part("vad", "vad"),
      Part("text", "client_id")>>[n]]

MaxField == 11

\* As many fields with numbers have a length that is an u64.
ASSUME SizeAssumption == MaxField * (MaxGroups + 5) < Word64

\* The cases of Response in the order of their field numbers.
ResponseSchemas ==
    <<[n \in 1..3 |-> <<Part("audio", "audio_format"), Part("u64", "ring_capacity_bytes"),
                        Part("u32", "ring_header_bytes")>>[n]],
      [n \in 1..3 |-> <<Part("text", "text"), Part("float", "begin"), Part("float", "end")>>[n]],
      [n \in 1..2 |-> <<Part("float", "audio_s"), Part("float", "rtf")>>[n]],
      [n \in 1..1 |-> Part("text", "error")],
      [n \in 1..4 |-> <<Part("float", "audio_s"), Part("float", "rtf"),
                        Part("u64", "windows_dispatched"), Part("u64", "windows_completed")>>[n]],
      [n \in 1..2 |-> <<Part("text", "reason"), Part("u32", "retry_after_ms")>>[n]],
      [n \in 1..2 |-> <<Part("u64", "type"), Part("float", "timestamp")>>[n]]>>

ResponseKinds == <<"server_hello", "segment", "done", "error", "cancelled", "back_off", "speech">>

Wire(kind) == CASE kind \in {"u32", "i32", "u64", "bool"} -> 0
                [] kind = "float"                  -> 5
                [] kind \in {"text", "audio", "vad"} -> 2

-----------------------------------------------------------------------------
(* The types of the messages: str, f32, u32, i32, u64, bool and structs.   *)

Names(schema) == {schema[n].name : n \in DOMAIN schema}

\* A record whose parts are those of the schema.
IsRecordOf(schema, v) == v = [name \in Names(schema) |-> v[name]]

IsScalar(kind, v) ==
    CASE kind = "u32"   -> v \in U32
      [] kind = "i32"   -> v \in I32
      [] kind = "u64"   -> v \in U64
      [] kind = "bool"  -> v \in BOOLEAN
      [] kind = "float" -> v \in [1..4 -> Byte]
      [] kind = "text"  -> v \in Seq(0..127) /\ Len(v) \in U64

IsAudioFormat(format) ==
    /\ IsRecordOf(AudioSchema, format)
    /\ \A n \in DOMAIN AudioSchema : IsScalar(AudioSchema[n].kind, format[AudioSchema[n].name])

\* Every part of VadOptions is optional.
IsVadOptions(vad) ==
    /\ IsRecordOf(VadSchema, vad)
    /\ \A n \in DOMAIN VadSchema :
          LET v == vad[VadSchema[n].name]
          IN  v = <<>> \/ (v = <<v[1]>> /\ IsScalar(VadSchema[n].kind, v[1]))

IsMessage(schema, message) ==
    /\ IsRecordOf(schema, message)
    /\ \A n \in DOMAIN schema :
          LET v == message[schema[n].name] IN
          CASE schema[n].kind = "audio" -> IsAudioFormat(v)
            [] schema[n].kind = "vad"   -> IsVadOptions(v)
            [] OTHER                    -> IsScalar(schema[n].kind, v)

-----------------------------------------------------------------------------
(* Encoding.                                                               *)

Scalar(n, kind, v) ==
    CASE kind \in {"u32", "u64"} -> FieldVarint(n, v)
      [] kind = "i32"   -> FieldVarint(n, AsU64(v))
      [] kind = "bool"  -> FieldVarint(n, IF v THEN 1 ELSE 0)
      [] kind = "float" -> FieldFixed32(n, v)
      [] kind = "text"  -> FieldMessage(n, v)

\* The encoded fields in the order of their numbers.
Joined(fields) ==
    LET UpToField[n \in 0..MaxField] ==
            CASE n = 0               -> <<>>
              [] n \in DOMAIN fields -> UpToField[n - 1] \o fields[n]
              [] OTHER               -> UpToField[n - 1]
    IN  UpToField[MaxField]

EncodeAudioFormat(format) ==
    Joined([n \in DOMAIN AudioSchema |->
                Scalar(n, AudioSchema[n].kind, format[AudioSchema[n].name])])

EncodeVadOptions(vad) ==
    Joined([n \in {m \in DOMAIN VadSchema : vad[VadSchema[m].name] # <<>>} |->
                Scalar(n, VadSchema[n].kind, vad[VadSchema[n].name][1])])

EncodeMessage(schema, message) ==
    Joined([n \in DOMAIN schema |->
                LET v == message[schema[n].name] IN
                CASE schema[n].kind = "audio" -> FieldMessage(n, EncodeAudioFormat(v))
                  [] schema[n].kind = "vad"   -> FieldMessage(n, EncodeVadOptions(v))
                  [] OTHER                    -> Scalar(n, schema[n].kind, v)])

EncodeClientHello(hello) == EncodeMessage(HelloSchema, hello)

TagOf(response) == CHOOSE n \in DOMAIN ResponseKinds : ResponseKinds[n] = response.kind

EncodeResponse(response) ==
    FieldMessage(TagOf(response), EncodeMessage(ResponseSchemas[TagOf(response)], response.body))

\* A response whose encoded case is as long as its field can be.
IsResponse(response) ==
    \E n \in DOMAIN ResponseKinds :
        /\ response = [kind |-> ResponseKinds[n], body |-> response.body]
        /\ IsMessage(ResponseSchemas[n], response.body)
        /\ Len(EncodeMessage(ResponseSchemas[n], response.body)) \in U64
        /\ response.kind = "speech" => response.body.type \in {1, 2}

-----------------------------------------------------------------------------
(* Decoding.                                                               *)

IsUtf8(bytes) == \A i \in DOMAIN bytes : bytes[i] < 128

ScalarValue(kind, v) ==
    CASE kind = "u32"  -> Is(AsU32(v))
      [] kind = "i32"  -> Is(AsI32(v))
      [] kind = "bool" -> Is(v # 0)
      [] kind = "text" -> IF IsUtf8(v) THEN Is(v) ELSE Fails
      [] OTHER         -> Is(v)

\* The fields that the schema has, with that wire type; others are skipped.
Known(schema, fields) ==
    {i \in DOMAIN fields : /\ fields[i].field \in DOMAIN schema
                           /\ fields[i].wire = Wire(schema[fields[i].field].kind)}

\* The message that the values of the known fields make; of several fields with
\* the same number the last counts.
Assembled(schema, default, fields, values) ==
    IF \E i \in DOMAIN values : values[i] = Fails THEN Fails
    ELSE Is([name \in DOMAIN default |->
                LET given == {i \in DOMAIN values : schema[fields[i].field].name = name}
                IN  IF given = {} THEN default[name] ELSE values[Max(given)][1]])

\* AudioFormat::default().
NoFormat == [sample_rate |-> 0, channels |-> 0, sample_format |-> 0]

DecodeAudioFormat(bytes) ==
    LET Value(f) == ScalarValue(AudioSchema[f.field].kind, f.value)
        Of(read) == IF read = Fails THEN Fails
                    ELSE Assembled(AudioSchema, NoFormat, read[1],
                            [i \in Known(AudioSchema, read[1]) |-> Value(read[1][i])])
    IN  Of(Fields(bytes))

\* VadOptions::default().
NoVad == [name \in Names(VadSchema) |-> <<>>]

DecodeVadOptions(bytes) ==
    LET Value(f) == Is(ScalarValue(VadSchema[f.field].kind, f.value))
        Of(read) == IF read = Fails THEN Fails
                    ELSE Assembled(VadSchema, NoVad, read[1],
                            [i \in Known(VadSchema, read[1]) |-> Value(read[1][i])])
    IN  Of(Fields(bytes))

DecodeMessage(schema, default, bytes) ==
    LET Value(kind, v) == CASE kind = "audio" -> DecodeAudioFormat(v)
                            [] kind = "vad"   -> DecodeVadOptions(v)
                            [] OTHER          -> ScalarValue(kind, v)
        Of(read) == IF read = Fails THEN Fails
                    ELSE Assembled(schema, default, read[1],
                            [i \in Known(schema, read[1]) |->
                                Value(schema[read[1][i].field].kind, read[1][i].value)])
    IN  Of(Fields(bytes))

\* A hello without a model is refused.
DecodeClientHello(bytes, default) ==
    LET Named(hello) == IF hello = Fails \/ hello[1].model = <<>> THEN Fails ELSE hello
    IN  Named(DecodeMessage(HelloSchema, default, bytes))

NoFloat == <<0, 0, 0, 0>>

\* What the parts of a response are before the first field is read.
Zero(kind) == CASE kind \in {"u32", "u64"} -> 0
                [] kind = "float" -> NoFloat
                [] kind = "text"  -> <<>>
                [] kind = "audio" -> NoFormat

EmptyBody(schema) ==
    [name \in Names(schema) |->
        Zero(schema[CHOOSE n \in DOMAIN schema : schema[n].name = name].kind)]

\* The first field says which response it is; what follows it is not read.
DecodeResponse(bytes) ==
    LET Response(kind, body) ==
            IF body = Fails \/ (kind = "speech" /\ body[1].type \notin {1, 2}) THEN Fails
            ELSE Is([kind |-> kind, body |-> body[1]])
        Of(n, schema, message) ==
            Response(ResponseKinds[n], DecodeMessage(schema, EmptyBody(schema), message))
        First(f) ==
            IF f = Fails \/ f[1].value.wire # 2 \/ f[1].value.field \notin DOMAIN ResponseKinds THEN Fails
            ELSE Of(f[1].value.field, ResponseSchemas[f[1].value.field], f[1].value.value)
    IN  First(FieldAt(bytes, 1))
=============================================================================
