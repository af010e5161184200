---------------------------- MODULE MCConnection -----------------------------
(***************************************************************************)
(* Connection for TLC.  Model ids and other texts are single bytes; the    *)
(* numbers are at the boundaries of the varint's bytes and of the widths.  *)
(***************************************************************************)
EXTENDS Connection

small  == <<115>>
medium == <<109>>
other  == <<111>>       \* well-formed, but no model
path   == <<47>>        \* not well-formed

MCWellFormed == {small, medium, other}
MCSupported  == {small, medium}
MCComplete   == {small}

DepthNames == {"model_queue_depth", "max_active_jobs_per_model",
               "max_in_flight_windows_per_job", "client_window_queue_depth",
               "client_response_queue_depth"}
Default == [d \in DepthNames |-> 1]

MCConfigs ==
    {[models |-> m, depths |-> Default] :
        m \in {<<>>, <<small>>, <<small, small>>, <<small, medium>>, <<other>>, <<path>>}}
    \cup {[models |-> <<small>>, depths |-> [Default EXCEPT ![d] = 0]] : d \in DepthNames}

MCDefaultHello ==
    [model |-> <<>>, lang |-> <<101>>, task |-> <<116>>, max_new_tokens |-> 128,
     beam_size |-> 5, notimestamps |-> FALSE, suppress_tokens |-> <<100>>,
     audio_format |-> SupportedFormat, vad |-> NoVad, client_id |-> <<>>]

Plainly == [MCDefaultHello EXCEPT !.model = small]
Half    == <<0, 0, 0, 63>>

MCHellos ==
    {Plainly,
     [Plainly EXCEPT !.model = medium],
     [Plainly EXCEPT !.model = <<>>],
     [Plainly EXCEPT !.beam_size = 0],
     [Plainly EXCEPT !.audio_format.sample_rate = 48000, !.audio_format.sample_format = -1],
     [Plainly EXCEPT !.suppress_tokens = [i \in 1..80 |-> 49]],
     [Plainly EXCEPT !.max_new_tokens = Word64 - 1, !.notimestamps = TRUE,
        !.vad = [threshold |-> <<Half>>, min_speech_ms |-> <<127>>,
                 min_silence_ms |-> <<>>, speech_pad_ms |-> <<Word32 - 1>>,
                 window_samples |-> <<16384>>]]}

\* A double, a float for the size of the beam, a number whose key has two bytes,
\* and the reserved field.
MCUnknown == {[field |-> 12,  wire |-> 1, value |-> <<1, 2, 3, 4, 5, 6, 7, 8>>],
              [field |-> 6,   wire |-> 5, value |-> Half],
              [field |-> 300, wire |-> 0, value |-> 255],
              [field |-> 2,   wire |-> 2, value |-> <<8, 0>>]}

MCMoreResponses ==
    {[kind |-> "segment", body |-> [text |-> <<104, 105>>, begin |-> NoFloat, end |-> Half]],
     [kind |-> "speech",  body |-> [type |-> 2, timestamp |-> NoFloat]]}

MCLastResponses ==
    {[kind |-> "done", body |-> [audio_s |-> Half, rtf |-> NoFloat]],
     [kind |-> "cancelled", body |-> [audio_s |-> NoFloat, rtf |-> Half,
        windows_dispatched |-> Word64 - 1, windows_completed |-> 128]],
     Error(<<113, 102>>)}
=============================================================================
