----------------------------- MODULE Connection ------------------------------
(***************************************************************************)
(* A connection, byte by byte: the daemon comes up with a configuration    *)
(* (main of rkwhisperd.rs, daemon.rs), a client sends a length-prefixed    *)
(* ClientHello, the daemon answers with a ServerHello that carries the     *)
(* descriptor of the ring, or refuses, and then sends responses, which the *)
(* client takes with the Python bindings, one by one or as an iterator.    *)
(* The socket holds few bytes, so that messages are written and read in    *)
(* pieces, and either side finds it closed when the other has gone.        *)
(*                                                                         *)
(* What the daemon does with an accepted job is in LiveScheduler; here any *)
(* responses may come, and then a last one.                                *)
(***************************************************************************)
EXTENDS Messages, SequencesExt

CONSTANTS Configs,      \* configuration files
          WellFormed,   \* texts made of characters a model id may have
          Supported,    \* model ids that model_kind knows
          Complete,     \* models whose directory has all required files
          Hellos,       \* what clients ask for
          Unknown,      \* fields that this version does not know
          MoreResponses, LastResponses,     \* what the job may answer
          MaxResponses, \* responses of a session (bounds the model)
          DefaultHello, \* ClientHello::default()
          SampleRate, RingBytes,
          FrameMax,     \* FRAME_MAX_BYTES
          SocketBytes   \* bytes the socket holds each way

\* The length of a frame has four bytes, and the first of a stream fit a socket.
ASSUME ConnectionAssumption ==
    /\ {MaxResponses, SampleRate, RingBytes, FrameMax} \subseteq Nat \ {0}
    /\ FrameMax \div 16777216 < 256
    /\ SocketBytes \in Nat /\ SocketBytes >= 4
    /\ Supported \subseteq WellFormed
    /\ \A c \in Configs : \A d \in DOMAIN c.depths : c.depths[d] \in Nat

\* What a client asks for and the default are values of the type; what a later
\* version may add is a field that is not of the type.
ASSUME HelloAssumption ==
    /\ \A h \in Hellos \cup {DefaultHello} : IsMessage(HelloSchema, h)
    /\ \A f \in Unknown : IsField(f) /\ Known(HelloSchema, <<f>>) = {}

VARIABLES
    config,     \* what the daemon was started with
    daemon,     \* the main thread, then the session thread of the connection
    models,     \* the models that have a scheduler
    header,     \* the header of the request, at most one
    said,       \* the responses of the session thread
    client,     \* the client, and how it learnt of the end
    api,        \* the bindings it uses: SyncSession or AsyncSession
    hello,      \* what it asks for
    attached,   \* the ring it has attached, at most one
    heard,      \* the responses it has taken
    doneSeen,   \* done_received
    out,        \* of each direction, bytes that its writer has still to write,
    socket,     \* bytes in the socket,
    got,        \* the frame its reader is reading
    closed,     \* and whether its writer has closed it
    fd          \* where the descriptor is

daemonVars == <<config, daemon, models, header, said>>
clientVars == <<client, api, hello, attached, heard, doneSeen>>
wireVars   == <<out, socket, got, closed, fd>>
vars       == <<daemonVars, clientVars, wireVars>>

Ways == {"up", "down"}

Init ==
    /\ config \in Configs /\ daemon = "starting" /\ models = {} /\ header = <<>> /\ said = <<>>
    /\ client = "new" /\ api \in {"sync", "async"} /\ hello \in Hellos /\ attached = <<>> /\ heard = <<>> /\ doneSeen = FALSE
    /\ out    = [w \in Ways |-> <<>>]
    /\ socket = [w \in Ways |-> <<>>]
    /\ got    = [w \in Ways |-> <<>>]
    /\ closed = [w \in Ways |-> FALSE]
    /\ fd = "none"

-----------------------------------------------------------------------------
(* Frames on the socket.                                                   *)

Le32(n) == <<n % 256, (n \div 256) % 256, (n \div 65536) % 256, (n \div 16777216) % 256>>
LengthOf(frame) == frame[1] + 256 * frame[2] + 65536 * frame[3] + 16777216 * frame[4]
Framed(body) == Le32(Len(body)) \o body

\* A faulty variant of the next: the reader takes what it gets for all.
OnePiece(w) == Len(got[w]) > 4

\* read_frame has read the length and as many bytes.
Received(w) == Len(got[w]) >= 4 /\ Len(got[w]) = 4 + LengthOf(got[w])
Body(w)     == SubSeq(got[w], 5, Len(got[w]))

\* read_frame, or recv_response_with_fd, fails.  The latter takes the length
\* with one recvmsg, which has to give all of it.
TooLong(w)  == Len(got[w]) = 4 /\ LengthOf(got[w]) > FrameMax
Cut(w)      == w = "down" /\ client = "greeting" /\ Len(got[w]) \in 1..3
Eof(w)      == ~Received(w) /\ closed[w] /\ out[w] = <<>> /\ socket[w] = <<>>
ReadFails(w) == TooLong(w) \/ Cut(w) \/ Eof(w)

\* write_all and sendmsg: what fits; the descriptor goes with the first byte.
WhatFits(w) == Min({Len(out[w]), SocketBytes - Len(socket[w])})

WriteSome(w) ==
    LET n == WhatFits(w) IN
    /\ n > 0
    /\ socket' = [socket EXCEPT ![w] = @ \o SubSeq(out[w], 1, n)]
    /\ out'    = [out EXCEPT ![w] = SubSeq(@, n + 1, Len(@))]
    /\ fd' = IF w = "down" /\ fd = "sent" THEN "socket" ELSE fd
    /\ UNCHANGED <<daemonVars, clientVars, got, closed>>

\* read_exact, of the length and then of the body.
Wanted(w) == IF Len(got[w]) < 4 THEN 4 - Len(got[w])
             ELSE 4 + LengthOf(got[w]) - Len(got[w])

\* Whether the read is recvmsg with room for a descriptor: only the first of
\* the client is.  (After a variant that reads it like the others.)
NeverTakesFd(w) == FALSE
TakesFd(w) == w = "down" /\ client = "greeting"

ReadSome(w) ==
    LET n == Min({Len(socket[w]), Wanted(w)}) IN
    /\ w = "up" => daemon = "reading"
    /\ w = "down" => client \in {"greeting", "session"}
    /\ ~TooLong(w) /\ ~Cut(w) /\ n > 0
    /\ got'    = [got EXCEPT ![w] = @ \o SubSeq(socket[w], 1, n)]
    /\ socket' = [socket EXCEPT ![w] = SubSeq(@, n + 1, Len(@))]
    /\ fd' = IF w = "down" /\ fd = "socket" THEN (IF TakesFd(w) THEN "client" ELSE "lost")
             ELSE fd
    /\ UNCHANGED <<daemonVars, clientVars, out, closed>>

-----------------------------------------------------------------------------
(* The daemon comes up.                                                    *)

IsModelId(id) == id # <<>> /\ id \in WellFormed

\* A faulty variant of the next: the depths are not looked at.
ValidNames(c) ==
    /\ c.models # <<>>
    /\ \A i \in DOMAIN c.models : IsModelId(c.models[i]) /\ c.models[i] \in Supported

\* validate_config and validate_concurrency_config.
Valid(c) ==
    /\ c.models # <<>>
    /\ \A d \in DOMAIN c.depths : c.depths[d] # 0
    /\ \A i \in DOMAIN c.models : IsModelId(c.models[i]) /\ c.models[i] \in Supported
    /\ IsInjective(c.models)

\* resolve_enabled_model_files finds all files of each model.
Loads(c) == ToSet(c.models) \subseteq Complete

\* main: the configuration is checked, then every model it lists is loaded;
\* the daemon does not come up when one of them cannot be, nor without the
\* NPU library or the socket's path.
StartDaemon ==
    /\ daemon = "starting"
    /\ \/ /\ Valid(config) /\ Loads(config)
          /\ daemon' = "reading" /\ models' = ToSet(config.models)
       \/ daemon' = "exited" /\ UNCHANGED models
    /\ UNCHANGED <<config, header, said, clientVars, wireVars>>

-----------------------------------------------------------------------------
(* The client connects.                                                    *)

\* A client of a later version may send fields that this one does not know.
Encodings ==
    LET body == EncodeClientHello(hello)
    IN  {body} \cup UNION {{EncodeField(f) \o body, body \o EncodeField(f)} : f \in Unknown}

\* connect; write_frame refuses a hello that is too long.
Connect ==
    /\ client = "new" /\ daemon = "reading"
    /\ \E body \in Encodings :
        IF Len(body) > FrameMax
        THEN client' = "unsent" /\ closed' = [closed EXCEPT !["up"] = TRUE] /\ UNCHANGED out
        ELSE client' = "greeting" /\ out' = [out EXCEPT !["up"] = Framed(body)] /\ UNCHANGED closed
    /\ UNCHANGED <<daemonVars, api, hello, attached, heard, doneSeen, socket, got, fd>>

\* The client's process ends, at any point.  (At most one of the two dies: that
\* the other does so later shows in nothing that is checked.)
ClientDies ==
    /\ client \in {"greeting", "session"} /\ daemon # "dead"
    /\ client' = "dead"
    /\ closed' = [closed EXCEPT !["up"] = TRUE]
    /\ out'    = [out EXCEPT !["up"] = <<>>]
    /\ UNCHANGED <<daemonVars, api, hello, attached, heard, doneSeen, socket, got, fd>>

\* What the frame that has been read is, or that it cannot be decoded.
ReceivedResponse == IF Received("down") THEN {DecodeResponse(Body("down"))} ELSE {}

\* connect takes the first response: a ServerHello with a descriptor gives a
\* session, which may be split; anything else is an error.
Greeted(r) ==
    /\ client = "greeting"
    /\ heard' = heard \o r
    /\ got'   = [got EXCEPT !["down"] = <<>>]
    /\ IF r # Fails /\ r[1].kind = "server_hello" /\ fd = "client"
       THEN client' = "session" /\ attached' = <<r[1].body.ring_capacity_bytes>>
       ELSE client' = "refused" /\ UNCHANGED attached
    /\ UNCHANGED <<daemonVars, api, hello, doneSeen, out, socket, closed, fd>>

GreetingFails ==
    /\ client = "greeting" /\ ReadFails("down")
    /\ client' = "refused"
    /\ UNCHANGED <<daemonVars, api, hello, attached, heard, doneSeen, wireVars>>

-----------------------------------------------------------------------------
(* handle_connection.                                                      *)

SupportedFormat == [sample_rate |-> SampleRate, channels |-> 1, sample_format |-> 1]

\* validate_client_hello.
ValidHello(h) == h.beam_size # 0 /\ h.audio_format = SupportedFormat

Header(h) == [name \in DOMAIN h \ {"audio_format", "client_id"} |-> h[name]]

ServerHello ==
    [kind |-> "server_hello",
     body |-> [audio_format |-> SupportedFormat, ring_capacity_bytes |-> RingBytes,
               ring_header_bytes |-> 32]]

Error(text) == [kind |-> "error", body |-> [error |-> text]]

\* What handle_connection says, as far as it is told apart here: it is about
\* the hello, or about the daemon itself.
OfHello  == Error(<<104>>)
OfDaemon == Error(<<100>>)

Say(r) ==
    /\ out'  = [out EXCEPT !["down"] = Framed(EncodeResponse(r))]
    /\ said' = Append(said, r)

\* write_error, and the thread returns.
Refuse(why) == Say(why) /\ daemon' = "leaving" /\ UNCHANGED <<header, fd>>

\* The hello has been read, and decoded if it can be.
Answer(h) ==
    IF h = Fails \/ ~ValidHello(h[1]) \/ h[1].model \notin models
    THEN Refuse(OfHello)
    ELSE \/ Refuse(OfDaemon)        \* SharedAudioRing::create fails
         \/ /\ Say(ServerHello)
            /\ fd' = "sent" /\ daemon' = "greeted" /\ header' = <<Header(h[1])>>

ReadHello ==
    /\ daemon = "reading"
    /\ \/ ReadFails("up") /\ Refuse(OfHello)
       \/ /\ Received("up")
          /\ \E h \in {DecodeClientHello(Body("up"), DefaultHello)} : Answer(h)
    /\ UNCHANGED <<config, models, clientVars, socket, got, closed>>

BackOff == [kind |-> "back_off", body |-> [reason |-> <<113>>, retry_after_ms |-> 250]]

\* All that is said has its type and fits a frame; more than the last response
\* are segments and speech.
ASSUME ResponseAssumption ==
    /\ \A r \in {ServerHello, OfHello, OfDaemon, BackOff} \cup MoreResponses \cup LastResponses :
          IsResponse(r) /\ Len(EncodeResponse(r)) <= FrameMax
    /\ \A r \in MoreResponses : r.kind \in {"segment", "speech"}

\* submit: the job fits the model's queue, or it does not, or the scheduler
\* has stopped.  There may be no descriptor for the reader's clone of the socket
\* or, once the job is submitted, no thread for the reader: then this thread
\* returns with no word more.
Submit ==
    /\ daemon = "greeted" /\ out["down"] = <<>>
    /\ \/ daemon' = "live" /\ UNCHANGED <<out, said>>
       \/ \E r \in {BackOff, OfDaemon} : Say(r) /\ daemon' = "leaving"
       \/ daemon' = "leaving" /\ UNCHANGED <<out, said>>
    /\ UNCHANGED <<config, models, header, clientVars, socket, got, closed, fd>>

\* write_response, and at last write_final_response.
Respond ==
    /\ daemon = "live" /\ out["down"] = <<>>
    /\ \/ \E r \in MoreResponses :
            Len(said) < MaxResponses /\ Say(r) /\ UNCHANGED daemon
       \/ \E r \in LastResponses : Say(r) /\ daemon' = "leaving"
       \/ Say(OfDaemon) /\ daemon' = "detached"     \* the scheduler is gone
    /\ UNCHANGED <<config, models, header, clientVars, socket, got, closed, fd>>

\* The client has gone: the write fails and the thread returns.  (The reader
\* thread may still hold a clone of the socket; nobody is at its other end.)
WriteFails ==
    /\ client \in {"unsent", "refused", "raised", "stopped", "dead"} /\ out["down"] # <<>>
    /\ out' = [out EXCEPT !["down"] = <<>>]
    /\ daemon' = "leaving"
    /\ UNCHANGED <<config, models, header, said, clientVars, socket, got, closed, fd>>

\* The thread returns, and with it its end of the socket is closed, except
\* that the reader thread, which holds a clone, is not joined when the scheduler
\* is gone.  (After a variant in which it never is.)
CloneStaysOpen == closed
SocketClosed   == [closed EXCEPT !["down"] = (daemon = "leaving")]

Leave ==
    /\ daemon \in {"leaving", "detached"} /\ out["down"] = <<>>
    /\ daemon' = "left" /\ closed' = SocketClosed
    /\ UNCHANGED <<config, models, header, said, clientVars, out, socket, got, fd>>

\* The daemon's process ends, at any point.
DaemonDies ==
    /\ daemon \in {"reading", "greeted", "live", "leaving", "detached"} /\ client \notin {"new", "dead"}
    /\ daemon' = "dead"
    /\ closed' = [closed EXCEPT !["down"] = TRUE]
    /\ out'    = [out EXCEPT !["down"] = <<>>]
    /\ UNCHANGED <<config, models, header, said, clientVars, socket, got, fd>>

-----------------------------------------------------------------------------
(* The client takes responses.                                             *)

\* recv_response returns what is neither an error nor the wrong message.
Returns(r) == r.kind \in {"segment", "speech", "done"}

\* The frame has been read: it is taken, and the session goes on as how says.
TakeResponse(r, how) ==
    /\ heard'  = Append(heard, r)
    /\ got'    = [got EXCEPT !["down"] = <<>>]
    /\ client' = how
    /\ UNCHANGED <<daemonVars, api, hello, attached, out, socket, closed, fd>>

\* recv_response of either binding: a done response is returned like others.
RecvResponse(r) ==
    /\ client = "session" /\ r # Fails
    /\ TakeResponse(r[1], IF Returns(r[1]) THEN "session" ELSE "raised")
    /\ UNCHANGED doneSeen

\* SyncSession.__next__ gives out Done and stops at the next call.
NextResponse(r) ==
    /\ client = "session" /\ r # Fails /\ api = "sync" /\ ~doneSeen
    /\ TakeResponse(r[1], IF Returns(r[1]) THEN "session" ELSE "raised")
    /\ doneSeen' = (r[1].kind = "done")

StopIteration ==
    /\ client = "session" /\ api = "sync" /\ doneSeen
    /\ client' = "stopped"
    /\ UNCHANGED <<daemonVars, api, hello, attached, heard, doneSeen, wireVars>>

\* AsyncResponseReceiver.__anext__ stops at Done.
AnextResponse(r) ==
    /\ client = "session" /\ r # Fails /\ api = "async"
    /\ TakeResponse(r[1], IF r[1].kind = "done" THEN "stopped"
                          ELSE IF Returns(r[1]) THEN "session" ELSE "raised")
    /\ UNCHANGED doneSeen

\* A frame that cannot be read, or decoded, raises.
ResponseFails ==
    /\ client = "session" /\ (ReadFails("down") \/ ReceivedResponse = {Fails})
    /\ client' = "raised"
    /\ UNCHANGED <<daemonVars, api, hello, attached, heard, doneSeen, wireVars>>

-----------------------------------------------------------------------------
Client ==
    \/ Connect \/ GreetingFails \/ StopIteration \/ ResponseFails
    \/ \E r \in ReceivedResponse :
          Greeted(r) \/ RecvResponse(r) \/ NextResponse(r) \/ AnextResponse(r)
    \/ WriteSome("up") \/ ReadSome("down")

Daemon ==
    \/ StartDaemon \/ ReadHello \/ Submit \/ Respond \/ WriteFails \/ Leave
    \/ WriteSome("down") \/ ReadSome("up")

Next == Client \/ Daemon \/ ClientDies \/ DaemonDies

Room(w) == out[w] # <<>> /\ Len(socket[w]) < SocketBytes
ReadCanMove(w) == Received(w) \/ ReadFails(w) \/ socket[w] # <<>>

\* When a step of either process is enabled.
ClientCanMove ==
    \/ client = "new" /\ daemon = "reading"
    \/ client \in {"greeting", "session"} /\ ReadCanMove("down")
    \/ client = "session" /\ api = "sync" /\ doneSeen
    \/ Room("up")

DaemonCanMove ==
    \/ daemon = "starting"
    \/ daemon = "reading" /\ ReadCanMove("up")
    \/ daemon \in {"greeted", "live", "leaving", "detached"} /\ out["down"] = <<>>
    \/ Room("down")
    \/ client \in {"unsent", "refused", "raised", "stopped", "dead"} /\ out["down"] # <<>>

\* Both processes run (WF, without ENABLED); neither need die.
Spec ==
    /\ Init /\ [][Next]_vars
    /\ <>[]ClientCanMove => []<><<Client>>_vars
    /\ <>[]DaemonCanMove => []<><<Daemon>>_vars

-----------------------------------------------------------------------------
TypeOK ==
    /\ daemon \in {"starting", "exited", "reading", "greeted", "live", "leaving", "detached",
                   "left", "dead"}
    /\ client \in {"new", "unsent", "greeting", "session", "refused", "stopped", "raised", "dead"}
    /\ fd \in {"none", "sent", "socket", "client", "lost"}
    /\ \A w \in Ways :
        /\ Len(socket[w]) <= SocketBytes
        /\ \A bytes \in {out[w], socket[w], got[w]} : bytes \in Seq(0..255)

\* The daemon works on what the client meant, however the hello was cut into
\* pieces and whatever fields of a later version it carries, and refuses only
\* a client that asked for what it does not have.
HelloIsUnderstood ==
    /\ header # <<>> => header[1] = Header(hello)
    /\ said = <<OfHello>> =>
          \/ client \in {"unsent", "dead"}
          \/ ~ValidHello(hello) \/ hello.model \notin models

\* What the scheduler takes for granted holds of every request that gets to
\* it: queues that hold something, a loaded model, a beam of one at least.
\* (Not so the VAD window, which the client may set to 0.)
JobsAreServable ==
    header # <<>> =>
        /\ \A d \in DOMAIN config.depths : config.depths[d] >= 1
        /\ header[1].model \in Supported \cap Complete
        /\ header[1].beam_size >= 1

\* A session maps the very ring of the daemon, in its length: the descriptor is
\* with the first byte of the ServerHello, in whatever pieces the rest comes.
RingIsShared ==
    /\ TypeOK
    /\ fd # "lost"
    /\ client = "session" => fd = "client" /\ attached = <<RingBytes>>

Closing == {"leaving", "detached", "left", "dead"}

\* What the client takes the end for.
Outcome(how) ==
    CASE how \in {"new", "greeting", "session"} -> "open"
      [] how = "stopped"                       -> "done"
      [] how \in {"raised", "refused"}         -> "error"
      [] how \in {"unsent", "dead"}            -> "gone"

\* The bytes of a connection make a conversation in whole messages: requests and
\* responses are neither changed nor lost nor heard twice, in whatever pieces
\* they come and whoever dies; after its last response the daemon says nothing,
\* and before it no client takes the conversation for over, unless the daemon
\* died or gave up right after it had greeted.
Talk == INSTANCE Conversation
    WITH Greeting <- ServerHello,
         Refusals <- {OfHello, OfDaemon},
         More     <- MoreResponses,
         Parting  <- LastResponses \cup {BackOff, OfDaemon},
         asked    <- Header(hello),
         request  <- header,
         quiet    <- daemon \in Closing,
         broken   <- daemon = "dead",
         ending   <- Outcome(client)
ImplementsConversation == Talk!ConversationSpec

\* Each call of the client comes to an end, also one that asks for a response
\* after the done response was taken with another call.
ClientLearns == client \in {"greeting", "session"} ~> client \notin {"greeting", "session"}
=============================================================================
