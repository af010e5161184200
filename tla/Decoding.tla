------------------------------ MODULE Decoding ------------------------------
(***************************************************************************)
(* How one window of audio becomes segments: the seek loop of              *)
(* transcribe_window_samples (whisper.rs), the rules TokenSuppressor puts  *)
(* on the next token, the key/value cache of the decoder, and the split of *)
(* the tokens into segments.                                               *)
(*                                                                         *)
(* The network is external: any token it is not forbidden may be the best. *)
(* Token ids are ordered as in the code: text, then EOT, then timestamps.  *)
(* With a beam, a pass is one step: its result is any sequence that the    *)
(* suppressor admits and that ends with EOT or has max_new_tokens tokens.  *)
(* BeamSearch shows that the search of beam.rs does just that.             *)
(***************************************************************************)
EXTENDS Integers, SequencesExt

CONSTANTS
  TextIds,        \* how many text tokens there are: 0 .. TextIds - 1
  Blanks,         \* the text tokens that decode to white space
  Timestamps,     \* how many timestamp tokens there are
  Requests,       \* the windows and options to decode with
  T_CACHE,        \* length of the self-attention cache
  Reserve,        \* room a prompt leaves to the pass (64)
  MinRoom,        \* least room to start a pass with (16)
  MaxPasses,      \* bound of the seek loop (16)
  RepeatLen       \* length of a repetition that stops greedy decoding (4)

ASSUME TokensAssumption ==
  TextIds \in Nat \ {0} /\ Timestamps \in Nat \ {0} /\ Blanks \subseteq 0 .. TextIds - 1
ASSUME LimitsAssumption ==
  /\ {MaxPasses, T_CACHE, Reserve, MinRoom} \subseteq Nat
  /\ RepeatLen \in Nat \ {0}
  /\ T_CACHE > Reserve + 4 /\ MinRoom < Reserve   \* true of every WhisperSpec

ASSUME RequestsAssumption ==
  \A r \in Requests : /\ r.beam \in BOOLEAN /\ r.notimestamps \in BOOLEAN
                       /\ r.max_new_tokens \in Nat /\ r.window_end \in Nat

VARIABLES
  max_new_tokens, \* options.max_new_tokens
  window_end,    \* window_duration_sec / 0.02, counted from timestamp_begin
  beam,          \* options.beam_size > 1
  notimestamps,  \* options.notimestamps
  accumulated,   \* the tokens of the passes that are over
  prompt,        \* prompt of the current pass
  generated,     \* the tokens of the current pass
  cache,         \* WhisperDecoderState
  pass,          \* passes started
  pc             \* "seek", "generate", "done" or "failed"

request == <<max_new_tokens, window_end, beam, notimestamps>>
vars == <<request, accumulated, prompt, generated, cache, pass, pc>>

EOT == TextIds
TimestampBegin == TextIds + 1
Tokens == 0 .. TextIds + Timestamps
IsTimestamp(t) == t >= TimestampBegin
NoTimestamp == -1    \* the None of prev_last_ts and new_last_ts

\* A control token; only their number matters.
Control == EOT
BasePrompt == [i \in 1 .. (IF notimestamps THEN 4 ELSE 3) |-> Control]

LastTimestamp(s) ==
  LET at == {i \in DOMAIN s : IsTimestamp(s[i])} IN
  IF at = {} THEN NoTimestamp
  ELSE s[CHOOSE i \in at : \A j \in at : j <= i] - TimestampBegin

-----------------------------------------------------------------------------
(* The decoder's state. What is written in a slot stands for the token that  *)
(* was fed: <<pass, n>> is the n-th token of a pass, prompt included.        *)

Slots == 0 .. T_CACHE - 1
Nothing == <<0, 0>>

NewState == [past |-> [i \in Slots |-> Nothing], pos |-> 0]

Reset(state) == NewState

DecoderStep(state, token) ==
  [past |-> [state.past EXCEPT ![state.pos % T_CACHE] = token],
   pos |-> state.pos + 1]

\* The n tokens of a prompt, one after the other.
Prime(state, n, k) ==
  LET primed[i \in 0 .. n] == IF i = 0 THEN state ELSE DecoderStep(primed[i - 1], <<k, i>>)
  IN primed[n]

Attended(state) == {i \in Slots : state.pos >= T_CACHE \/ i <= state.pos}
Retained(state) ==
  {i \in Slots : i # state.pos % T_CACHE /\ (state.pos >= T_CACHE \/ i < state.pos)}

-----------------------------------------------------------------------------
(* TokenSuppressor.apply: what the next token of the pass may be.            *)

\* After the tokens s of the pass.  (The first may be a timestamp even if the
\* prompt ends with one.)
Allowed(s) ==
  {t \in Tokens :
     /\ t = EOT => s # <<>>
     /\ IsTimestamp(t) => /\ ~notimestamps
                          /\ s = <<>> \/ ~IsTimestamp(Last(s))}

\* Faulty: the base prompt is not counted.
BudgetOfCache == T_CACHE - Reserve

Budget == LET room == T_CACHE - (Len(BasePrompt) + Reserve) IN
          IF room > 0 THEN room ELSE 0

PassPrompt ==
  LET kept == IF Len(accumulated) > Budget THEN Budget ELSE Len(accumulated) IN
  BasePrompt \o SubSeq(accumulated, Len(accumulated) - kept + 1, Len(accumulated))

MayStart == pass < MaxPasses /\ Len(PassPrompt) + MinRoom < T_CACHE

Repeats(s) ==
  LET n == Len(s) IN
  /\ n >= 2 * RepeatLen
  /\ SubSeq(s, n - 2 * RepeatLen + 1, n - RepeatLen) = SubSeq(s, n - RepeatLen + 1, n)

-----------------------------------------------------------------------------
Init ==
  /\ \E r \in Requests : /\ beam = r.beam /\ notimestamps = r.notimestamps
                         /\ max_new_tokens = r.max_new_tokens
                         /\ window_end = r.window_end
  /\ accumulated = <<>> /\ prompt = <<>> /\ generated = <<>>
  /\ cache = NewState
  /\ pass = 0 /\ pc = "seek"

\* The head of the loop: a new prompt, and the cache primed with it.
StartPass ==
  /\ pc = "seek" /\ MayStart
  /\ pass' = pass + 1
  /\ prompt' = PassPrompt
  /\ cache' = Prime(Reset(cache), Len(PassPrompt), pass + 1)
  /\ generated' = <<>>
  /\ pc' = IF max_new_tokens > 0 THEN "generate" ELSE "done"
  /\ UNCHANGED <<request, accumulated>>

GiveUp ==
  /\ pc = "seek" /\ ~MayStart
  /\ pc' = "done"
  /\ UNCHANGED <<request, accumulated, prompt, generated, cache, pass>>

\* Greedy decoding goes on after the tokens s, unless they repeat.
GoesOn(s) == Len(s) < max_new_tokens /\ ~Repeats(s)

\* Faulty: the seek point need not move.
ContinuesAnyway(s) ==
  LastTimestamp(s) # NoTimestamp /\ LastTimestamp(s) < window_end

\* Does the loop go on after a pass that generated s?
Continues(s) ==
  /\ s # <<>> /\ LastTimestamp(s) # NoTimestamp
  /\ LastTimestamp(accumulated) < LastTimestamp(s)
  /\ LastTimestamp(s) < window_end

EndPass(s) ==
  /\ accumulated' = accumulated \o s
  /\ pc' = IF Continues(s) THEN "seek" ELSE "done"

\* Greedy: one token, and the end of the pass if it is the last.
Generate ==
  /\ pc = "generate" /\ ~beam
  /\ \E t \in Allowed(generated) :
       LET s == IF t = EOT THEN generated ELSE Append(generated, t) IN
       IF t = EOT \/ ~GoesOn(s)
       THEN EndPass(s) /\ generated' = s /\ UNCHANGED cache
       ELSE /\ generated' = s
            /\ cache' = DecoderStep(cache, <<pass, Len(prompt) + Len(s)>>)
            /\ UNCHANGED <<accumulated, pc>>
  /\ UNCHANGED <<request, prompt, pass>>

\* What a beam search may return.
Searched(s) ==
  /\ \A i \in DOMAIN s : s[i] \in Allowed(SubSeq(s, 1, i - 1)) /\ (s[i] = EOT => i = Len(s))
  /\ Len(s) = max_new_tokens \/ s[Len(s)] = EOT

BeamResults == {s \in UNION {[1 .. n -> Tokens] : n \in 1 .. max_new_tokens} : Searched(s)}

\* With a beam: the decoder's own state is not stepped, the beams have copies.
GenerateBeam ==
  /\ pc = "generate" /\ beam
  /\ generated' \in BeamResults
  /\ EndPass(generated')
  /\ UNCHANGED <<request, prompt, cache, pass>>

\* A step of the decoder fails, of the prompt or of the pass: the window does,
\* with all it had.
StepFails ==
  /\ pc = "generate" \/ (pc = "seek" /\ MayStart)
  /\ pc' = "failed"
  /\ UNCHANGED <<request, accumulated, prompt, generated, cache, pass>>

Next == StartPass \/ GiveUp \/ Generate \/ GenerateBeam \/ StepFails

Spec == Init /\ [][Next]_vars

-----------------------------------------------------------------------------
(* tokens_to_segments, in units of 0.02 s from the start of the window.      *)
(* current_start and last_timestamp are set together: one field, start.      *)

Words == (0 .. TextIds - 1) \ Blanks
IsBlank(s) == \A i \in DOMAIN s : s[i] \notin Words   \* decode skips EOT

\* The tokens of s that are in some set.
Only(s, some) ==
  LET only[i \in 0 .. Len(s)] ==
        IF i = 0 THEN <<>> ELSE IF s[i] \in some THEN Append(only[i - 1], s[i]) ELSE only[i - 1]
  IN only[Len(s)]

LaterOf(a, b) == IF a >= b THEN a ELSE b
Segment(start, end, text) == [start |-> start, end |-> LaterOf(start, end), tokens |-> text]

AddToken(st, t) ==
  IF ~IsTimestamp(t) THEN [st EXCEPT !.current = Append(@, t)]
  ELSE LET ts == t - TimestampBegin IN
       [segs |-> IF IsBlank(st.current) THEN st.segs
                 ELSE Append(st.segs, Segment(st.start, ts, st.current)),
        current |-> <<>>, start |-> ts]

FlushNothing(st) == st.segs   \* faulty: the last run is lost

\* The last run is flushed whether or not it is blank.
FlushFinal(st) ==
  IF st.current = <<>> THEN st.segs
  ELSE Append(st.segs, Segment(st.start, window_end, st.current))

\* The loop over the tokens.
Scan(tokens) ==
  LET after[i \in 0 .. Len(tokens)] ==
        IF i = 0 THEN [segs |-> <<>>, current |-> <<>>, start |-> 0]
        ELSE AddToken(after[i - 1], tokens[i])
  IN after[Len(tokens)]

Segments(tokens) ==
  LET flushed == FlushFinal(Scan(tokens))
      text    == Only(tokens, 0 .. EOT)
  IN IF flushed = <<>> /\ ~IsBlank(text) THEN <<Segment(0, window_end, text)>> ELSE flushed

-----------------------------------------------------------------------------
TypeOK ==
  /\ beam \in BOOLEAN /\ notimestamps \in BOOLEAN
  /\ {accumulated, prompt, generated} \subseteq Seq(Tokens)
  /\ Len(generated) <= max_new_tokens
  /\ cache.past \in [Slots -> (0 .. MaxPasses) \X Nat] /\ cache.pos \in Nat
  /\ pass \in 0 .. MaxPasses
  /\ pc \in {"seek", "generate", "done", "failed"}

\* Whatever earlier passes produced, a prompt leaves the pass the room the
\* comment at whisper.rs:265 promises ("room to generate at least 64 tokens"),
\* and it keeps the control tokens and the newest of the earlier tokens.
RoomToGenerate ==
  pc = "generate" =>
    /\ Len(prompt) + Reserve <= T_CACHE
    /\ IsPrefix(BasePrompt, prompt)
    /\ IsSuffix(SubSeq(prompt, Len(BasePrompt) + 1, Len(prompt)), accumulated)

\* Each pass after the first began past the point the one before had reached,
\* so the loop ends by itself and its bound only cuts off long windows.
EveryPassAdvances ==
  pc = "generate" /\ pass >= 2 => LastTimestamp(accumulated) >= pass - 2

\* "In notimestamps mode ... the loop always exits after the first pass"
\* (whisper.rs:256).
OnePassWithoutTimestamps == notimestamps => pass <= 1 /\ (pc = "seek" => pass = 0)

\* No word is lost, repeated or moved between the passes and the segments.
WordsAreKept ==
  pc = "done" =>
    LET segs == Segments(accumulated) IN
    /\ Only(FlattenSeq([i \in DOMAIN segs |-> segs[i].tokens]), Words) = Only(accumulated, Words)
    /\ \A i \in DOMAIN segs : segs[i].start <= segs[i].end

=============================================================================
