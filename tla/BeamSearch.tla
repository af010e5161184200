------------------------------ MODULE BeamSearch ------------------------------
(***************************************************************************)
(* The beam search of a pass (beam.rs), inside the seek loop of Decoding.  *)
(* Each beam has tokens of its own and a decoder state of its own, cloned  *)
(* from the one it grew out of.  In each round all beams propose tokens,   *)
(* the best of all proposals become the next beams, and one that ends with *)
(* EOT waits among the finished beams for best_result.                     *)
(*                                                                         *)
(* Scores are the network's and left open: any proposals may be the best,  *)
(* and any beam.  Beams are a set, their order being that of their scores. *)
(***************************************************************************)
EXTENDS Decoding

CONSTANT Size   \* options.beam_size of a request with a beam

\* Without that a beam could be made to take a token that is suppressed, or
\* find fewer tokens than it selects.
ASSUME SizeAssumption == Size \in Nat /\ 1 < Size /\ Size <= TextIds

VARIABLES
  beams,      \* beams, each with the tokens of the pass and its state
  finished,   \* finished_beams
  rounds      \* rounds of the search that are over

beamVars   == <<beams, finished, rounds>>
searchVars == <<vars, beamVars>>

BeamInit == Init /\ beams = {} /\ finished = {} /\ rounds = 0

\* BeamSearch::new, with the state that has been primed.
NewSearch ==
  /\ StartPass
  /\ beams' = IF beam THEN {[tokens |-> <<>>, state |-> cache']} ELSE {}
  /\ finished' = {} /\ rounds' = 0

-----------------------------------------------------------------------------
(* BeamSearch::step.                                                         *)

\* Faulty: the suppressor is shown the prompt only.
CandidatesOfPrompt == {c \in beams \X Tokens : c[2] \in Allowed(<<>>)}

Candidates == {c \in beams \X Tokens : c[2] \in Allowed(c[1].tokens)}

IsLast(t) == t = EOT

\* Faulty: the decoder's state is stepped, not the parent's.
StateOfPrompt(b, t) == DecoderStep(cache, <<pass, Len(prompt) + Len(b.tokens) + 1, t>>)

StateAfter(b, t) == DecoderStep(b.state, <<pass, Len(prompt) + Len(b.tokens) + 1, t>>)

Child(b, t) == [tokens |-> Append(b.tokens, t),
                state  |-> IF IsLast(t) THEN b.state ELSE StateAfter(b, t)]

Children(candidates) == {Child(c[1], c[2]) : c \in candidates}

\* Another round of the search.
Searching == rounds < max_new_tokens /\ beams # {}

StepBeams ==
  /\ pc = "generate" /\ beam /\ Searching
  /\ \E best \in [1 .. Size -> Candidates] :
       /\ IsInjective(best)
       /\ beams' = Children({c \in Range(best) : ~IsLast(c[2])})
       /\ finished' = finished \cup Children({c \in Range(best) : IsLast(c[2])})
  /\ rounds' = rounds + 1
  /\ UNCHANGED vars

-----------------------------------------------------------------------------
\* best_result, with which the pass ends.
EndSearch ==
  /\ pc = "generate" /\ beam /\ ~Searching
  /\ \E b \in beams \cup finished : generated' = b.tokens /\ EndPass(b.tokens)
  /\ beams' = {} /\ finished' = {} /\ rounds' = 0
  /\ UNCHANGED <<request, prompt, cache, pass>>

BeamNext ==
  \/ NewSearch \/ StepBeams \/ EndSearch
  \/ (GiveUp \/ Generate) /\ UNCHANGED beamVars
  \/ StepFails /\ beams' = {} /\ finished' = {} /\ rounds' = 0

BeamSpec == BeamInit /\ [][BeamNext]_searchVars

-----------------------------------------------------------------------------
\* What the cache of a pass has to hold when its n tokens were fed, text being
\* the last of them: the newest, as many as there is room for beside the next.
NewestTokens(n, text) ==
  LET oldest == IF n >= T_CACHE THEN n - T_CACHE + 2 ELSE 1
      inPrompt == n - Len(text)
  IN {IF k <= inPrompt THEN <<pass, k>> ELSE <<pass, k, text[k - inPrompt]>> : k \in oldest .. n}

Attends(state, expected) ==
  /\ {state.past[i] : i \in Retained(state)} = expected
  /\ Attended(state) = Retained(state) \cup {state.pos % T_CACHE}

\* At each step the network attends to the newest tokens of its own pass, and
\* of its own beam, as many as the cache holds beside the one being fed: never
\* to a slot that was not written or that another pass or beam wrote, also once
\* the cache has wrapped.
AttendsToContext ==
  /\ TypeOK
  /\ pc = "generate" =>
       /\ ~beam => Attends(cache, NewestTokens(Len(prompt) + Len(generated), <<>>))
       /\ \A b \in beams : Attends(b.state, NewestTokens(Len(prompt) + Len(b.tokens), b.tokens))

\* A search that keeps several beams gives the seek loop what it would take
\* from a single one: a sequence admissible token by token, which ends with
\* EOT or has used all its tokens, however the beams fork, end and overtake.
ImplementsDecoding == Spec
===============================================================================
