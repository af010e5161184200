---------------------------- MODULE Transcription ----------------------------
(***************************************************************************)
(* What the daemon promises each client, whatever happens inside: it takes *)
(* in a stream of audio and hands out the text of successive stretches of  *)
(* it, in order, then ends the session once.  Without voice detection no   *)
(* stretch is left out, and a session that does not end in an error has    *)
(* had all of its audio transcribed.                                       *)
(***************************************************************************)
EXTENDS Integers

CONSTANTS Streams,  \* the sessions
          Gaps      \* TRUE when stretches without speech may be left out

VARIABLES accepted,     \* length of the audio taken in
          delivered,    \* from, to: the stretch whose text was handed out last
          outcome       \* how the session ended

transcriptionVars == <<accepted, delivered, outcome>>

TranscriptionInit ==
    /\ accepted  = [s \in Streams |-> 0]
    /\ delivered = [s \in Streams |-> [from |-> 0, to |-> 0]]
    /\ outcome   = [s \in Streams |-> "none"]

Accept(s) ==
    /\ accepted'[s] > accepted[s]
    /\ outcome[s] = "none"
    /\ accepted' = [accepted EXCEPT ![s] = accepted'[s]]
    /\ UNCHANGED <<delivered, outcome>>

\* The text of the next stretch, or of a later one if there may be gaps.
Deliver(s) ==
    /\ delivered'[s].from < delivered'[s].to
    /\ delivered'[s].to <= accepted[s]
    /\ IF Gaps THEN delivered'[s].from >= delivered[s].to
               ELSE delivered'[s].from = delivered[s].to
    /\ outcome[s] = "none"
    /\ delivered' = [delivered EXCEPT ![s] = delivered'[s]]
    /\ UNCHANGED <<accepted, outcome>>

End(s) ==
    /\ outcome[s] = "none"
    /\ outcome'[s] \in {"done", "cancelled", "error"}
    /\ (outcome'[s] # "error" /\ ~Gaps) => delivered[s].to = accepted[s]
    /\ outcome' = [outcome EXCEPT ![s] = outcome'[s]]
    /\ UNCHANGED <<accepted, delivered>>

TranscriptionNext == \E s \in Streams : Accept(s) \/ Deliver(s) \/ End(s)

TranscriptionSpec == TranscriptionInit /\ [][TranscriptionNext]_transcriptionVars
=============================================================================
