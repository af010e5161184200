----------------------------- MODULE Conversation -----------------------------
(***************************************************************************)
(* What a connection promises, in whole messages: the daemon works on the  *)
(* very request that the client asked for, greets first and has one last   *)
(* word, unless it gives up right after the greeting; the client hears     *)
(* each message once, in order and unchanged, and takes a conversation for *)
(* over only when it is, or when it broke off.                             *)
(***************************************************************************)
EXTENDS Naturals, Sequences

CONSTANTS Greeting,     \* the message that accepts a request,
          Refusals,     \* those that do not,
          More, Parting \* and those that answer it, and the last ones

VARIABLES asked,        \* what the client asked for
          request,      \* what the daemon works on, at most one
          said, heard,  \* the messages of the daemon, and those the client has
          quiet,        \* the daemon says nothing more
          broken,       \* because it died, maybe before its last word
          ending        \* what the client takes the end for: "open" while there is none,
                        \* "done", "error", or "gone" when it did not wait for it

conversationVars == <<asked, request, said, heard, quiet, broken, ending>>

ConversationInit ==
    /\ request = <<>> /\ said = <<>> /\ heard = <<>>
    /\ quiet = FALSE /\ broken = FALSE /\ ending = "open"

-----------------------------------------------------------------------------
(* The daemon.                                                             *)

Greet ==
    /\ said = <<>> /\ ~quiet
    /\ said' = <<Greeting>> /\ request' = <<asked>>
    /\ UNCHANGED <<asked, heard, quiet, broken, ending>>

Refuse ==
    /\ said = <<>> /\ ~quiet
    /\ \E r \in Refusals : said' = <<r>>
    /\ quiet' = TRUE
    /\ UNCHANGED <<asked, request, heard, broken, ending>>

Answer ==
    /\ request # <<>> /\ ~quiet
    /\ \/ \E r \in More : said' = Append(said, r) /\ UNCHANGED quiet
       \/ \E r \in Parting : said' = Append(said, r) /\ quiet' = TRUE
    /\ UNCHANGED <<asked, request, heard, broken, ending>>

\* It has greeted, but cannot serve.
GiveUp ==
    /\ said = <<Greeting>> /\ ~quiet
    /\ quiet' = TRUE
    /\ UNCHANGED <<asked, request, said, heard, broken, ending>>

\* It stops when there is nobody to talk to, or breaks off.
FallSilent ==
    /\ ending # "open" /\ quiet' = TRUE
    /\ UNCHANGED <<asked, request, said, heard, broken, ending>>

BreakOff ==
    /\ broken' = TRUE /\ quiet' = TRUE
    /\ UNCHANGED <<asked, request, said, heard, ending>>

-----------------------------------------------------------------------------
(* The client.                                                             *)

\* A conversation is over for the client when it has heard all there will be.
Over == quiet /\ heard = said

Hear ==
    /\ ending = "open" /\ Len(heard) < Len(said)
    /\ LET r == said[Len(heard) + 1]
       IN  /\ heard' = Append(heard, r)
           /\ \/ /\ r.kind \in {"segment", "speech"} \/ (heard = <<>> /\ r = Greeting)
                 /\ UNCHANGED ending
              \/ r.kind = "done" /\ ending' \in {"open", "done"}
              \/ r.kind \notin {"segment", "speech", "done"} /\ ending' = "error"
    /\ ending' # "open" => Over'
    /\ UNCHANGED <<asked, request, said, quiet, broken>>

Stop ==
    /\ ending = "open" /\ Over
    /\ heard # <<>> /\ heard[Len(heard)].kind = "done"
    /\ ending' = "done"
    /\ UNCHANGED <<asked, request, said, heard, quiet, broken>>

Fail ==
    /\ ending = "open" /\ (Over \/ broken)
    /\ ending' = "error"
    /\ UNCHANGED <<asked, request, said, heard, quiet, broken>>

Go ==
    /\ ending = "open" /\ ending' = "gone"
    /\ UNCHANGED <<asked, request, said, heard, quiet, broken>>

ConversationNext ==
    \/ Greet \/ Refuse \/ Answer \/ GiveUp \/ FallSilent \/ BreakOff
    \/ Hear \/ Stop \/ Fail \/ Go

ConversationSpec == ConversationInit /\ [][ConversationNext]_conversationVars
=============================================================================
