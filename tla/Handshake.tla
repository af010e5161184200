------------------------------ MODULE Handshake ------------------------------
(***************************************************************************)
(* The first exchange of a session: connect of rkwhisper-client and the    *)
(* head of the daemon's handle_connection.  connect makes a new connection *)
(* for every attempt; the first response to its ClientHello decides what   *)
(* it returns.  The model's job queue is all that can be full.             *)
(***************************************************************************)
EXTENDS Integers, Sequences

CONSTANTS Clients,
          JobQueue,     \* model_queue_depth
          MaxRetries    \* max_retries of connect

VARIABLES
    client,     \* connect: "connecting", "connected" (Ok) or "failed" (Err)
    retries,    \* back-offs it has slept through
    daemon,     \* handle_connection for the client's current connection
    wire,       \* responses on that connection that the client has not read
    queued      \* jobs in the model's queue

vars == <<client, retries, daemon, wire, queued>>

Init ==
    /\ client  = [c \in Clients |-> "connecting"]
    /\ retries = [c \in Clients |-> 0]
    /\ daemon  = [c \in Clients |-> "hello"]
    /\ wire    = [c \in Clients |-> <<>>]
    /\ queued  = 0

Write(c, r) == wire' = [wire EXCEPT ![c] = Append(@, r)]

\* A valid ClientHello is answered with ServerHello and the ring.
Greet(c) ==
    /\ daemon[c] = "hello"
    /\ daemon' = [daemon EXCEPT ![c] = "submit"]
    /\ Write(c, "server hello")
    /\ UNCHANGED <<client, retries, queued>>

\* submit: the job is queued, or the client is asked to back off.
Submit(c) ==
    /\ daemon[c] = "submit"
    /\ IF queued < JobQueue
       THEN /\ queued' = queued + 1
            /\ daemon' = [daemon EXCEPT ![c] = "live"]
            /\ UNCHANGED wire
       ELSE /\ daemon' = [daemon EXCEPT ![c] = "refused"]
            /\ Write(c, "back off")
            /\ UNCHANGED queued
    /\ UNCHANGED <<client, retries>>

\* connect reads the first response.
ReceiveFirst(c) ==
    /\ client[c] = "connecting" /\ wire[c] # <<>>
    /\ \/ /\ Head(wire[c]) = "server hello"
          /\ client' = [client EXCEPT ![c] = "connected"]
          /\ wire' = [wire EXCEPT ![c] = Tail(@)]
          /\ UNCHANGED <<retries, daemon>>
       \/ /\ Head(wire[c]) = "back off" /\ retries[c] < MaxRetries
          /\ retries' = [retries EXCEPT ![c] = @ + 1]
          /\ daemon' = [daemon EXCEPT ![c] = "hello"]
          /\ wire' = [wire EXCEPT ![c] = <<>>]
          /\ UNCHANGED client
       \/ /\ Head(wire[c]) = "back off" /\ retries[c] >= MaxRetries
          /\ client' = [client EXCEPT ![c] = "failed"]
          /\ UNCHANGED <<retries, daemon, wire>>
    /\ UNCHANGED queued

\* The scheduler takes a job when it has room for one.
TakeJob ==
    /\ queued > 0
    /\ queued' = queued - 1
    /\ UNCHANGED <<client, retries, daemon, wire>>

Next == TakeJob \/ \E c \in Clients : Greet(c) \/ Submit(c) \/ ReceiveFirst(c)

Spec == Init /\ [][Next]_vars

-----------------------------------------------------------------------------
\* connect does not return a session that the daemon has refused: a back-off
\* during the handshake is retried, and then reported as a failure.
ConnectRetriesBackOff ==
    \A c \in Clients : daemon[c] = "refused" => client[c] # "connected"
=============================================================================
