------------------------------ MODULE Channel ------------------------------
(***************************************************************************)
(* A message's way from a sender at the server to the client's handler:    *)
(* the outgoing queue of the connection (MessageQueue), the byte stream of *)
(* the socket, and _client_on_read of src/network/client.c.                *)
(*                                                                         *)
(* The sender writes whole messages of Size bytes.  The network delivers   *)
(* bytes in order and in pieces of any length (external); the client sets  *)
(* no limit on what one read takes, and the callback wants exactly one     *)
(* message.                                                                *)
(***************************************************************************)
EXTENDS MessageQueue, MessageSize

VARIABLES
    handled,   \* messages given to the handler of the client's connection
    exited,    \* the client's program has ended itself
    \* history
    split,     \* a piece was no whole number of messages
    outrun     \* a message was written before the one before it was handled

cvars == <<handled, exited, split, outrun>>

ChannelInit ==
    /\ Init
    /\ handled = << >>
    /\ exited = FALSE
    /\ split = FALSE
    /\ outrun = FALSE

\* bytes written by the server's event thread and not yet read by the client
InTransit == Size * (Len(written) - Len(handled))

\* Mutant: exactly one message is not enough.
IsOneMessageMore(total_bytes) == total_bytes > Size

IsOneMessage(total_bytes) == total_bytes = Size

\* total_bytes have arrived: exit(-1), or the next message goes to the handler.
\* (The loop around bufferevent_read gets it at the first try; what else is in
\* the input stays there, but nothing is when the test has succeeded.)
ClientOnRead(total_bytes) ==
    /\ ~exited
    /\ total_bytes <= InTransit
    /\ split' = (split \/ total_bytes % Size # 0)
    /\ IF IsOneMessage(total_bytes)
       THEN /\ handled' = Append(handled, written[Len(handled) + 1])
            /\ UNCHANGED exited
       ELSE /\ exited' = TRUE
            /\ UNCHANGED handled
    /\ UNCHANGED <<vars, outrun>>

\* What the sending side does; a write may catch up with an earlier one.
Sending ==
    /\ Next
    /\ outrun' = (outrun \/ (Len(written') > Len(written) /\ InTransit > 0))
    /\ UNCHANGED <<handled, exited, split>>

Receiving == \E total_bytes \in 1..(Size * MaxMsgs) : ClientOnRead(total_bytes)

ChannelNext == Sending \/ Receiving

ChannelSpec == ChannelInit /\ [][ChannelNext]_<<vars, cvars>>

\* Both sides' threads are scheduled, the timer is re-armed by every callback,
\* and bytes written to the socket arrive.
FairChannelSpec ==
    /\ ChannelSpec
    /\ WF_<<vars, cvars>>(EventThread /\ Sending)
    /\ \A s \in Senders : WF_<<vars, cvars>>(Enqueue(s) /\ Sending)
    /\ WF_<<vars, cvars>>(Receiving)

-----------------------------------------------------------------------------
(* Properties *)

IsHandled(m) == \E i \in DOMAIN handled : handled[i] = m

\* From sender to handler, messages arrive once, in the order of their sends,
\* and a message is passed over by a later one only if it was lost in the
\* sender's queue, linked behind a message that was being removed.
HandledInOrder ==
    \A i \in DOMAIN handled : \A m \in linked :
        /\ m < handled[i] => m \in overtaken \/ \E j \in 1..(i - 1) : handled[j] = m
        /\ \A j \in 1..(i - 1) : handled[j] # handled[i]

\* The client ends itself only if the stream cut a message, or the server
\* wrote a message before the client had handled the previous one.
ExitNeedsCrowding == exited => split \/ outrun

\* Every message a sender has queued reaches the handler, unless it was lost
\* in the queue or the client has ended itself.
LinkedIsHandled ==
    \A m \in Msgs : m \in linked ~> (m \in overtaken \/ IsHandled(m) \/ exited)
=============================================================================
