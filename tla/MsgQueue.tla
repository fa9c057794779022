------------------------------- MODULE MsgQueue -------------------------------
(***************************************************************************)
(* One call of Send or SendCtx on a msg.Queue of OBI                       *)
(* (vendor/go.opentelemetry.io/obi/pkg/pipe/msg/queue.go).  The subscribers*)
(* are those at the start of the call; they get the message one after the  *)
(* other.  The first one whose channel stays full until the send timeout   *)
(* is put off until the others have the message; the timer fires once, so  *)
(* that nobody is put off after it.  Left out: bypassed queues, and the    *)
(* development option that panics after the timeout.                       *)
(***************************************************************************)
EXTENDS Naturals, Sequences

CONSTANT ChannelBufferLen   \* capacity of a subscriber's channel

VARIABLES
    chans,  \* the contents of the channels of all subscribers
    call    \* the call under way: its message and the subscribers without it

(* no call is under way                                                    *)
Idle == [msg |-> 0, left |-> <<>>, blocked |-> <<>>]

(* the subscribers that have not got the message, in the order of the code *)
Pending == call.left \o call.blocked

(* the call starts; a message without subscribers is lost                  *)
Send(m, dsts) ==
    /\ call = Idle
    /\ call' = IF dsts = <<>> THEN Idle
               ELSE [msg |-> m, left |-> dsts, blocked |-> <<>>]

(* mutant of Deliver: the channels have no limit                           *)
DeliverUnbounded ==
    /\ call # Idle
    /\ chans' = [chans EXCEPT ![Head(Pending)] = Append(@, call.msg)]
    /\ call' = IF Len(Pending) = 1 THEN Idle
               ELSE IF call.left # <<>> THEN [call EXCEPT !.left = Tail(@)]
               ELSE [call EXCEPT !.blocked = Tail(@)]

(* the first of the pending subscribers has room for the message           *)
Deliver ==
    /\ call # Idle
    /\ Len(chans[Head(Pending)]) < ChannelBufferLen
    /\ chans' = [chans EXCEPT ![Head(Pending)] = Append(@, call.msg)]
    /\ call' = IF Len(Pending) = 1 THEN Idle
               ELSE IF call.left # <<>> THEN [call EXCEPT !.left = Tail(@)]
               ELSE [call EXCEPT !.blocked = Tail(@)]

(* mutant of SendTimeout: the subscriber is tried again at once as well    *)
SendTimeoutTwice ==
    /\ call.left # <<>>
    /\ call.blocked = <<>>
    /\ call' = [call EXCEPT !.blocked = <<Head(call.left)>>]
    /\ UNCHANGED chans

(* the send timeout: the subscriber whose turn it is has to wait           *)
SendTimeout ==
    /\ call.left # <<>>
    /\ call.blocked = <<>>
    /\ call' = [call EXCEPT !.left = Tail(@), !.blocked = <<Head(call.left)>>]
    /\ UNCHANGED chans

(* the context of SendCtx ends: the pending subscribers miss the message   *)
Interrupt == call' = Idle
=============================================================================
