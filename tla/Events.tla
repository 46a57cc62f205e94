------------------------------- MODULE Events -------------------------------
(***************************************************************************)
(* Event streams: internal/events/hub.go with the goroutines that feed and *)
(* drain its channels, handlePublish, handleSubscribe, the presence and    *)
(* task events of router.go, and the end of a session (session.go).        *)
(*                                                                         *)
(* A step is one operation on a channel, one write to a socket, or one     *)
(* critical section; Publish holds hub.mu for reading while it goes from   *)
(* channel to channel.  Clients read as slowly as they like.               *)
(***************************************************************************)
EXTENDS Naturals, Sequences, FiniteSets

CONSTANTS
    Clients,        \* connections that subscribe
    Publishers,     \* goroutines that publish: handlers, cleanups, the TTL checker
    Topics,
    NoMsg,          \* a forwarder that has no event in hand
    Free, Loop,     \* writeMu: not held, held by the readLoop
    Cap,            \* events that a channel holds (64)
    SockCap,        \* bound: writes that a socket takes before its client reads
    MaxEvents,      \* bound: events that are published
    MaxChans        \* bound: subscriptions

ASSUME ConstantsAssumption ==
    /\ Clients # {} /\ Topics # {}
    /\ NoMsg \notin Publishers \X (1..MaxEvents)
    /\ Free # Loop /\ Free \notin Nat /\ Loop \notin Nat
    /\ Cap \in Nat \ {0} /\ SockCap \in Nat \ {0}
    /\ MaxEvents \in Nat /\ MaxChans \in Nat

Chans == 1..MaxChans
NoChan == 0

VARIABLES
    topics,         \* hub.topics: the channel of each topic and client
    readers,        \* publishers that hold hub.mu
    chan,           \* each channel, with the goroutine that forwards it
    made,           \* channels that were made
    published,      \* events that were published
    sent,           \* the last event of each publisher
    todo,           \* channels that its Publish has still to reach
    panicked,       \* a send met a closed channel
    loop,           \* where the readLoop of each connection is
    writeMu,        \* who holds the session's writeMu: a channel, or the loop
    out,            \* writes that the client has not read yet
    got,            \* what it has read while it was connected
    gone, stalled,  \* clients that closed their end; that do not read any more
    replaced        \* for the properties: channels that another took the place of

hub == <<topics, readers, chan, made>>
publishing == <<published, sent, todo, panicked>>
sockets == <<out, got, gone, stalled>>
vars == <<hub, publishing, loop, writeMu, sockets, replaced>>

Init ==
    /\ topics = [t \in Topics |-> [c \in Clients |-> NoChan]]
    /\ readers = {} /\ made = 0
    /\ chan = [i \in Chans |-> [owner |-> CHOOSE c \in Clients : TRUE,
                                topic |-> CHOOSE t \in Topics : TRUE,
                                open |-> FALSE, buf |-> <<>>, at |-> "unmade", msg |-> NoMsg]]
    /\ published = 0
    /\ sent = [p \in Publishers |-> 0]
    /\ todo = [p \in Publishers |-> {}]
    /\ panicked = FALSE
    /\ loop = [c \in Clients |-> "reading"]
    /\ writeMu = [c \in Clients |-> Free]
    /\ out = [c \in Clients |-> <<>>] /\ got = [c \in Clients |-> <<>>]
    /\ gone = {} /\ stalled = {} /\ replaced = {}

-----------------------------------------------------------------------------
\* Publish.

\* Mutant: the channels are collected under the lock and sent to without it.
PublishBeginCopies(p, t) ==
    /\ published < MaxEvents /\ p \notin readers /\ todo[p] = {}
    /\ published' = published + 1
    /\ sent' = [sent EXCEPT ![p] = published']
    /\ todo' = [todo EXCEPT ![p] = {topics[t][c] : c \in Clients} \ {NoChan}]
    /\ UNCHANGED <<hub, panicked, loop, writeMu, sockets, replaced>>

\* Publish takes hub.mu for reading; the channels of the topic are then fixed.
PublishBegin(p, t) ==
    /\ published < MaxEvents /\ p \notin readers /\ todo[p] = {}
    /\ published' = published + 1
    /\ sent' = [sent EXCEPT ![p] = published']
    /\ todo' = [todo EXCEPT ![p] = {topics[t][c] : c \in Clients} \ {NoChan}]
    /\ readers' = readers \cup {p}
    /\ UNCHANGED <<topics, chan, made, panicked, loop, writeMu, sockets, replaced>>

\* Mutant: the send waits for room.
PublishSendBlocks(p, i) ==
    /\ i \in todo[p] /\ Len(chan[i].buf) < Cap
    /\ todo' = [todo EXCEPT ![p] = @ \ {i}]
    /\ panicked' = (panicked \/ ~chan[i].open)
    /\ chan' = [chan EXCEPT ![i].buf = Append(@, <<p, sent[p]>>)]
    /\ UNCHANGED <<topics, readers, made, published, sent, loop, writeMu, sockets, replaced>>

\* A send that never waits: a channel that is full loses the event.
PublishSend(p, i) ==
    /\ i \in todo[p]
    /\ todo' = [todo EXCEPT ![p] = @ \ {i}]
    /\ panicked' = (panicked \/ ~chan[i].open)
    /\ chan' = [chan EXCEPT ![i].buf = IF Len(@) < Cap THEN Append(@, <<p, sent[p]>>) ELSE @]
    /\ UNCHANGED <<topics, readers, made, published, sent, loop, writeMu, sockets, replaced>>

PublishEnd(p) ==
    /\ p \in readers /\ todo[p] = {}
    /\ readers' = readers \ {p}
    /\ UNCHANGED <<topics, chan, made, publishing, loop, writeMu, sockets, replaced>>

-----------------------------------------------------------------------------
\* The session of a client that subscribes.

\* handleSubscribe: a new channel, in the place of the one that the name had for
\* the topic, which is not closed; and a goroutine that forwards it.
Subscribe(c, t) ==
    /\ loop[c] = "reading" /\ c \notin gone /\ made < MaxChans
    /\ readers = {}
    /\ made' = made + 1
    /\ topics' = [topics EXCEPT ![t][c] = made']
    /\ replaced' = replaced \cup ({topics[t][c]} \ {NoChan})
    /\ chan' = [chan EXCEPT ![made'] = [owner |-> c, topic |-> t, open |-> TRUE,
                                        buf |-> <<>>, at |-> "recv", msg |-> NoMsg]]
    /\ loop' = [loop EXCEPT ![c] = "reply"]
    /\ UNCHANGED <<readers, publishing, writeMu, sockets>>

\* A write succeeds when the socket has room, and fails once either end closed.
Broken(c) == c \in gone \/ loop[c] = "closed"
CanWrite(c) == Broken(c) \/ Len(out[c]) < SockCap
Write(c, piece) == out' = IF Broken(c) THEN out ELSE [out EXCEPT ![c] = Append(@, piece)]

\* The answer to the subscribe, under writeMu.
ReplyLock(c) ==
    /\ loop[c] = "reply" /\ writeMu[c] = Free
    /\ writeMu' = [writeMu EXCEPT ![c] = Loop]
    /\ UNCHANGED <<hub, publishing, loop, sockets, replaced>>

\* A failed write ends the loop.
Reply(c) ==
    /\ loop[c] = "reply" /\ writeMu[c] = Loop /\ CanWrite(c)
    /\ Write(c, [kind |-> "reply"])
    /\ writeMu' = [writeMu EXCEPT ![c] = Free]
    /\ loop' = [loop EXCEPT ![c] = IF Broken(c) THEN "cleanup" ELSE "reading"]
    /\ UNCHANGED <<hub, publishing, got, gone, stalled, replaced>>

\* Scan ends: the client closed its end, or disconnects.
Eof(c) ==
    /\ loop[c] = "reading" /\ c \in gone
    /\ loop' = [loop EXCEPT ![c] = "cleanup"]
    /\ UNCHANGED <<hub, publishing, writeMu, sockets, replaced>>

\* UnsubscribeAll: the channels that the hub knows are closed and forgotten.
UnsubscribeAll(c) ==
    /\ loop[c] = "cleanup" /\ readers = {}
    /\ chan' = [i \in Chans |-> IF \E t \in Topics : topics[t][c] = i
                                THEN [chan[i] EXCEPT !.open = FALSE] ELSE chan[i]]
    /\ topics' = [t \in Topics |-> [topics[t] EXCEPT ![c] = NoChan]]
    /\ loop' = [loop EXCEPT ![c] = "closing"]
    /\ UNCHANGED <<readers, made, publishing, writeMu, sockets, replaced>>

CloseConn(c) ==
    /\ loop[c] = "closing"
    /\ loop' = [loop EXCEPT ![c] = "closed"]
    /\ UNCHANGED <<hub, publishing, writeMu, sockets, replaced>>

-----------------------------------------------------------------------------
\* The goroutine that forwards a channel.

At(i, step) == chan[i].at = step
Owner(i) == chan[i].owner

\* range over the channel: the next event, or the end of a closed one.
Receive(i) ==
    /\ At(i, "recv")
    /\ \/ /\ chan[i].buf # <<>>
          /\ chan' = [chan EXCEPT ![i].msg = chan[i].buf[1], ![i].buf = Tail(@), ![i].at = "lock"]
       \/ /\ chan[i].buf = <<>> /\ ~chan[i].open
          /\ chan' = [chan EXCEPT ![i].at = "ended"]
    /\ UNCHANGED <<topics, readers, made, publishing, loop, writeMu, sockets, replaced>>

\* Mutant: the forwarder does not take writeMu.
ForwardLockNot(i) ==
    /\ At(i, "lock")
    /\ chan' = [chan EXCEPT ![i].at = "body"]
    /\ UNCHANGED <<topics, readers, made, publishing, loop, writeMu, sockets, replaced>>

ForwardLock(i) ==
    /\ At(i, "lock") /\ writeMu[Owner(i)] = Free
    /\ writeMu' = [writeMu EXCEPT ![Owner(i)] = i]
    /\ chan' = [chan EXCEPT ![i].at = "body"]
    /\ UNCHANGED <<topics, readers, made, publishing, loop, sockets, replaced>>

\* Mutant: a failed write leaves the loop without the unlock.
ForwardBodyReturns(i) ==
    /\ At(i, "body") /\ CanWrite(Owner(i))
    /\ Write(Owner(i), [kind |-> "event", msg |-> chan[i].msg, topic |-> chan[i].topic])
    /\ chan' = [chan EXCEPT ![i].at = IF Broken(Owner(i)) THEN "ended" ELSE "newline"]
    /\ UNCHANGED <<topics, readers, made, publishing, loop, writeMu, got, gone, stalled, replaced>>

\* Mutant: an event that came meanwhile is written first.
ForwardBodyNewest(i) ==
    /\ At(i, "body") /\ CanWrite(Owner(i))
    /\ LET newest == IF chan[i].buf = <<>> THEN chan[i].msg ELSE chan[i].buf[1]
       IN  /\ Write(Owner(i), [kind |-> "event", msg |-> newest, topic |-> chan[i].topic])
           /\ chan' = [chan EXCEPT ![i].at = "newline",
                                   ![i].buf = IF @ = <<>> THEN @ ELSE <<chan[i].msg>> \o Tail(@)]
    /\ UNCHANGED <<topics, readers, made, publishing, loop, writeMu, got, gone, stalled, replaced>>

\* Two writes, whose errors are ignored.
ForwardBody(i) ==
    /\ At(i, "body") /\ CanWrite(Owner(i))
    /\ Write(Owner(i), [kind |-> "event", msg |-> chan[i].msg, topic |-> chan[i].topic])
    /\ chan' = [chan EXCEPT ![i].at = "newline"]
    /\ UNCHANGED <<topics, readers, made, publishing, loop, writeMu, got, gone, stalled, replaced>>

ForwardNewline(i) ==
    /\ At(i, "newline") /\ CanWrite(Owner(i))
    /\ Write(Owner(i), [kind |-> "newline"])
    /\ chan' = [chan EXCEPT ![i].at = "recv", ![i].msg = NoMsg]
    /\ writeMu' = [writeMu EXCEPT ![Owner(i)] = Free]
    /\ UNCHANGED <<topics, readers, made, publishing, loop, got, gone, stalled, replaced>>

-----------------------------------------------------------------------------
\* The client.

Read(c) ==
    /\ c \notin gone \cup stalled /\ out[c] # <<>>
    /\ got' = [got EXCEPT ![c] = Append(@, out[c][1])]
    /\ out' = [out EXCEPT ![c] = Tail(@)]
    /\ UNCHANGED <<hub, publishing, loop, writeMu, gone, stalled, replaced>>

\* It does not read any more, and may never close its end.
Stall(c) ==
    /\ c \notin gone \cup stalled
    /\ stalled' = stalled \cup {c}
    /\ UNCHANGED <<hub, publishing, loop, writeMu, out, got, gone, replaced>>

\* It closes its end; what was not read is lost.
HangUp(c) ==
    /\ c \notin gone
    /\ gone' = gone \cup {c}
    /\ out' = [out EXCEPT ![c] = <<>>] /\ got' = [got EXCEPT ![c] = <<>>]
    /\ UNCHANGED <<hub, publishing, loop, writeMu, stalled, replaced>>

-----------------------------------------------------------------------------
PublishStep(p) == PublishEnd(p) \/ \E i \in Chans : PublishSend(p, i)

LoopStep(c) ==
    ReplyLock(c) \/ Reply(c) \/ Eof(c) \/ UnsubscribeAll(c) \/ CloseConn(c)

ForwardStep(i) == Receive(i) \/ ForwardLock(i) \/ ForwardBody(i) \/ ForwardNewline(i)

Next ==
    \/ \E p \in Publishers, t \in Topics : PublishBegin(p, t)
    \/ \E p \in Publishers : PublishStep(p)
    \/ \E c \in Clients, t \in Topics : Subscribe(c, t)
    \/ \E c \in Clients : LoopStep(c) \/ Read(c) \/ Stall(c) \/ HangUp(c)
    \/ \E i \in Chans : ForwardStep(i)

Spec == Init /\ [][Next]_vars

\* The broker's goroutines run on, and a client that has not stalled reads.  No
\* step can be taken for ever, so that fairness to all of them together is
\* fairness to each.
Progress ==
    \/ \E p \in Publishers : PublishStep(p)
    \/ \E c \in Clients : LoopStep(c) \/ Read(c)
    \/ \E i \in Chans : ForwardStep(i)

FairSpec == Spec /\ WF_vars(Progress)

-----------------------------------------------------------------------------
\* Properties.

Events == Publishers \X (1..MaxEvents)
Pieces == [kind: {"reply", "newline"}] \cup [kind: {"event"}, msg: Events, topic: Topics]

Channel == [owner: Clients, topic: Topics, open: BOOLEAN, buf: Seq(Events),
            at: {"unmade", "recv", "lock", "body", "newline", "ended"},
            msg: Events \cup {NoMsg}]

\* The shape of the state: no channel holds more than Cap events.
TypeOK ==
    /\ topics \in [Topics -> [Clients -> Chans \cup {NoChan}]]
    /\ readers \subseteq Publishers /\ made \in 0..MaxChans
    /\ chan \in [Chans -> Channel]
    /\ \A i \in Chans : Len(chan[i].buf) <= Cap
    /\ published \in 0..MaxEvents /\ sent \in [Publishers -> 0..MaxEvents]
    /\ todo \in [Publishers -> SUBSET Chans] /\ panicked \in BOOLEAN
    /\ loop \in [Clients -> {"reading", "reply", "cleanup", "closing", "closed"}]
    /\ writeMu \in [Clients -> Chans \cup {Free, Loop}]
    /\ out \in [Clients -> Seq(Pieces)] /\ got \in [Clients -> Seq(Pieces)]
    /\ gone \subseteq Clients /\ stalled \subseteq Clients /\ replaced \subseteq Chans

\* No Publish sends to a channel that the end of a session closed meanwhile,
\* which would panic and take the broker down.
NoSendOnClosed == ~panicked

Stream(c) == got[c] \o out[c]
IsEvent(piece) == piece.kind = "event"

\* What a client reads is whole lines: every event is followed by its newline,
\* although the answers and several forwarders write to the same socket.
WholeLines ==
    \A c \in Clients : \A k \in 1..Len(Stream(c)) :
        /\ IsEvent(Stream(c)[k]) /\ k < Len(Stream(c)) => Stream(c)[k + 1].kind = "newline"
        /\ Stream(c)[k].kind = "newline" => k > 1 /\ IsEvent(Stream(c)[k - 1])

\* A client reads the events of one publisher on a topic in the order in which
\* they were published (online before offline), and none twice, unless it
\* subscribed to the topic again.
InOrder ==
    \A c \in Clients : \A j, k \in 1..Len(Stream(c)) :
        /\ j < k /\ IsEvent(Stream(c)[j]) /\ IsEvent(Stream(c)[k])
        /\ Stream(c)[j].topic = Stream(c)[k].topic
        /\ Stream(c)[j].msg[1] = Stream(c)[k].msg[1]
        => \/ Stream(c)[j].msg[2] < Stream(c)[k].msg[2]
           \/ \E i \in replaced : Owner(i) = c /\ chan[i].topic = Stream(c)[j].topic

\* Publish returns, whatever its subscribers do.
PublishReturns == \A p \in Publishers : p \in readers ~> p \notin readers

\* When a client is gone its session ends, although a forwarder may be blocked in
\* a write with writeMu held, and so do the forwarders, except those of channels
\* that were replaced.
SessionEnds ==
    \A c \in Clients : c \in gone ~>
        /\ loop[c] = "closed"
        /\ \A i \in Chans : Owner(i) = c /\ i \notin replaced => chan[i].at \in {"unmade", "ended"}

=============================================================================
