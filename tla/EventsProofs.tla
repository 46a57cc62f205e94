---------------------------- MODULE EventsProofs ----------------------------
(***************************************************************************)
(* No Publish ever sends to a closed channel, for any number of clients,   *)
(* publishers, topics and subscriptions.                                   *)
(*                                                                         *)
(* A channel is closed under hub.mu, which every Publish holds from the    *)
(* moment it knows its channels; and the hub knows only open channels,     *)
(* each under the name of one client.                                      *)
(***************************************************************************)
EXTENDS Events, SequenceTheorems, TLAPS

\* Publish has channels to send to only while it holds hub.mu; they are open, and
\* its event is one that was published.
PublishHolds ==
    \A p \in Publishers : todo[p] # {} =>
        /\ p \in readers /\ sent[p] \in 1..MaxEvents
        /\ \A i \in todo[p] : chan[i].open

\* The channels that the hub knows were made, are open and are their owner's.
HubOpen ==
    \A t \in Topics, c \in Clients : topics[t][c] # NoChan =>
        LET i == topics[t][c] IN i <= made /\ chan[i].open /\ chan[i].owner = c

\* A forwarder that writes has an event in hand.
InHand == \A i \in Chans : chan[i].at \in {"lock", "body", "newline"} => chan[i].msg \in Events

IndInv == TypeOK /\ PublishHolds /\ HubOpen /\ InHand /\ NoSendOnClosed

-----------------------------------------------------------------------------
\* The hub starts empty, with no channel in use.
LEMMA InitInd == Init => IndInv
<1> SUFFICES ASSUME Init PROVE IndInv OBVIOUS
<1> USE ConstantsAssumption DEF Init
<1>1. TypeOK
  <2>1. (CHOOSE c \in Clients : TRUE) \in Clients /\ (CHOOSE t \in Topics : TRUE) \in Topics
    OBVIOUS
  <2>2. chan \in [Chans -> Channel] BY <2>1 DEF Channel
  <2>3. \A i \in Chans : Len(chan[i].buf) <= Cap OBVIOUS
  <2>4. topics \in [Topics -> [Clients -> Chans \cup {NoChan}]] OBVIOUS
  <2>5. /\ loop \in [Clients -> {"reading", "reply", "cleanup", "closing", "closed"}]
        /\ writeMu \in [Clients -> Chans \cup {Free, Loop}]
        /\ todo \in [Publishers -> SUBSET Chans] /\ panicked \in BOOLEAN
    OBVIOUS
  <2>6. out \in [Clients -> Seq(Pieces)] /\ got \in [Clients -> Seq(Pieces)] OBVIOUS
  <2>7. /\ readers \subseteq Publishers /\ made \in 0..MaxChans
        /\ published \in 0..MaxEvents /\ sent \in [Publishers -> 0..MaxEvents]
        /\ gone \subseteq Clients /\ stalled \subseteq Clients /\ replaced \subseteq Chans
    OBVIOUS
  <2> QED BY <2>2, <2>3, <2>4, <2>5, <2>6, <2>7 DEF TypeOK
<1>2. PublishHolds /\ HubOpen /\ NoSendOnClosed BY DEF PublishHolds, HubOpen, NoSendOnClosed
<1>3. InHand BY DEF InHand
<1> QED BY <1>1, <1>2, <1>3 DEF IndInv

\* The steps of Publish.
LEMMA PublishInd ==
  ASSUME IndInv, NEW p \in Publishers,
         (\E t \in Topics : PublishBegin(p, t)) \/ PublishStep(p)
  PROVE  IndInv'
<1> USE ConstantsAssumption DEF IndInv, hub, publishing, sockets
<1>1. ASSUME NEW t \in Topics, PublishBegin(p, t) PROVE IndInv'
  <2>1. /\ todo' = [todo EXCEPT ![p] = {topics[t][c] : c \in Clients} \ {NoChan}]
        /\ sent' = [sent EXCEPT ![p] = published + 1] /\ published' = published + 1
        /\ published < MaxEvents /\ readers' = readers \cup {p}
        /\ UNCHANGED <<topics, chan, made, panicked, loop, writeMu, sockets, replaced>>
    BY <1>1 DEF PublishBegin
  <2>2. {topics[t][c] : c \in Clients} \ {NoChan} \in SUBSET Chans BY DEF TypeOK
  <2>3. published' \in 1..MaxEvents BY <2>1 DEF TypeOK
  <2>4. TypeOK' BY <2>1, <2>2, <2>3 DEF TypeOK
  <2>5. \A i \in {topics[t][c] : c \in Clients} \ {NoChan} : chan[i].open BY DEF HubOpen
  <2>6. PublishHolds' BY <2>1, <2>2, <2>3, <2>5 DEF PublishHolds, TypeOK
  <2>7. (HubOpen /\ InHand /\ NoSendOnClosed)' BY <2>1 DEF HubOpen, InHand, NoSendOnClosed
  <2> QED BY <2>4, <2>6, <2>7
<1>2. ASSUME NEW i \in Chans, PublishSend(p, i) PROVE IndInv'
  <2> DEFINE b == IF Len(chan[i].buf) < Cap THEN Append(chan[i].buf, <<p, sent[p]>>)
                  ELSE chan[i].buf
  <2>1. /\ i \in todo[p] /\ todo' = [todo EXCEPT ![p] = @ \ {i}]
        /\ panicked' = (panicked \/ ~chan[i].open)
        /\ chan' = [chan EXCEPT ![i].buf = b]
        /\ UNCHANGED <<topics, readers, made, published, sent, loop, writeMu, sockets, replaced>>
    BY <1>2 DEF PublishSend
  <2>2. <<p, sent[p]>> \in Events BY <2>1 DEF PublishHolds, Events
  <2>3. b \in Seq(Events) /\ Len(b) <= Cap
    <3>1. chan[i].buf \in Seq(Events) /\ Len(chan[i].buf) <= Cap BY DEF TypeOK, Channel
    <3> QED BY <2>2, <3>1
  <2> HIDE DEF b
  <2>4. chan' = [chan EXCEPT ![i] = [chan[i] EXCEPT !.buf = b]] BY <2>1
  <2>5. chan[i].open BY <2>1 DEF PublishHolds
  <2>6. panicked' = FALSE BY <2>1, <2>5 DEF NoSendOnClosed, TypeOK
  <2>7. \A j \in Chans : /\ chan'[j].open = chan[j].open /\ chan'[j].owner = chan[j].owner
                         /\ chan'[j].at = chan[j].at /\ chan'[j].msg = chan[j].msg
    <3> DEFINE d == [chan[i] EXCEPT !.buf = b]
    <3>1. chan[i] \in Channel BY DEF TypeOK
    <3>2. d.open = chan[i].open /\ d.owner = chan[i].owner BY <3>1 DEF Channel
    <3>3. d.at = chan[i].at /\ d.msg = chan[i].msg BY <3>1 DEF Channel
    <3> HIDE DEF d
    <3>4. chan'[i] = d /\ \A j \in Chans : j # i => chan'[j] = chan[j]
      <4>1. chan' = [chan EXCEPT ![i] = d] BY <2>4 DEF d
      <4> QED BY <4>1 DEF TypeOK
    <3> QED BY <3>2, <3>3, <3>4
  <2>12. [chan[i] EXCEPT !.buf = b] \in Channel /\ [chan[i] EXCEPT !.buf = b].buf = b
    BY <2>3 DEF TypeOK, Channel
  <2>13. chan' \in [Chans -> Channel] /\ \A j \in Chans : Len(chan'[j].buf) <= Cap
    BY <2>3, <2>4, <2>12 DEF TypeOK
  <2>8. TypeOK' BY <2>1, <2>6, <2>13 DEF TypeOK
  <2>9. PublishHolds' BY <2>1, <2>7 DEF PublishHolds, TypeOK
  <2>10. HubOpen' BY <2>1, <2>7 DEF HubOpen, TypeOK
  <2>11. InHand' /\ NoSendOnClosed' BY <2>6, <2>7 DEF InHand, NoSendOnClosed
  <2> QED BY <2>8, <2>9, <2>10, <2>11
<1>3. CASE PublishEnd(p)
  BY <1>3 DEF PublishEnd, TypeOK, PublishHolds, HubOpen, InHand, NoSendOnClosed
<1> QED BY <1>1, <1>2, <1>3 DEF PublishStep

\* The read loop of a session, and its client.
LEMMA ClientInd ==
  ASSUME IndInv, NEW c \in Clients,
         (\E t \in Topics : Subscribe(c, t)) \/ LoopStep(c) \/ Read(c) \/ Stall(c) \/ HangUp(c)
  PROVE  IndInv'
<1> USE ConstantsAssumption DEF IndInv, hub, publishing, sockets
<1>1. ASSUME NEW t \in Topics, Subscribe(c, t) PROVE IndInv'
  <2> DEFINE new == [owner |-> c, topic |-> t, open |-> TRUE, buf |-> <<>>, at |-> "recv",
                     msg |-> NoMsg]
  <2>1. /\ made < MaxChans /\ readers = {} /\ made' = made + 1
        /\ topics' = [topics EXCEPT ![t][c] = made + 1]
        /\ replaced' = replaced \cup ({topics[t][c]} \ {NoChan})
        /\ chan' = [chan EXCEPT ![made + 1] = new]
        /\ loop' = [loop EXCEPT ![c] = "reply"]
        /\ UNCHANGED <<readers, publishing, writeMu, sockets>>
    BY <1>1 DEF Subscribe
  <2>2. made + 1 \in Chans BY <2>1 DEF TypeOK, Chans
  <2>3. new \in Channel /\ new.buf = <<>> /\ new.open /\ new.owner = c /\ new.at = "recv"
    BY DEF Channel
  <2> HIDE DEF new
  <2>4. chan' \in [Chans -> Channel] /\ \A j \in Chans : Len(chan'[j].buf) <= Cap
    BY <2>1, <2>2, <2>3 DEF TypeOK
  <2>5. topics' \in [Topics -> [Clients -> Chans \cup {NoChan}]] BY <2>1, <2>2 DEF TypeOK
  <2>12. made' \in 0..MaxChans /\ replaced' \subseteq Chans BY <2>1 DEF TypeOK
  <2>13. loop' \in [Clients -> {"reading", "reply", "cleanup", "closing", "closed"}]
    BY <2>1 DEF TypeOK
  <2>6. TypeOK' BY <2>1, <2>4, <2>5, <2>12, <2>13 DEF TypeOK
  <2>7. \A p \in Publishers : todo[p] = {} BY <2>1 DEF PublishHolds
  <2>8. PublishHolds' BY <2>1, <2>7 DEF PublishHolds
  <2>9. HubOpen' BY <2>1, <2>2, <2>3 DEF HubOpen, TypeOK, Chans, NoChan
  <2>10. InHand' BY <2>1, <2>2, <2>3 DEF InHand, TypeOK
  <2>11. NoSendOnClosed' BY <2>1 DEF NoSendOnClosed
  <2> QED BY <2>6, <2>8, <2>9, <2>10, <2>11
<1>2. CASE ReplyLock(c)
  BY <1>2 DEF ReplyLock, TypeOK, PublishHolds, HubOpen, InHand, NoSendOnClosed
<1>3. CASE Reply(c)
  <2>1. out' \in [Clients -> Seq(Pieces)] BY <1>3 DEF Reply, Write, TypeOK, Pieces
  <2>2. TypeOK' BY <1>3, <2>1 DEF Reply, TypeOK
  <2> QED BY <1>3, <2>2 DEF Reply, PublishHolds, HubOpen, InHand, NoSendOnClosed
<1>4. CASE Eof(c) \/ CloseConn(c)
  <2>1. TypeOK' BY <1>4 DEF Eof, CloseConn, TypeOK
  <2> QED
    BY <1>4, <2>1 DEF Eof, CloseConn, PublishHolds, HubOpen, InHand, NoSendOnClosed
<1>5. CASE UnsubscribeAll(c)
  <2>1. /\ readers = {} /\ loop' = [loop EXCEPT ![c] = "closing"]
        /\ chan' = [i \in Chans |-> IF \E t \in Topics : topics[t][c] = i
                                    THEN [chan[i] EXCEPT !.open = FALSE] ELSE chan[i]]
        /\ topics' = [t \in Topics |-> [topics[t] EXCEPT ![c] = NoChan]]
        /\ UNCHANGED <<readers, made, publishing, writeMu, sockets, replaced>>
    BY <1>5 DEF UnsubscribeAll
  <2>2. \A i \in Chans : /\ [chan[i] EXCEPT !.open = FALSE] \in Channel
                         /\ [chan[i] EXCEPT !.open = FALSE].buf = chan[i].buf
                         /\ [chan[i] EXCEPT !.open = FALSE].at = chan[i].at
                         /\ [chan[i] EXCEPT !.open = FALSE].msg = chan[i].msg
    <3> SUFFICES ASSUME NEW r \in Channel
                 PROVE  /\ [r EXCEPT !.open = FALSE] \in Channel
                        /\ [r EXCEPT !.open = FALSE].buf = r.buf
                        /\ [r EXCEPT !.open = FALSE].at = r.at
                        /\ [r EXCEPT !.open = FALSE].msg = r.msg
      BY DEF TypeOK
    <3> QED BY DEF Channel
  <2>3. chan' \in [Chans -> Channel] /\ \A j \in Chans : Len(chan'[j].buf) <= Cap
    BY <2>1, <2>2 DEF TypeOK
  <2>4. topics' \in [Topics -> [Clients -> Chans \cup {NoChan}]] BY <2>1 DEF TypeOK
  <2>5. TypeOK' BY <2>1, <2>3, <2>4 DEF TypeOK
  <2>6. PublishHolds' BY <2>1 DEF PublishHolds
  <2>7. ASSUME NEW t \in Topics, NEW d \in Clients, topics'[t][d] # NoChan
        PROVE  LET i == topics'[t][d] IN i <= made' /\ chan'[i].open /\ chan'[i].owner = d
    <3>1. d # c /\ topics'[t][d] = topics[t][d] BY <2>1, <2>7 DEF TypeOK
    <3>2. topics[t][d] \in Chans /\ chan[topics[t][d]].owner = d
      BY <2>7, <3>1 DEF HubOpen, TypeOK
    <3>3. \A s \in Topics : topics[s][c] # topics[t][d] BY <3>1, <3>2 DEF HubOpen, NoChan, Chans
    <3>4. chan'[topics[t][d]] = chan[topics[t][d]] BY <2>1, <3>2, <3>3
    <3> QED BY <2>1, <2>7, <3>1, <3>4 DEF HubOpen
  <2>8. HubOpen' BY <2>7 DEF HubOpen
  <2>9. InHand' BY <2>1, <2>2 DEF InHand
  <2>10. NoSendOnClosed' BY <2>1 DEF NoSendOnClosed
  <2> QED BY <2>5, <2>6, <2>8, <2>9, <2>10
<1>6. CASE Read(c)
  <2>1. out' \in [Clients -> Seq(Pieces)] /\ got' \in [Clients -> Seq(Pieces)]
    BY <1>6 DEF Read, TypeOK
  <2>2. TypeOK' BY <1>6, <2>1 DEF Read, TypeOK
  <2> QED BY <1>6, <2>2 DEF Read, PublishHolds, HubOpen, InHand, NoSendOnClosed
<1>7. CASE Stall(c)
  BY <1>7 DEF Stall, TypeOK, PublishHolds, HubOpen, InHand, NoSendOnClosed
<1>8. CASE HangUp(c)
  <2>1. out' \in [Clients -> Seq(Pieces)] /\ got' \in [Clients -> Seq(Pieces)]
    BY <1>8 DEF HangUp, TypeOK
  <2>2. TypeOK' BY <1>8, <2>1 DEF HangUp, TypeOK
  <2> QED BY <1>8, <2>2 DEF HangUp, PublishHolds, HubOpen, InHand, NoSendOnClosed
<1> QED BY <1>1, <1>2, <1>3, <1>4, <1>5, <1>6, <1>7, <1>8 DEF LoopStep

\* The forwarder of a channel.
LEMMA ForwardInd ==
  ASSUME IndInv, NEW i \in Chans, ForwardStep(i)
  PROVE  IndInv'
<1> USE ConstantsAssumption DEF IndInv, hub, publishing, sockets
<1>1. chan[i] \in Channel /\ Owner(i) \in Clients BY DEF TypeOK, Channel, Owner
<1>2. PICK r \in Channel :
        /\ chan' = [chan EXCEPT ![i] = r]
        /\ Len(r.buf) <= Cap /\ r.open = chan[i].open /\ r.owner = chan[i].owner
        /\ r.at \in {"lock", "body", "newline"} => r.msg \in Events
  <2>1. CASE Receive(i)
    <3>1. CASE chan[i].buf # <<>>
      <4> DEFINE r == [chan[i] EXCEPT !.msg = chan[i].buf[1], !.buf = Tail(chan[i].buf), !.at = "lock"]
      <4>1. chan[i].buf \in Seq(Events) BY <1>1 DEF Channel
      <4>2. chan[i].buf[1] \in Events /\ Tail(chan[i].buf) \in Seq(Events)
            /\ Len(Tail(chan[i].buf)) <= Cap
        BY <3>1, <4>1 DEF TypeOK
      <4>3. chan' = [chan EXCEPT ![i] = r] BY <2>1, <3>1 DEF Receive, TypeOK
      <4>4. /\ r \in Channel /\ r.buf = Tail(chan[i].buf) /\ r.open = chan[i].open
            /\ r.owner = chan[i].owner /\ r.msg \in Events
        BY <1>1, <4>2 DEF Channel
      <4> QED BY <4>2, <4>3, <4>4
    <3>2. CASE chan[i].buf = <<>>
      <4> DEFINE r == [chan[i] EXCEPT !.at = "ended"]
      <4>1. chan' = [chan EXCEPT ![i] = r] BY <2>1, <3>2 DEF Receive, TypeOK
      <4>2. /\ r \in Channel /\ r.buf = chan[i].buf /\ r.open = chan[i].open
            /\ r.owner = chan[i].owner /\ r.at = "ended"
        BY <1>1 DEF Channel
      <4> QED BY <4>1, <4>2 DEF TypeOK
    <3> QED BY <3>1, <3>2
  <2>2. CASE ForwardLock(i) \/ ForwardBody(i)
    <3>1. PICK step \in {"body", "newline"} : chan' = [chan EXCEPT ![i].at = step]
      BY <2>2 DEF ForwardLock, ForwardBody
    <3> DEFINE r == [chan[i] EXCEPT !.at = step]
    <3>2. chan' = [chan EXCEPT ![i] = r] BY <3>1 DEF TypeOK
    <3>3. /\ r \in Channel /\ r.buf = chan[i].buf /\ r.open = chan[i].open
          /\ r.owner = chan[i].owner /\ r.msg = chan[i].msg
      BY <1>1 DEF Channel
    <3>4. chan[i].msg \in Events BY <2>2 DEF ForwardLock, ForwardBody, At, InHand
    <3> QED BY <3>2, <3>3, <3>4 DEF TypeOK
  <2>3. CASE ForwardNewline(i)
    <3> DEFINE r == [chan[i] EXCEPT !.at = "recv", !.msg = NoMsg]
    <3>1. chan' = [chan EXCEPT ![i] = r] BY <2>3 DEF ForwardNewline, TypeOK
    <3>2. /\ r \in Channel /\ r.buf = chan[i].buf /\ r.open = chan[i].open
          /\ r.owner = chan[i].owner /\ r.at = "recv"
      BY <1>1 DEF Channel
    <3> QED BY <3>1, <3>2 DEF TypeOK
  <2> QED BY <2>1, <2>2, <2>3 DEF ForwardStep
<1>3. UNCHANGED <<topics, readers, made, publishing, loop, got, gone, stalled, replaced>>
  BY DEF ForwardStep, Receive, ForwardLock, ForwardBody, ForwardNewline
<1>4. out' \in [Clients -> Seq(Pieces)]
  <2>1. CASE Receive(i) \/ ForwardLock(i) BY <2>1 DEF Receive, ForwardLock, TypeOK
  <2>2. CASE ForwardBody(i)
    <3>1. [kind |-> "event", msg |-> chan[i].msg, topic |-> chan[i].topic] \in Pieces
      BY <1>1, <2>2 DEF ForwardBody, At, InHand, Pieces, Channel
    <3> QED BY <1>1, <2>2, <3>1 DEF ForwardBody, Write, TypeOK
  <2>3. CASE ForwardNewline(i)
    <3>1. [kind |-> "newline"] \in Pieces BY DEF Pieces
    <3> QED BY <1>1, <2>3, <3>1 DEF ForwardNewline, Write, TypeOK
  <2> QED BY <2>1, <2>2, <2>3 DEF ForwardStep
<1>5. writeMu' \in [Clients -> Chans \cup {Free, Loop}]
  BY <1>1 DEF ForwardStep, Receive, ForwardLock, ForwardBody, ForwardNewline, TypeOK
<1>6. chan' \in [Chans -> Channel] /\ \A j \in Chans : Len(chan'[j].buf) <= Cap
  BY <1>2 DEF TypeOK
<1>7. \A j \in Chans : chan'[j].open = chan[j].open /\ chan'[j].owner = chan[j].owner
  BY <1>2 DEF TypeOK
<1>8. TypeOK' BY <1>3, <1>4, <1>5, <1>6 DEF TypeOK
<1>9. PublishHolds' BY <1>3, <1>7 DEF PublishHolds, TypeOK
<1>13. \A t \in Topics, c \in Clients : topics[t][c] # NoChan => topics[t][c] \in Chans
  BY DEF TypeOK
<1>10. HubOpen' BY <1>3, <1>7, <1>13 DEF HubOpen
<1>11. InHand' BY <1>2 DEF InHand, TypeOK
<1>12. NoSendOnClosed' BY <1>3 DEF NoSendOnClosed
<1> QED BY <1>8, <1>9, <1>10, <1>11, <1>12

-----------------------------------------------------------------------------
\* IndInv holds in every state.
LEMMA Inductive == Spec => []IndInv
<1>1. ASSUME IndInv, [Next]_vars PROVE IndInv'
  <2>1. CASE Next BY <1>1, <2>1, PublishInd, ClientInd, ForwardInd DEF Next
  <2>2. CASE UNCHANGED vars
    BY <1>1, <2>2 DEF vars, hub, publishing, sockets, IndInv, TypeOK, PublishHolds, HubOpen,
       InHand, NoSendOnClosed
  <2> QED BY <1>1, <2>1, <2>2
<1> QED BY <1>1, InitInd, PTL DEF Spec

\* The hub, its channels and the sockets have the shape that TypeOK gives them: no
\* channel grows past its 64 events.
THEOREM TypeCorrect == Spec => []TypeOK
  BY Inductive, PTL DEF IndInv

\* Publish never meets a channel that UnsubscribeAll closed: the broker does not
\* panic when sessions end while others publish.
THEOREM NeverSendOnClosed == Spec => []NoSendOnClosed
  BY Inductive, PTL DEF IndInv

-----------------------------------------------------------------------------
\* Whole lines.  The invariant: a channel's goroutine exists once the channel was
\* made; a forwarder between its two writes holds writeMu; and what a client has
\* or will read ends in an event just when one of its forwarders owes a newline.

MadeOK ==
    /\ \A i \in Chans : chan[i].at = "unmade" <=> i > made
    /\ replaced \subseteq 1..made

Exclusive == \A i \in Chans : chan[i].at \in {"body", "newline"} => writeMu[Owner(i)] = i

Owes(c) == \E i \in Chans : Owner(i) = c /\ At(i, "newline")

EndsInEvent(s) == s # <<>> /\ IsEvent(s[Len(s)])

MidLine == \A c \in Clients : ~Broken(c) => (EndsInEvent(Stream(c)) <=> Owes(c))

\* WholeLines, of one stream.
Lines(s) ==
    \A k \in 1..Len(s) :
        /\ IsEvent(s[k]) /\ k < Len(s) => s[k + 1].kind = "newline"
        /\ s[k].kind = "newline" => k > 1 /\ IsEvent(s[k - 1])

LineInv == MadeOK /\ Exclusive /\ MidLine /\ WholeLines

\* A newline is written after an event, and anything else after a whole line.
LEMMA LinesAppend ==
    ASSUME NEW s \in Seq(Pieces), NEW x \in Pieces, Lines(s),
           x.kind = "newline" <=> EndsInEvent(s)
    PROVE  Lines(Append(s, x)) /\ (EndsInEvent(Append(s, x)) <=> IsEvent(x))
<1> DEFINE t == Append(s, x)
<1>1. /\ Len(s) \in Nat /\ t \in Seq(Pieces) /\ t # <<>> /\ Len(t) = Len(s) + 1
      /\ \A k \in 1..Len(s) : t[k] = s[k]
      /\ t[Len(s) + 1] = x
  BY AppendProperties, LenProperties
<1> HIDE DEF t
<1>2. EndsInEvent(t) <=> IsEvent(x)
  BY <1>1 DEF EndsInEvent
<1>3. s # <<>> <=> Len(s) > 0
  BY EmptySeq, <1>1
<1>4. ASSUME NEW k \in 1..Len(t)
      PROVE  /\ IsEvent(t[k]) /\ k < Len(t) => t[k + 1].kind = "newline"
             /\ t[k].kind = "newline" => k > 1 /\ IsEvent(t[k - 1])
  <2>1. CASE k < Len(s)
    <3>1. k \in 1..Len(s) /\ k + 1 \in 1..Len(s) /\ (k > 1 => k - 1 \in 1..Len(s))
      BY <1>1, <2>1
    <3> QED BY <1>1, <2>1, <3>1 DEF Lines
  <2>2. CASE k = Len(s)
    <3>1. k \in 1..Len(s) /\ (k > 1 => k - 1 \in 1..Len(s))
      BY <1>1, <2>2
    <3>2. IsEvent(t[k]) => t[k + 1].kind = "newline"
      BY <1>1, <1>3, <2>2, <3>1 DEF EndsInEvent
    <3> QED BY <1>1, <2>2, <3>1, <3>2 DEF Lines
  <2>3. CASE k = Len(s) + 1
    <3>1. t[k].kind = "newline" => k > 1 /\ IsEvent(t[k - 1])
      BY <1>1, <1>3, <2>3 DEF EndsInEvent
    <3> QED BY <1>1, <2>3, <3>1
  <2> QED BY <1>1, <2>1, <2>2, <2>3
<1> QED BY <1>2, <1>4 DEF Lines, t

\* Two facts about sequences: appending to the second of two that are joined, and
\* moving the head of the second to the end of the first.
LEMMA ConcatAppend ==
    ASSUME NEW S, NEW s \in Seq(S), NEW t \in Seq(S), NEW x \in S
    PROVE  s \o Append(t, x) = Append(s \o t, x)
<1>1. /\ Append(t, x) \in Seq(S) /\ Len(Append(t, x)) = Len(t) + 1
      /\ \A k \in 1..Len(t) : Append(t, x)[k] = t[k]
      /\ Append(t, x)[Len(t) + 1] = x
  BY AppendProperties
<1>2. s \o t \in Seq(S) /\ Len(s \o t) = Len(s) + Len(t) /\ Len(s) \in Nat /\ Len(t) \in Nat
  BY ConcatProperties, LenProperties
<1>3. /\ s \o Append(t, x) \in Seq(S) /\ Len(s \o Append(t, x)) = Len(s) + Len(t) + 1
      /\ Append(s \o t, x) \in Seq(S) /\ Len(Append(s \o t, x)) = Len(s) + Len(t) + 1
  BY <1>1, <1>2, ConcatProperties, AppendProperties
<1>4. ASSUME NEW k \in 1..(Len(s) + Len(t) + 1)
      PROVE  (s \o Append(t, x))[k] = Append(s \o t, x)[k]
  BY <1>1, <1>2
<1> QED BY <1>3, <1>4, SeqEqual

\* The head of the second sequence moved to the end of the first.
LEMMA ConcatMove ==
    ASSUME NEW S, NEW s \in Seq(S), NEW t \in Seq(S), t # <<>>
    PROVE  Append(s, t[1]) \o Tail(t) = s \o t
<1>1. /\ Tail(t) \in Seq(S) /\ Len(Tail(t)) = Len(t) - 1 /\ Len(t) \in Nat \ {0} /\ Len(s) \in Nat
      /\ \A k \in 1..Len(Tail(t)) : Tail(t)[k] = t[k + 1]
  BY HeadTailProperties, EmptySeq, LenProperties
<1>2. t[1] \in S BY <1>1, ElementOfSeq
<1>3. /\ Append(s, t[1]) \in Seq(S) /\ Len(Append(s, t[1])) = Len(s) + 1
      /\ \A k \in 1..Len(s) : Append(s, t[1])[k] = s[k]
      /\ Append(s, t[1])[Len(s) + 1] = t[1]
  BY <1>2, AppendProperties
<1>4. /\ Append(s, t[1]) \o Tail(t) \in Seq(S) /\ s \o t \in Seq(S)
      /\ Len(Append(s, t[1]) \o Tail(t)) = Len(s) + Len(t) /\ Len(s \o t) = Len(s) + Len(t)
  BY <1>1, <1>3, ConcatProperties
<1>5. ASSUME NEW k \in 1..(Len(s) + Len(t))
      PROVE  (Append(s, t[1]) \o Tail(t))[k] = (s \o t)[k]
  BY <1>1, <1>3
<1> QED BY <1>4, <1>5, SeqEqual

\* What a write does to the streams.
LEMMA WriteEffect ==
    ASSUME TypeOK, NEW c \in Clients, NEW x \in Pieces, Write(c, x), got' = got
    PROVE  \A d \in Clients :
              Stream(d)' = IF d = c /\ ~Broken(c) THEN Append(Stream(c), x) ELSE Stream(d)
<1>1. got[c] \in Seq(Pieces) /\ out[c] \in Seq(Pieces) BY DEF TypeOK
<1>2. got[c] \o Append(out[c], x) = Append(got[c] \o out[c], x)
  <2>1. ASSUME NEW s \in Seq(Pieces), NEW t \in Seq(Pieces)
        PROVE  s \o Append(t, x) = Append(s \o t, x)
    BY ConcatAppend
  <2> QED BY <1>1, <2>1
<1> QED BY <1>2 DEF Write, Stream, TypeOK

\* Reading moves a piece from the socket to the client: the stream is the same.
LEMMA ReadEffect ==
    ASSUME TypeOK, NEW c \in Clients, Read(c)
    PROVE  \A d \in Clients : Stream(d)' = Stream(d)
<1>1. got[c] \in Seq(Pieces) /\ out[c] \in Seq(Pieces) /\ out[c] # <<>>
  BY DEF TypeOK, Read
<1>2. Append(got[c], out[c][1]) \o Tail(out[c]) = got[c] \o out[c]
  BY <1>1, ConcatMove
<1> QED BY <1>2 DEF Read, Stream, TypeOK

\* A step that writes nothing keeps the lines whole; a stream may be lost.
LEMMA LinesUnwritten ==
    ASSUME LineInv, MadeOK', Exclusive',
           \A c \in Clients : Owes(c)' <=> Owes(c),
           \A c \in Clients :
              \/ Stream(c)' = Stream(c) /\ (Broken(c) => Broken(c)')
              \/ Stream(c)' = <<>> /\ Broken(c)'
    PROVE  LineInv'
<1>1. MidLine'
  <2> SUFFICES ASSUME NEW c \in Clients, ~Broken(c)'
               PROVE  EndsInEvent(Stream(c)') <=> Owes(c)'
    BY DEF MidLine
  <2>1. Stream(c)' = Stream(c) /\ ~Broken(c) OBVIOUS
  <2> QED BY <2>1 DEF LineInv, MidLine
<1>2. WholeLines'
  <2>1. \A c \in Clients : Lines(Stream(c)) BY DEF LineInv, WholeLines, Lines
  <2>2. Lines(<<>>) BY DEF Lines
  <2>3. \A c \in Clients : Lines(Stream(c)') BY <2>1, <2>2
  <2> QED BY <2>3 DEF WholeLines, Lines
<1> QED BY <1>1, <1>2 DEF LineInv

\* In particular one that moves no forwarder.
LEMMA LinesKept ==
    ASSUME IndInv, LineInv,
           \A j \in Chans : chan'[j].owner = chan[j].owner /\ chan'[j].at = chan[j].at,
           made' = made, replaced' = replaced,
           \A c \in Clients : writeMu'[c] = writeMu[c] \/ writeMu[c] \notin Chans,
           \A c \in Clients :
              \/ Stream(c)' = Stream(c) /\ (Broken(c) => Broken(c)')
              \/ Stream(c)' = <<>> /\ Broken(c)'
    PROVE  LineInv'
<1>1. MadeOK' BY DEF LineInv, MadeOK
<1>2. Exclusive'
  <2>1. \A j \in Chans : Owner(j) \in Clients BY DEF IndInv, TypeOK, Channel, Owner
  <2> QED BY <2>1 DEF LineInv, Exclusive, Owner
<1>3. \A c \in Clients : Owes(c)' <=> Owes(c) BY DEF Owes, Owner, At
<1> QED BY <1>1, <1>2, <1>3, LinesUnwritten

\* A write keeps the lines whole when it is a newline just when one is owed.
LEMMA LinesWritten ==
    ASSUME IndInv, LineInv, MadeOK', Exclusive',
           NEW c \in Clients, NEW x \in Pieces, Write(c, x), got' = got,
           x.kind = "newline" <=> Owes(c), Owes(c)' <=> IsEvent(x),
           \A d \in Clients \ {c} : Owes(d)' <=> Owes(d),
           \A d \in Clients : Broken(d) => Broken(d)'
    PROVE  LineInv'
<1>1. \A d \in Clients :
         Stream(d)' = IF d = c /\ ~Broken(c) THEN Append(Stream(c), x) ELSE Stream(d)
  BY WriteEffect DEF IndInv
<1>2. \A d \in Clients : Stream(d) \in Seq(Pieces) /\ Lines(Stream(d))
  BY ConcatProperties DEF IndInv, TypeOK, Stream, LineInv, WholeLines, Lines
<1>3. ~Broken(c) => /\ Lines(Append(Stream(c), x))
                    /\ EndsInEvent(Append(Stream(c), x)) <=> IsEvent(x)
  BY <1>2, LinesAppend DEF LineInv, MidLine
<1>4. MidLine'
  <2> SUFFICES ASSUME NEW d \in Clients, ~Broken(d)'
               PROVE  EndsInEvent(Stream(d)') <=> Owes(d)'
    BY DEF MidLine
  <2>1. CASE d = c BY <1>1, <1>3, <2>1
  <2>2. CASE d # c BY <1>1, <2>2 DEF LineInv, MidLine
  <2> QED BY <2>1, <2>2
<1>5. WholeLines'
  <2>1. \A d \in Clients : Lines(Stream(d)') BY <1>1, <1>2, <1>3
  <2> QED BY <2>1 DEF WholeLines, Lines
<1> QED BY <1>4, <1>5 DEF LineInv

\* The steps of Publish write nothing to a socket.
LEMMA PublishLines ==
    ASSUME IndInv, LineInv, NEW p \in Publishers,
           (\E t \in Topics : PublishBegin(p, t)) \/ PublishStep(p)
    PROVE  LineInv'
<1>1. UNCHANGED <<made, replaced, writeMu, loop, out, got, gone>>
  BY DEF PublishBegin, PublishStep, PublishSend, PublishEnd, hub, publishing, sockets
<1>2. \A j \in Chans : chan'[j].owner = chan[j].owner /\ chan'[j].at = chan[j].at
  <2>1. ASSUME NEW i \in Chans, PublishSend(p, i)
        PROVE  \A j \in Chans : chan'[j].owner = chan[j].owner /\ chan'[j].at = chan[j].at
    BY <2>1 DEF PublishSend, IndInv, TypeOK, Channel
  <2> QED BY <2>1 DEF PublishBegin, PublishStep, PublishEnd, hub, publishing, sockets
<1>3. \A c \in Clients : Stream(c)' = Stream(c) /\ Broken(c)' = Broken(c)
  BY <1>1 DEF Stream, Broken
<1> QED BY <1>1, <1>2, <1>3, LinesKept

\* What handleSubscribe and UnsubscribeAll do to the channels.
LEMMA SubscribeEffect ==
    ASSUME IndInv, NEW c \in Clients, NEW t \in Topics, Subscribe(c, t)
    PROVE  /\ made + 1 \in Chans
           /\ chan'[made + 1].owner = c /\ chan'[made + 1].topic = t
           /\ chan'[made + 1].at = "recv" /\ chan'[made + 1].buf = <<>>
           /\ \A j \in Chans : j # made + 1 => chan'[j] = chan[j]
<1> DEFINE new == [owner |-> c, topic |-> t, open |-> TRUE, buf |-> <<>>, at |-> "recv",
                   msg |-> NoMsg]
<1>1. made + 1 \in Chans BY ConstantsAssumption DEF Subscribe, IndInv, TypeOK, Chans
<1>2. chan' = [chan EXCEPT ![made + 1] = new] BY DEF Subscribe
<1>3. new.owner = c /\ new.topic = t /\ new.at = "recv" /\ new.buf = <<>> OBVIOUS
<1> HIDE DEF new
<1> QED BY <1>1, <1>2, <1>3 DEF IndInv, TypeOK

\* UnsubscribeAll closes the channels of the session and no other.
LEMMA UnsubscribeEffect ==
    ASSUME IndInv, NEW c \in Clients, UnsubscribeAll(c)
    PROVE  \A j \in Chans : /\ chan'[j].owner = chan[j].owner /\ chan'[j].topic = chan[j].topic
                            /\ chan'[j].at = chan[j].at /\ chan'[j].msg = chan[j].msg
                            /\ chan'[j].buf = chan[j].buf
<1>1. ASSUME NEW r \in Channel
      PROVE  /\ [r EXCEPT !.open = FALSE].owner = r.owner /\ [r EXCEPT !.open = FALSE].topic = r.topic
             /\ [r EXCEPT !.open = FALSE].at = r.at /\ [r EXCEPT !.open = FALSE].msg = r.msg
             /\ [r EXCEPT !.open = FALSE].buf = r.buf
  BY DEF Channel
<1>2. ASSUME NEW j \in Chans
      PROVE  chan[j] \in Channel /\ chan'[j] \in {chan[j], [chan[j] EXCEPT !.open = FALSE]}
  BY DEF UnsubscribeAll, IndInv, TypeOK
<1> QED BY <1>1, <1>2

\* The read loop of a session, and its client: only the answer is a write, and it
\* holds writeMu, so that no forwarder of the session owes a newline.
LEMMA ClientLines ==
    ASSUME IndInv, LineInv, NEW c \in Clients,
           (\E t \in Topics : Subscribe(c, t)) \/ LoopStep(c) \/ Read(c) \/ Stall(c) \/ HangUp(c)
    PROVE  LineInv'
<1> USE ConstantsAssumption DEF hub, publishing, sockets
<1>0. \A j \in Chans : chan[j] \in Channel /\ Owner(j) \in Clients
  BY DEF IndInv, TypeOK, Channel, Owner
<1>1. ASSUME NEW t \in Topics, Subscribe(c, t) PROVE LineInv'
  <2>1. /\ made + 1 \in Chans /\ chan'[made + 1].owner = c /\ chan'[made + 1].at = "recv"
        /\ \A j \in Chans : j # made + 1 => chan'[j] = chan[j]
    BY <1>1, SubscribeEffect
  <2>2. /\ made < MaxChans /\ made' = made + 1 /\ made \in Nat
        /\ replaced' = replaced \cup ({topics[t][c]} \ {NoChan})
        /\ loop[c] = "reading" /\ c \notin gone /\ loop' = [loop EXCEPT ![c] = "reply"]
        /\ UNCHANGED <<writeMu, out, got, gone>>
    BY <1>1 DEF Subscribe, IndInv, TypeOK
  <2>3. chan[made + 1].at = "unmade" BY <2>1, <2>2 DEF Chans, LineInv, MadeOK
  <2>5. MadeOK'
    <3>1. \A j \in Chans : chan'[j].at = "unmade" <=> j > made'
      BY <2>1, <2>2 DEF LineInv, MadeOK, Chans
    <3>2. topics[t][c] # NoChan => topics[t][c] \in 1..made
      BY <2>2 DEF IndInv, HubOpen, TypeOK, Chans, NoChan
    <3>3. 1..made \subseteq 1..made' BY <2>2
    <3>4. replaced \subseteq 1..made BY DEF LineInv, MadeOK
    <3>5. replaced' \subseteq 1..made' BY <2>2, <3>2, <3>3, <3>4
    <3> QED BY <3>1, <3>5 DEF MadeOK
  <2>6. Exclusive' BY <2>1, <2>2 DEF LineInv, Exclusive, Owner
  <2>7. \A d \in Clients : Owes(d)' <=> Owes(d)
    BY <2>1, <2>3 DEF Owes, Owner, At
  <2>8. \A d \in Clients : Stream(d)' = Stream(d) /\ (Broken(d) => Broken(d)')
    BY <2>2 DEF Stream, Broken, IndInv, TypeOK
  <2> QED BY <2>5, <2>6, <2>7, <2>8, LinesUnwritten
<1>2. CASE Reply(c)
  <2>1. /\ writeMu[c] = Loop /\ Write(c, [kind |-> "reply"])
        /\ writeMu' = [writeMu EXCEPT ![c] = Free]
        /\ loop' = [loop EXCEPT ![c] = IF Broken(c) THEN "cleanup" ELSE "reading"]
        /\ loop[c] = "reply"
        /\ UNCHANGED <<chan, made, replaced, got, gone>>
    BY <1>2 DEF Reply
  <2> DEFINE x == [kind |-> "reply"]
  <2>2. x \in Pieces /\ x.kind = "reply" BY DEF Pieces
  <2> HIDE DEF x
  <2>3. \A j \in Chans : chan[j].at \in {"body", "newline"} => Owner(j) # c
    BY <2>1 DEF LineInv, Exclusive, Chans
  <2>4. ~Owes(c) BY <2>3 DEF Owes, At
  <2>5. MadeOK' BY <2>1 DEF LineInv, MadeOK
  <2>6. Exclusive'
    BY <1>0, <2>1, <2>3 DEF LineInv, Exclusive, Owner, IndInv, TypeOK
  <2>7. \A d \in Clients : Owes(d)' <=> Owes(d) BY <2>1 DEF Owes, Owner, At
  <2>8. \A d \in Clients : Broken(d) => Broken(d)'
    BY <2>1 DEF Broken, IndInv, TypeOK
  <2>9. Write(c, x) BY <2>1 DEF x
  <2> QED
    BY <2>1, <2>2, <2>4, <2>5, <2>6, <2>7, <2>8, <2>9, LinesWritten DEF IsEvent
<1>3. CASE ReplyLock(c)
  <2>1. /\ UNCHANGED <<chan, made, replaced, out, got, gone, loop>>
        /\ writeMu[c] = Free /\ writeMu' = [writeMu EXCEPT ![c] = Loop]
    BY <1>3 DEF ReplyLock
  <2>2. \A d \in Clients : writeMu'[d] = writeMu[d] \/ writeMu[d] \notin Chans
    BY <2>1 DEF Chans, IndInv, TypeOK
  <2>3. \A d \in Clients : Stream(d)' = Stream(d) /\ Broken(d)' = Broken(d)
    BY <2>1 DEF Stream, Broken
  <2> QED BY <2>1, <2>2, <2>3, LinesKept
<1>4. CASE Eof(c) \/ CloseConn(c) \/ UnsubscribeAll(c)
  <2>1. UNCHANGED <<made, replaced, writeMu, out, got, gone>>
    BY <1>4 DEF Eof, CloseConn, UnsubscribeAll
  <2>2. \A j \in Chans : chan'[j].owner = chan[j].owner /\ chan'[j].at = chan[j].at
    <3>1. CASE UnsubscribeAll(c) BY <3>1, UnsubscribeEffect
    <3> QED BY <1>4, <3>1 DEF Eof, CloseConn
  <2>3. \A d \in Clients : Broken(d) => Broken(d)'
    BY <1>4 DEF Eof, CloseConn, UnsubscribeAll, Broken, IndInv, TypeOK
  <2>4. \A d \in Clients : Stream(d)' = Stream(d) BY <2>1 DEF Stream
  <2> QED BY <2>1, <2>2, <2>3, <2>4, LinesKept
<1>5. CASE Read(c)
  <2>1. UNCHANGED <<chan, made, replaced, writeMu, gone, loop>> BY <1>5 DEF Read
  <2>2. \A d \in Clients : Stream(d)' = Stream(d) BY <1>5, ReadEffect DEF IndInv
  <2>3. \A d \in Clients : Broken(d)' = Broken(d) BY <2>1 DEF Broken
  <2> QED BY <2>1, <2>2, <2>3, LinesKept
<1>6. CASE Stall(c)
  <2>1. UNCHANGED <<chan, made, replaced, writeMu, gone, loop, out, got>> BY <1>6 DEF Stall
  <2>2. \A d \in Clients : Stream(d)' = Stream(d) /\ Broken(d)' = Broken(d)
    BY <2>1 DEF Stream, Broken
  <2> QED BY <2>1, <2>2, LinesKept
<1>7. CASE HangUp(c)
  <2>1. UNCHANGED <<chan, made, replaced, writeMu, loop>> BY <1>7 DEF HangUp
  <2>2. ASSUME NEW d \in Clients
        PROVE  \/ Stream(d)' = Stream(d) /\ (Broken(d) => Broken(d)')
               \/ Stream(d)' = <<>> /\ Broken(d)'
    <3>1. CASE d = c
      <4>1. out'[d] = <<>> /\ got'[d] = <<>> /\ d \in gone'
        BY <1>7, <3>1 DEF HangUp, IndInv, TypeOK
      <4>2. <<>> \o <<>> = <<>> BY ConcatEmptySeq, EmptySeq
      <4> QED BY <4>1, <4>2 DEF Stream, Broken
    <3>2. CASE d # c
      <4>1. out'[d] = out[d] /\ got'[d] = got[d] /\ (d \in gone => d \in gone')
        BY <1>7, <3>2 DEF HangUp, IndInv, TypeOK
      <4> QED BY <2>1, <4>1 DEF Stream, Broken
    <3> QED BY <3>1, <3>2
  <2> QED BY <2>1, <2>2, LinesKept
<1> QED BY <1>1, <1>2, <1>3, <1>4, <1>5, <1>6, <1>7 DEF LoopStep

\* What a forwarder's steps do to its channel.
LEMMA ForwardEffect ==
    ASSUME IndInv, NEW i \in Chans, ForwardStep(i)
    PROVE  /\ chan'[i].owner = chan[i].owner /\ chan'[i].topic = chan[i].topic
           /\ \A j \in Chans : j # i => chan'[j] = chan[j]
           /\ Receive(i) => \/ /\ chan[i].buf # <<>> /\ chan'[i].at = "lock"
                               /\ chan'[i].msg = chan[i].buf[1] /\ chan'[i].buf = Tail(chan[i].buf)
                            \/ chan'[i].at = "ended" /\ chan'[i].buf = chan[i].buf
           /\ ForwardLock(i) => /\ chan'[i].at = "body"
                                /\ chan'[i].buf = chan[i].buf /\ chan'[i].msg = chan[i].msg
           /\ ForwardBody(i) => chan'[i].at = "newline" /\ chan'[i].buf = chan[i].buf
           /\ ForwardNewline(i) => chan'[i].at = "recv" /\ chan'[i].buf = chan[i].buf
           /\ UNCHANGED <<topics, made, sent, published, todo, loop, got, gone, replaced>>
<1>1. chan \in [Chans -> Channel] /\ chan[i] \in Channel BY DEF IndInv, TypeOK
<1>2. UNCHANGED <<topics, made, sent, published, todo, loop, got, gone, replaced>>
  BY DEF ForwardStep, Receive, ForwardLock, ForwardBody, ForwardNewline, publishing, sockets
<1>3. CASE Receive(i) BY <1>1, <1>2, <1>3 DEF Receive, Channel, At, ForwardLock, ForwardBody,
                         ForwardNewline
<1>4. CASE ForwardLock(i) BY <1>1, <1>2, <1>4 DEF Receive, Channel, At, ForwardLock, ForwardBody,
                             ForwardNewline
<1>5. CASE ForwardBody(i) BY <1>1, <1>2, <1>5 DEF Receive, Channel, At, ForwardLock, ForwardBody,
                             ForwardNewline
<1>6. CASE ForwardNewline(i) BY <1>1, <1>2, <1>6 DEF Receive, Channel, At, ForwardLock,
                                ForwardBody, ForwardNewline
<1> QED BY <1>3, <1>4, <1>5, <1>6 DEF ForwardStep

\* The forwarder of a channel: it writes only with writeMu, first an event and then
\* the newline that is owed.
LEMMA ForwardLines ==
    ASSUME IndInv, LineInv, NEW i \in Chans, ForwardStep(i)
    PROVE  LineInv'
<1> USE ConstantsAssumption
<1>1. PICK c \in Clients : c = Owner(i) BY DEF IndInv, TypeOK, Channel, Owner
<1>2. /\ chan'[i].owner = c
      /\ \A j \in Chans : j # i => chan'[j] = chan[j]
      /\ UNCHANGED <<made, loop, got, gone, replaced>>
      /\ \A j \in Chans : Owner(j) \in Clients /\ chan'[j].owner = chan[j].owner
  BY <1>1, ForwardEffect DEF Owner, IndInv, TypeOK, Channel
<1>3. \A d \in Clients : Broken(d)' = Broken(d) BY <1>2 DEF Broken
<1>4. i <= made
  BY DEF ForwardStep, Receive, ForwardLock, ForwardBody, ForwardNewline, At, LineInv, MadeOK,
     Chans, IndInv, TypeOK
<1>5. MadeOK'
  <2>1. chan'[i].at # "unmade" BY ForwardEffect DEF ForwardStep
  <2>2. ~(i > made) BY <1>4 DEF Chans, IndInv, TypeOK
  <2>3. \A j \in Chans : chan'[j].at = "unmade" <=> j > made
    BY <1>2, <2>1, <2>2 DEF LineInv, MadeOK
  <2> QED BY <1>2, <2>3 DEF LineInv, MadeOK
<1>6. writeMu \in [Clients -> Chans \cup {Free, Loop}] BY DEF IndInv, TypeOK
<1>7. CASE Receive(i)
  <2>1. UNCHANGED <<out, got, writeMu>> BY <1>7 DEF Receive, sockets
  <2>2. chan'[i].at \notin {"body", "newline"} BY <1>7, ForwardEffect
  <2>3. chan[i].at = "recv" BY <1>7 DEF Receive, At
  <2>4. Exclusive' BY <1>2, <2>1, <2>2 DEF LineInv, Exclusive, Owner
  <2>5. \A d \in Clients : Owes(d)' <=> Owes(d) BY <1>2, <2>2, <2>3 DEF Owes, Owner, At
  <2>6. \A d \in Clients : Stream(d)' = Stream(d) BY <2>1 DEF Stream
  <2> QED BY <1>3, <1>5, <2>4, <2>5, <2>6, LinesUnwritten
<1>8. CASE ForwardLock(i)
  <2>1. /\ UNCHANGED <<out, got>> /\ writeMu[c] = Free /\ chan[i].at = "lock"
        /\ writeMu' = [writeMu EXCEPT ![c] = i]
    BY <1>1, <1>8 DEF ForwardLock, sockets, At
  <2>2. chan'[i].at = "body" BY <1>8, ForwardEffect
  <2>3. Exclusive'
    <3> SUFFICES ASSUME NEW j \in Chans, chan'[j].at \in {"body", "newline"}
                 PROVE  writeMu'[chan'[j].owner] = j
      BY DEF Exclusive, Owner
    <3>1. CASE j = i BY <1>2, <1>6, <2>1, <3>1
    <3>2. CASE j # i
      <4>1. writeMu[Owner(j)] = j BY <1>2, <3>2 DEF LineInv, Exclusive
      <4>2. Owner(j) # c BY <2>1, <4>1 DEF Chans
      <4> QED BY <1>2, <1>6, <2>1, <4>1, <4>2 DEF Owner
    <3> QED BY <3>1, <3>2
  <2>4. \A d \in Clients : Owes(d)' <=> Owes(d) BY <1>2, <2>1, <2>2 DEF Owes, Owner, At
  <2>5. \A d \in Clients : Stream(d)' = Stream(d) BY <2>1 DEF Stream
  <2> QED BY <1>3, <1>5, <2>3, <2>4, <2>5, LinesUnwritten
<1>9. ASSUME chan[i].at \in {"body", "newline"}
      PROVE  \A j \in Chans : j # i /\ Owner(j) = c => chan[j].at \notin {"body", "newline"}
  BY <1>1, <1>9 DEF LineInv, Exclusive
<1>10. CASE ForwardBody(i)
  <2> DEFINE x == [kind |-> "event", msg |-> chan[i].msg, topic |-> chan[i].topic]
  <2>1. Write(c, x) /\ chan[i].at = "body" /\ UNCHANGED <<writeMu, got>>
    BY <1>1, <1>10 DEF ForwardBody, At
  <2>2. x \in Pieces /\ x.kind = "event"
    BY <2>1 DEF Pieces, IndInv, InHand, TypeOK, Channel
  <2> HIDE DEF x
  <2>3. chan'[i].at = "newline" BY <1>10, ForwardEffect
  <2>4. Exclusive' BY <1>2, <2>1, <2>3 DEF LineInv, Exclusive, Owner
  <2>5. ~Owes(c) BY <1>1, <1>9, <2>1 DEF Owes, At
  <2>6. Owes(c)' BY <1>2, <2>3 DEF Owes, Owner, At
  <2>7. \A d \in Clients \ {c} : Owes(d)' <=> Owes(d)
    BY <1>1, <1>2 DEF Owes, Owner, At
  <2> QED
    BY <1>3, <1>5, <2>1, <2>2, <2>4, <2>5, <2>6, <2>7, LinesWritten DEF IsEvent
<1>11. CASE ForwardNewline(i)
  <2> DEFINE x == [kind |-> "newline"]
  <2>1. /\ Write(c, x) /\ chan[i].at = "newline" /\ UNCHANGED got
        /\ writeMu' = [writeMu EXCEPT ![c] = Free]
    BY <1>1, <1>11 DEF ForwardNewline, At
  <2>2. x \in Pieces /\ x.kind = "newline" BY DEF Pieces
  <2> HIDE DEF x
  <2>3. chan'[i].at = "recv" BY <1>11, ForwardEffect
  <2>4. Exclusive'
    <3> SUFFICES ASSUME NEW j \in Chans, chan'[j].at \in {"body", "newline"}
                 PROVE  writeMu'[chan'[j].owner] = j
      BY DEF Exclusive, Owner
    <3>1. j # i /\ chan[j].at \in {"body", "newline"} BY <1>2, <2>3
    <3>2. writeMu[Owner(j)] = j /\ Owner(j) # c
      BY <1>9, <2>1, <3>1 DEF LineInv, Exclusive
    <3> QED BY <1>2, <1>6, <2>1, <3>2 DEF Owner
  <2>5. Owes(c) BY <1>1, <2>1 DEF Owes, At
  <2>6. ~Owes(c)'
    <3> SUFFICES ASSUME NEW j \in Chans, chan'[j].owner = c, chan'[j].at = "newline" PROVE FALSE
      BY DEF Owes, Owner, At
    <3> QED BY <1>2, <1>9, <2>1, <2>3 DEF Owner
  <2>7. \A d \in Clients \ {c} : Owes(d)' <=> Owes(d)
    BY <1>1, <1>2 DEF Owes, Owner, At
  <2> QED
    BY <1>3, <1>5, <2>1, <2>2, <2>4, <2>5, <2>6, <2>7, LinesWritten DEF IsEvent
<1> QED BY <1>7, <1>8, <1>10, <1>11 DEF ForwardStep

\* No stream holds a line yet.
LEMMA LineInit == Init => LineInv
<1> SUFFICES ASSUME Init PROVE LineInv OBVIOUS
<1>1. \A i \in Chans : chan[i].at = "unmade" BY DEF Init
<1>2. <<>> \o <<>> = <<>> BY ConcatEmptySeq, EmptySeq
<1>3. \A c \in Clients : Stream(c) = <<>> BY <1>2 DEF Init, Stream
<1>4. MadeOK BY <1>1, ConstantsAssumption DEF Init, MadeOK, Chans
<1>5. Exclusive BY <1>1 DEF Exclusive
<1>6. MidLine BY <1>1, <1>3 DEF MidLine, EndsInEvent, Owes, At
<1>7. WholeLines BY <1>3 DEF WholeLines
<1> QED BY <1>4, <1>5, <1>6, <1>7 DEF LineInv

\* Every step keeps the lines whole.
LEMMA LineNext == IndInv /\ LineInv /\ [Next]_vars => LineInv'
<1> SUFFICES ASSUME IndInv, LineInv, [Next]_vars PROVE LineInv' OBVIOUS
<1>1. CASE Next BY <1>1, PublishLines, ClientLines, ForwardLines DEF Next
<1>2. CASE UNCHANGED vars
  <2>1. UNCHANGED <<chan, made, replaced, writeMu, out, got, gone, stalled, loop>>
    BY <1>2 DEF vars, hub, sockets
  <2>2. \A c \in Clients : Stream(c)' = Stream(c) /\ (Broken(c) => Broken(c)')
    BY <2>1 DEF Stream, Broken
  <2> QED BY <2>1, <2>2, LinesKept
<1> QED BY <1>1, <1>2

\* Every client reads whole lines: for any number of topics, subscriptions,
\* publishers and slow or stalled clients, no answer and no other event comes
\* between an event and its newline.
THEOREM LinesAlwaysWhole == Spec => []WholeLines
<1>1. LineInv => WholeLines BY DEF LineInv
<1> QED BY <1>1, Inductive, LineInit, LineNext, PTL DEF Spec

-----------------------------------------------------------------------------
\* Order.  The events of a topic pass through the one channel that a client has for
\* it, unless it subscribed again: those that were written come before the one in
\* the forwarder's hand, that one before those in the channel, and these before
\* what a Publish under way has still to send.

\* Of one publisher, e is the older event.
Earlier(e, f) == e[1] = f[1] => e[2] < f[2]

EventsIn(s, t) == {s[k].msg : k \in {n \in 1..Len(s) : IsEvent(s[n]) /\ s[n].topic = t}}

\* InOrder, of one stream and topic.
Ordered(s, t) ==
    \A j, k \in 1..Len(s) :
        /\ j < k /\ IsEvent(s[j]) /\ IsEvent(s[k]) /\ s[j].topic = t /\ s[k].topic = t
        => Earlier(s[j].msg, s[k].msg)

\* The events W were written, H are in hand and b waits in the channel; s is the
\* last event of each publisher, and those in P have still to send theirs.
InLine(W, H, b, s, P) ==
    /\ \A e \in W, f \in H : Earlier(e, f)
    /\ \A e \in W \cup H, k \in 1..Len(b) : Earlier(e, b[k])
    /\ \A j, k \in 1..Len(b) : j < k => Earlier(b[j], b[k])
    /\ \A e \in W \cup H \cup {b[k] : k \in 1..Len(b)} :
          e[2] <= s[e[1]] /\ (e[1] \in P => e[2] < s[e[1]])

Written(i) == EventsIn(Stream(Owner(i)), chan[i].topic)
Held(i) == IF chan[i].at \in {"lock", "body"} THEN {chan[i].msg} ELSE {}
Sending(i) == {p \in Publishers : i \in todo[p]}

\* The client subscribed to the topic again.
Excused(c, t) == \E i \in replaced : Owner(i) = c /\ chan[i].topic = t

\* A channel that was made and not replaced is the one that the hub knows, until
\* the session ends; and no two are for the same client and topic.
Current ==
    \A i \in 1..made :
        \/ i \in replaced
        \/ topics[chan[i].topic][Owner(i)] = i
        \/ loop[Owner(i)] \in {"closing", "closed"}

Sole ==
    \A i, j \in 1..made :
        i # j /\ Owner(i) = Owner(j) /\ chan[i].topic = chan[j].topic
        => i \in replaced \/ j \in replaced

\* What a client reads on a topic came through a channel of its own.
Sourced ==
    \A c \in Clients, t \in Topics :
        EventsIn(Stream(c), t) # {} => \E i \in 1..made : Owner(i) = c /\ chan[i].topic = t

SentBound == \A p \in Publishers : sent[p] <= published

Chain ==
    \A i \in 1..made :
        \/ Excused(Owner(i), chan[i].topic)
        \/ InLine(Written(i), Held(i), chan[i].buf, sent, Sending(i))

OrderInv == Current /\ Sole /\ Sourced /\ SentBound /\ Chain /\ InOrder

\* The steps of one event through the line: another Publish begins, it sends, the
\* forwarder receives, it writes; and what is dropped on the way.
LEMMA LineBegins ==
    ASSUME NEW W \in SUBSET Events, NEW H \in SUBSET Events, NEW b \in Seq(Events),
           NEW s \in [Publishers -> 0..MaxEvents], NEW P, InLine(W, H, b, s, P),
           NEW p \in Publishers, NEW n \in 0..MaxEvents, s[p] < n
    PROVE  InLine(W, H, b, [s EXCEPT ![p] = n], P \cup {p})
<1>1. \A e \in W \cup H \cup {b[k] : k \in 1..Len(b)} :
         e[1] \in Publishers /\ e[2] \in Nat
  BY ConstantsAssumption, ElementOfSeq DEF Events
<1>2. \A q \in Publishers : s[q] \in Nat BY ConstantsAssumption
<1>3. \A e \in W \cup H \cup {b[k] : k \in 1..Len(b)} :
         /\ e[2] <= [s EXCEPT ![p] = n][e[1]]
         /\ e[1] \in P \cup {p} => e[2] < [s EXCEPT ![p] = n][e[1]]
  BY <1>1, <1>2, ConstantsAssumption DEF InLine
<1> QED BY <1>3 DEF InLine

\* The publisher's event goes from its hand to the end of the buffer.
LEMMA LineSends ==
    ASSUME NEW W \in SUBSET Events, NEW H \in SUBSET Events, NEW b \in Seq(Events),
           NEW s \in [Publishers -> 0..MaxEvents], NEW P, InLine(W, H, b, s, P),
           NEW p \in Publishers, p \in P, s[p] # 0
    PROVE  InLine(W, H, Append(b, <<p, s[p]>>), s, P \ {p})
<1> DEFINE f == <<p, s[p]>>
           a == Append(b, f)
<1>1. f \in Events BY ConstantsAssumption DEF Events
<1>2. /\ Len(b) \in Nat /\ Len(a) = Len(b) + 1 /\ a[Len(b) + 1] = f
      /\ \A k \in 1..Len(b) : a[k] = b[k]
  BY <1>1, AppendProperties, LenProperties
<1>3. /\ f[1] = p /\ f[2] = s[p] /\ s[p] \in Nat BY ConstantsAssumption
<1> HIDE DEF f, a
<1>4. \A e \in W \cup H \cup {b[k] : k \in 1..Len(b)} : Earlier(e, f)
  BY <1>3 DEF InLine, Earlier
<1>5. \A e \in W \cup H, k \in 1..Len(a) : Earlier(e, a[k])
  <2> SUFFICES ASSUME NEW e \in W \cup H, NEW k \in 1..Len(a) PROVE Earlier(e, a[k]) OBVIOUS
  <2>1. k \in 1..Len(b) \/ k = Len(b) + 1 BY <1>2
  <2> QED BY <1>2, <1>4, <2>1 DEF InLine
<1>6. \A j, k \in 1..Len(a) : j < k => Earlier(a[j], a[k])
  <2> SUFFICES ASSUME NEW j \in 1..Len(a), NEW k \in 1..Len(a), j < k PROVE Earlier(a[j], a[k])
    OBVIOUS
  <2>1. j \in 1..Len(b) /\ (k \in 1..Len(b) \/ k = Len(b) + 1) BY <1>2
  <2> QED BY <1>2, <1>4, <2>1 DEF InLine
<1>7. \A e \in W \cup H \cup {a[k] : k \in 1..Len(a)} :
         e[2] <= s[e[1]] /\ (e[1] \in P \ {p} => e[2] < s[e[1]])
  <2> SUFFICES ASSUME NEW e \in W \cup H \cup {a[k] : k \in 1..Len(a)}
               PROVE  e[2] <= s[e[1]] /\ (e[1] \in P \ {p} => e[2] < s[e[1]])
    OBVIOUS
  <2>1. e \in W \cup H \cup {b[k] : k \in 1..Len(b)} \/ e = f
    <3>1. \A k \in 1..Len(a) : k \in 1..Len(b) \/ k = Len(b) + 1 BY <1>2
    <3> QED BY <1>2, <3>1
  <2>2. CASE e = f BY <1>3, <2>2
  <2>3. CASE e \in W \cup H \cup {b[k] : k \in 1..Len(b)} BY <2>3 DEF InLine
  <2> QED BY <2>1, <2>2, <2>3
<1>8. \A e \in W, g \in H : Earlier(e, g) BY DEF InLine
<1>9. InLine(W, H, a, s, P \ {p}) BY <1>5, <1>6, <1>7, <1>8 DEF InLine
<1> QED BY <1>9 DEF a, f

\* The head of the buffer goes to the forwarder's hand.
LEMMA LineReceives ==
    ASSUME NEW W, NEW b \in Seq(Events), b # <<>>, NEW s, NEW P, InLine(W, {}, b, s, P)
    PROVE  InLine(W, {b[1]}, Tail(b), s, P)
<1>1. /\ Len(b) \in Nat \ {0} /\ Len(Tail(b)) = Len(b) - 1
      /\ \A k \in 1..Len(Tail(b)) : Tail(b)[k] = b[k + 1]
  BY HeadTailProperties, EmptySeq
<1>2. \A k \in 1..Len(Tail(b)) : k + 1 \in 1..Len(b) /\ Tail(b)[k] = b[k + 1] /\ 1 < k + 1
  BY <1>1
<1>3. 1 \in 1..Len(b) BY <1>1
<1>4. \A e \in W, f \in {b[1]} : Earlier(e, f) BY <1>3 DEF InLine
<1>5. \A e \in W \cup {b[1]}, k \in 1..Len(Tail(b)) : Earlier(e, Tail(b)[k])
  BY <1>2, <1>3 DEF InLine
<1>6. \A j, k \in 1..Len(Tail(b)) : j < k => Earlier(Tail(b)[j], Tail(b)[k])
  <2> SUFFICES ASSUME NEW j \in 1..Len(Tail(b)), NEW k \in 1..Len(Tail(b)), j < k
               PROVE  Earlier(Tail(b)[j], Tail(b)[k])
    OBVIOUS
  <2>1. j + 1 < k + 1 OBVIOUS
  <2> QED BY <1>2, <2>1 DEF InLine
<1>7. W \cup {b[1]} \cup {Tail(b)[k] : k \in 1..Len(Tail(b))} \subseteq
         W \cup {} \cup {b[k] : k \in 1..Len(b)}
  BY <1>2, <1>3
<1>8. \A e \in W \cup {b[1]} \cup {Tail(b)[k] : k \in 1..Len(Tail(b))} :
         e[2] <= s[e[1]] /\ (e[1] \in P => e[2] < s[e[1]])
  BY <1>7 DEF InLine
<1> QED BY <1>4, <1>5, <1>6, <1>8 DEF InLine

\* What the forwarder held is written.
LEMMA LineWrites ==
    ASSUME NEW W, NEW m, NEW b, NEW s, NEW P, InLine(W, {m}, b, s, P)
    PROVE  InLine(W \cup {m}, {}, b, s, P)
BY DEF InLine

\* A line from which something is lost is still a line.
LEMMA LineDrops ==
    ASSUME NEW W, NEW H, NEW b, NEW s, NEW P, InLine(W, H, b, s, P),
           NEW W2 \in SUBSET W, NEW H2 \in SUBSET H, NEW P2 \in SUBSET P
    PROVE  InLine(W2, H2, b, s, P2)
BY DEF InLine

\* A piece at the end of a stream.
LEMMA EventsAppend ==
    ASSUME NEW s \in Seq(Pieces), NEW x \in Pieces, NEW t
    PROVE  EventsIn(Append(s, x), t) =
              EventsIn(s, t) \cup (IF IsEvent(x) /\ x.topic = t THEN {x.msg} ELSE {})
<1> DEFINE a == Append(s, x)
<1>1. /\ Len(s) \in Nat /\ Len(a) = Len(s) + 1 /\ a[Len(s) + 1] = x
      /\ \A k \in 1..Len(s) : a[k] = s[k]
  BY AppendProperties, LenProperties
<1> HIDE DEF a
<1>2. \A k : k \in 1..Len(a) <=> k \in 1..Len(s) \/ k = Len(s) + 1 BY <1>1
<1>3. \A e : e \in EventsIn(a, t) <=>
                \E k \in 1..Len(a) : IsEvent(a[k]) /\ a[k].topic = t /\ e = a[k].msg
  BY DEF EventsIn
<1>4. \A e : e \in EventsIn(s, t) <=>
                \E k \in 1..Len(s) : IsEvent(s[k]) /\ s[k].topic = t /\ e = s[k].msg
  BY DEF EventsIn
<1>5. \A e : e \in EventsIn(a, t) <=>
                e \in EventsIn(s, t) \/ (IsEvent(x) /\ x.topic = t /\ e = x.msg)
  BY <1>1, <1>2, <1>3, <1>4
<1>6. EventsIn(a, t) = EventsIn(s, t) \cup (IF IsEvent(x) /\ x.topic = t THEN {x.msg} ELSE {})
  BY <1>5
<1> QED BY <1>6 DEF a

\* A stream stays in order when a later event ends it.
LEMMA OrderedAppend ==
    ASSUME NEW s \in Seq(Pieces), NEW x \in Pieces, NEW t, Ordered(s, t),
           IsEvent(x) /\ x.topic = t => \A e \in EventsIn(s, t) : Earlier(e, x.msg)
    PROVE  Ordered(Append(s, x), t)
<1> DEFINE a == Append(s, x)
<1>1. /\ Len(s) \in Nat /\ Len(a) = Len(s) + 1 /\ a[Len(s) + 1] = x
      /\ \A k \in 1..Len(s) : a[k] = s[k]
  BY AppendProperties, LenProperties
<1> HIDE DEF a
<1>2. ASSUME NEW j \in 1..Len(a), NEW k \in 1..Len(a),
             j < k /\ IsEvent(a[j]) /\ IsEvent(a[k]) /\ a[j].topic = t /\ a[k].topic = t
      PROVE  Earlier(a[j].msg, a[k].msg)
  <2>1. j \in 1..Len(s) /\ a[j] = s[j] BY <1>1, <1>2
  <2>2. CASE k \in 1..Len(s) BY <1>1, <1>2, <2>1, <2>2 DEF Ordered
  <2>3. CASE k = Len(s) + 1
    <3>1. s[j].msg \in EventsIn(s, t) BY <1>2, <2>1 DEF EventsIn
    <3> QED BY <1>1, <1>2, <2>1, <2>3, <3>1
  <2> QED BY <1>1, <2>2, <2>3
<1> QED BY <1>2 DEF Ordered, a

\* InOrder, stream by stream and topic by topic.
StreamsOrdered == \A c \in Clients, t \in Topics : Excused(c, t) \/ Ordered(Stream(c), t)

\* InOrder, stated of one stream at a time.
LEMMA InOrderForm == TypeOK => (InOrder <=> StreamsOrdered)
<1> SUFFICES ASSUME TypeOK PROVE InOrder <=> StreamsOrdered OBVIOUS
<1>1. \A c \in Clients : Stream(c) \in Seq(Pieces)
  BY ConcatProperties DEF TypeOK, Stream
<1>2. \A c \in Clients : \A k \in 1..Len(Stream(c)) :
         IsEvent(Stream(c)[k]) => Stream(c)[k].topic \in Topics
  <2>1. \A x \in Pieces : IsEvent(x) => x.topic \in Topics BY DEF Pieces, IsEvent
  <2>2. \A c \in Clients : \A k \in 1..Len(Stream(c)) : Stream(c)[k] \in Pieces
    BY <1>1, ElementOfSeq
  <2> QED BY <2>1, <2>2
<1>3. ASSUME InOrder, NEW c \in Clients, NEW t \in Topics, ~Excused(c, t)
      PROVE  Ordered(Stream(c), t)
  BY <1>3 DEF InOrder, Ordered, Excused, Earlier
<1>4. ASSUME StreamsOrdered, NEW c \in Clients, NEW j \in 1..Len(Stream(c)),
             NEW k \in 1..Len(Stream(c)),
             /\ j < k /\ IsEvent(Stream(c)[j]) /\ IsEvent(Stream(c)[k])
             /\ Stream(c)[j].topic = Stream(c)[k].topic
             /\ Stream(c)[j].msg[1] = Stream(c)[k].msg[1]
      PROVE  \/ Stream(c)[j].msg[2] < Stream(c)[k].msg[2]
             \/ \E i \in replaced : Owner(i) = c /\ chan[i].topic = Stream(c)[j].topic
  BY <1>2, <1>4 DEF StreamsOrdered, Ordered, Excused, Earlier
<1> QED BY <1>3, <1>4 DEF InOrder, StreamsOrdered

\* The channels keep their clients and their topics, and none is made or replaced.
ChansFixed ==
    /\ made' = made /\ replaced' = replaced
    /\ \A j \in Chans : chan'[j].owner = chan[j].owner /\ chan'[j].topic = chan[j].topic

\* A step in which each stream stays, is lost, or grows by a piece that is not an
\* event or is a later event of one of the client's channels.
LEMMA StreamStep ==
    ASSUME IndInv, IndInv', OrderInv, ChansFixed,
           \A c \in Clients :
              \/ Stream(c)' \in {Stream(c), <<>>}
              \/ \E x \in Pieces :
                    /\ Stream(c)' = Append(Stream(c), x)
                    /\ IsEvent(x) =>
                          /\ \E i \in 1..made : Owner(i) = c /\ chan[i].topic = x.topic
                          /\ \/ Excused(c, x.topic)
                             \/ \A e \in EventsIn(Stream(c), x.topic) : Earlier(e, x.msg)
    PROVE  Sole' /\ Sourced' /\ InOrder'
<1>1. 1..made \subseteq Chans /\ replaced \subseteq Chans
  BY ConstantsAssumption DEF IndInv, TypeOK, Chans
<1>2. \A c \in Clients, t \in Topics : Excused(c, t)' <=> Excused(c, t)
  BY <1>1 DEF Excused, ChansFixed, Owner
<1>3. Sole' BY <1>1 DEF OrderInv, Sole, ChansFixed, Owner
<1>4. \A c \in Clients : Stream(c) \in Seq(Pieces)
  BY ConcatProperties DEF IndInv, TypeOK, Stream
<1>5. \A t \in Topics : EventsIn(<<>>, t) = {} /\ Ordered(<<>>, t)
  BY EmptySeq DEF EventsIn, Ordered
<1>6. ASSUME NEW c \in Clients, NEW t \in Topics
      PROVE  /\ EventsIn(Stream(c)', t) # {} =>
                   \E i \in 1..made' : Owner(i)' = c /\ chan'[i].topic = t
             /\ Excused(c, t)' \/ Ordered(Stream(c)', t)
  <2>1. /\ EventsIn(Stream(c), t) # {} => \E i \in 1..made : Owner(i) = c /\ chan[i].topic = t
        /\ Excused(c, t) \/ Ordered(Stream(c), t)
    BY InOrderForm DEF OrderInv, Sourced, IndInv, StreamsOrdered
  <2>2. (\E i \in 1..made : Owner(i) = c /\ chan[i].topic = t)
            => \E i \in 1..made' : Owner(i)' = c /\ chan'[i].topic = t
    BY <1>1 DEF ChansFixed, Owner
  <2>3. CASE Stream(c)' \in {Stream(c), <<>>} BY <1>2, <1>5, <2>1, <2>2, <2>3
  <2>4. ASSUME NEW x \in Pieces, Stream(c)' = Append(Stream(c), x),
               IsEvent(x) =>
                  /\ \E i \in 1..made : Owner(i) = c /\ chan[i].topic = x.topic
                  /\ \/ Excused(c, x.topic)
                     \/ \A e \in EventsIn(Stream(c), x.topic) : Earlier(e, x.msg)
        PROVE  /\ EventsIn(Stream(c)', t) # {} =>
                     \E i \in 1..made' : Owner(i)' = c /\ chan'[i].topic = t
               /\ Excused(c, t)' \/ Ordered(Stream(c)', t)
    <3>1. EventsIn(Stream(c)', t) =
             EventsIn(Stream(c), t) \cup (IF IsEvent(x) /\ x.topic = t THEN {x.msg} ELSE {})
      BY <1>4, <2>4, EventsAppend
    <3>2. EventsIn(Stream(c)', t) # {} => \E i \in 1..made' : Owner(i)' = c /\ chan'[i].topic = t
      BY <2>1, <2>2, <2>4, <3>1
    <3>3. Excused(c, t) \/ Ordered(Append(Stream(c), x), t)
      BY <1>4, <2>1, <2>4, OrderedAppend
    <3> QED BY <1>2, <2>4, <3>2, <3>3
  <2> QED BY <2>3, <2>4
<1>7. Sourced' BY <1>6 DEF Sourced
<1>8. StreamsOrdered' BY <1>6 DEF StreamsOrdered
<1>9. InOrder' BY <1>8, InOrderForm, PTL DEF IndInv
<1> QED BY <1>3, <1>7, <1>9

\* The chain of one channel, whose stream, hand, channel or publishers change.
LineOf(i) == InLine(Written(i), Held(i), chan[i].buf, sent, Sending(i))

\* A step that keeps each channel in line keeps them all.
LEMMA ChainStep ==
    ASSUME IndInv, OrderInv, ChansFixed,
           \A i \in 1..made : LineOf(i) => Excused(Owner(i), chan[i].topic) \/ LineOf(i)'
    PROVE  Chain'
<1>1. 1..made \subseteq Chans /\ replaced \subseteq Chans
  BY ConstantsAssumption DEF IndInv, TypeOK, Chans
<1> SUFFICES ASSUME NEW i \in 1..made
             PROVE  Excused(Owner(i), chan[i].topic)' \/ LineOf(i)'
  BY DEF ChansFixed, Chain, LineOf
<1>2. Excused(Owner(i), chan[i].topic) => Excused(Owner(i), chan[i].topic)'
  BY <1>1 DEF Excused, ChansFixed, Owner
<1> QED BY <1>2 DEF OrderInv, Chain, LineOf

\* The parts of a line have their types.
LEMMA LineTypes ==
    ASSUME IndInv, NEW i \in Chans
    PROVE  /\ Written(i) \in SUBSET Events /\ Held(i) \in SUBSET Events
           /\ chan[i].buf \in Seq(Events) /\ sent \in [Publishers -> 0..MaxEvents]
<1>1. Stream(Owner(i)) \in Seq(Pieces)
  <2>1. Owner(i) \in Clients BY DEF IndInv, TypeOK, Channel, Owner
  <2> QED BY <2>1, ConcatProperties DEF IndInv, TypeOK, Stream
<1>2. \A x \in Pieces : IsEvent(x) => x.msg \in Events BY DEF Pieces, IsEvent
<1>3. Written(i) \in SUBSET Events BY <1>1, <1>2, ElementOfSeq DEF Written, EventsIn
<1>4. Held(i) \in SUBSET Events BY DEF Held, IndInv, InHand
<1> QED BY <1>3, <1>4 DEF IndInv, TypeOK, Channel

\* The events of a channel that were written, after a step.
LEMMA WrittenNext ==
    ASSUME IndInv, NEW i \in Chans, NEW c \in Clients, c = Owner(i),
           chan'[i].owner = chan[i].owner, chan'[i].topic = chan[i].topic
    PROVE  /\ Written(i)' = EventsIn(Stream(c)', chan[i].topic)
           /\ Written(i) = EventsIn(Stream(c), chan[i].topic)
BY DEF Written, Owner, Stream

\* A step that leaves a channel and its forwarder alone, and loses at most the
\* stream, keeps its line.
LEMMA LineKept ==
    ASSUME IndInv, NEW i \in Chans,
           chan'[i].owner = chan[i].owner, chan'[i].topic = chan[i].topic,
           chan'[i].at = chan[i].at, chan'[i].msg = chan[i].msg, chan'[i].buf = chan[i].buf,
           sent' = sent, \A p \in Publishers : i \in todo'[p] => i \in todo[p],
           \A c \in Clients : c = Owner(i) => Stream(c)' \in {Stream(c), <<>>},
           LineOf(i)
    PROVE  LineOf(i)'
<1>1. PICK c \in Clients : c = Owner(i) BY DEF IndInv, TypeOK, Channel, Owner
<1>2. EventsIn(<<>>, chan[i].topic) = {} BY EmptySeq DEF EventsIn
<1>3. Written(i)' \in SUBSET Written(i) BY <1>1, <1>2, WrittenNext
<1>4. Held(i)' \in SUBSET Held(i) BY DEF Held
<1>5. Sending(i)' \in SUBSET Sending(i) BY DEF Sending
<1>6. InLine(Written(i)', Held(i)', chan[i].buf, sent, Sending(i)')
  BY <1>3, <1>4, <1>5, LineDrops DEF LineOf
<1> QED BY <1>6 DEF LineOf

\* A step that leaves every channel and every forwarder alone keeps the order.
LEMMA OrderKept ==
    ASSUME IndInv, IndInv', OrderInv, ChansFixed, Current',
           \A j \in Chans : /\ chan'[j].at = chan[j].at /\ chan'[j].msg = chan[j].msg
                            /\ chan'[j].buf = chan[j].buf,
           UNCHANGED <<sent, published, todo>>,
           \A c \in Clients : Stream(c)' \in {Stream(c), <<>>}
    PROVE  OrderInv'
<1>1. Sole' /\ Sourced' /\ InOrder' BY StreamStep
<1>2. SentBound' BY DEF OrderInv, SentBound
<1>3. 1..made \subseteq Chans BY ConstantsAssumption DEF IndInv, TypeOK, Chans
<1>4. \A i \in 1..made : LineOf(i) => LineOf(i)' BY <1>3, LineKept DEF ChansFixed
<1>5. Chain' BY <1>4, ChainStep
<1> QED BY <1>1, <1>2, <1>5 DEF OrderInv

\* The steps of Publish: a publisher begins only after its last event was sent, and
\* its number is higher than all before.
LEMMA PublishOrder ==
    ASSUME IndInv, IndInv', OrderInv, NEW p \in Publishers,
           (\E t \in Topics : PublishBegin(p, t)) \/ PublishStep(p)
    PROVE  OrderInv'
<1> USE DEF hub, publishing, sockets
<1>1. 1..made \subseteq Chans BY ConstantsAssumption DEF IndInv, TypeOK, Chans
<1>2. UNCHANGED <<topics, made, replaced, loop, out, got>>
  BY DEF PublishBegin, PublishStep, PublishSend, PublishEnd
<1>3. \A c \in Clients : Stream(c)' = Stream(c) BY <1>2 DEF Stream
<1>4. \A j \in Chans : /\ chan'[j].owner = chan[j].owner /\ chan'[j].topic = chan[j].topic
                       /\ chan'[j].at = chan[j].at /\ chan'[j].msg = chan[j].msg
  <2>1. ASSUME NEW i \in Chans, PublishSend(p, i)
        PROVE  \A j \in Chans : /\ chan'[j].owner = chan[j].owner /\ chan'[j].topic = chan[j].topic
                                /\ chan'[j].at = chan[j].at /\ chan'[j].msg = chan[j].msg
    BY <2>1 DEF PublishSend, IndInv, TypeOK, Channel
  <2> QED BY <2>1 DEF PublishBegin, PublishStep, PublishEnd
<1>5. ChansFixed BY <1>2, <1>4 DEF ChansFixed
<1>6. Current' BY <1>1, <1>2, <1>4 DEF OrderInv, Current, Owner
<1>7. Sole' /\ Sourced' /\ InOrder' BY <1>3, <1>5, StreamStep
<1>8. ASSUME NEW i \in 1..made
      PROVE  Written(i)' = Written(i) /\ Held(i)' = Held(i)
  <2>1. PICK c \in Clients : c = Owner(i) BY <1>1 DEF IndInv, TypeOK, Channel, Owner
  <2> QED BY <1>1, <1>3, <1>4, <2>1, WrittenNext DEF Held
<1>9. ASSUME NEW t \in Topics, PublishBegin(p, t) PROVE OrderInv'
  <2>1. /\ sent' = [sent EXCEPT ![p] = published + 1] /\ published' = published + 1
        /\ chan' = chan /\ \A q \in Publishers : q # p => todo'[q] = todo[q]
        /\ published < MaxEvents
    BY <1>9 DEF PublishBegin, IndInv, TypeOK
  <2>2. published + 1 \in 0..MaxEvents /\ sent[p] < published + 1
    BY <2>1, ConstantsAssumption DEF OrderInv, SentBound, IndInv, TypeOK
  <2>3. SentBound' BY <2>1 DEF OrderInv, SentBound, IndInv, TypeOK
  <2>4. ASSUME NEW i \in 1..made, LineOf(i) PROVE LineOf(i)'
    <3>1. InLine(Written(i), Held(i), chan[i].buf, sent', Sending(i) \cup {p})
      BY <1>1, <2>1, <2>2, <2>4, LineTypes, LineBegins DEF LineOf
    <3>2. Sending(i)' \in SUBSET (Sending(i) \cup {p}) BY <2>1 DEF Sending
    <3>3. InLine(Written(i), Held(i), chan[i].buf, sent', Sending(i)')
      BY <3>1, <3>2, LineDrops
    <3> QED BY <1>8, <2>1, <3>3 DEF LineOf
  <2>5. Chain' BY <1>5, <2>4, ChainStep
  <2> QED BY <1>6, <1>7, <2>3, <2>5 DEF OrderInv
<1>10. ASSUME NEW n \in Chans, PublishSend(p, n) PROVE OrderInv'
  <2>1. /\ n \in todo[p] /\ todo' = [todo EXCEPT ![p] = @ \ {n}]
        /\ UNCHANGED <<sent, published>>
        /\ chan' = [chan EXCEPT ![n].buf = IF Len(@) < Cap THEN Append(@, <<p, sent[p]>>) ELSE @]
    BY <1>10 DEF PublishSend
  <2>2. SentBound' BY <2>1 DEF OrderInv, SentBound
  <2>3. \A j \in Chans : j # n => chan'[j] = chan[j] BY <2>1 DEF IndInv, TypeOK
  <2>4. chan'[n].buf = IF Len(chan[n].buf) < Cap THEN Append(chan[n].buf, <<p, sent[p]>>)
                       ELSE chan[n].buf
    BY <2>1 DEF IndInv, TypeOK, Channel
  <2>5. \A i \in Chans : Sending(i)' = IF i = n THEN Sending(i) \ {p} ELSE Sending(i)
    BY <2>1 DEF Sending, IndInv, TypeOK
  <2>6. p \in Sending(n) /\ sent[p] # 0
    BY <2>1, ConstantsAssumption DEF Sending, IndInv, PublishHolds
  <2>7. ASSUME NEW i \in 1..made, LineOf(i) PROVE LineOf(i)'
    <3>1. CASE i # n BY <1>1, <1>8, <2>1, <2>3, <2>5, <2>7, <3>1 DEF LineOf
    <3>2. CASE i = n /\ Len(chan[n].buf) < Cap
      <4>1. InLine(Written(i), Held(i), Append(chan[i].buf, <<p, sent[p]>>), sent,
                   Sending(i) \ {p})
        BY <1>1, <2>6, <2>7, <3>2, LineTypes, LineSends DEF LineOf
      <4> QED BY <1>1, <1>8, <2>1, <2>4, <2>5, <3>2, <4>1 DEF LineOf
    <3>3. CASE i = n /\ ~(Len(chan[n].buf) < Cap)
      <4>1. InLine(Written(i), Held(i), chan[i].buf, sent, Sending(i) \ {p})
        BY <2>7, LineDrops DEF LineOf
      <4> QED BY <1>1, <1>8, <2>1, <2>4, <2>5, <3>3, <4>1 DEF LineOf
    <3> QED BY <3>1, <3>2, <3>3
  <2>8. Chain' BY <1>5, <2>7, ChainStep
  <2> QED BY <1>6, <1>7, <2>2, <2>8 DEF OrderInv
<1>11. CASE PublishEnd(p)
  BY <1>3, <1>5, <1>6, <1>11, OrderKept DEF PublishEnd
<1> QED BY <1>9, <1>10, <1>11 DEF PublishStep

\* A piece that is not an event leaves the events that were written as they are.
LEMMA EventsUnwritten ==
    ASSUME IndInv, NEW x \in Pieces, ~IsEvent(x), NEW i \in Chans,
           chan'[i].owner = chan[i].owner, chan'[i].topic = chan[i].topic,
           \A d \in Clients : Stream(d)' \in {Stream(d), Append(Stream(d), x)}
    PROVE  Written(i)' = Written(i)
<1>1. PICK c \in Clients : c = Owner(i) BY DEF IndInv, TypeOK, Channel, Owner
<1>2. Stream(c) \in Seq(Pieces) BY ConcatProperties DEF IndInv, TypeOK, Stream
<1>3. EventsIn(Append(Stream(c), x), chan[i].topic) = EventsIn(Stream(c), chan[i].topic)
  <2>1. ASSUME NEW s \in Seq(Pieces), NEW t PROVE EventsIn(Append(s, x), t) = EventsIn(s, t)
    <3>1. EventsIn(Append(s, x), t) =
             EventsIn(s, t) \cup (IF IsEvent(x) /\ x.topic = t THEN {x.msg} ELSE {})
      BY EventsAppend
    <3> QED BY <3>1
  <2> QED BY <1>2, <2>1
<1> QED BY <1>1, <1>3, WrittenNext

\* A subscription: the first one of a client to a topic starts a line in which
\* nothing was written, and any other excuses the topic.
LEMMA SubscribeOrder ==
    ASSUME IndInv, IndInv', MadeOK, OrderInv, NEW c \in Clients, NEW t \in Topics,
           Subscribe(c, t)
    PROVE  OrderInv'
<1> DEFINE n == made + 1
<1>1. /\ n \in Chans /\ chan'[n].owner = c /\ chan'[n].topic = t
      /\ chan'[n].at = "recv" /\ chan'[n].buf = <<>>
      /\ \A j \in Chans : j # n => chan'[j] = chan[j]
  BY SubscribeEffect
<1>2. /\ made' = n /\ made \in Nat /\ loop[c] = "reading"
      /\ topics' = [topics EXCEPT ![t][c] = n]
      /\ replaced' = replaced \cup ({topics[t][c]} \ {NoChan})
      /\ loop' = [loop EXCEPT ![c] = "reply"]
      /\ UNCHANGED <<sent, published, todo, out, got>>
  BY DEF Subscribe, IndInv, TypeOK, publishing, sockets
<1>3. /\ 1..made \subseteq Chans /\ n \notin 1..made /\ 1..made' = (1..made) \cup {n}
      /\ replaced \subseteq 1..made /\ replaced \subseteq Chans
  BY <1>1, <1>2, ConstantsAssumption DEF MadeOK, Chans
<1> HIDE DEF n
<1>4. \A j \in 1..made : chan'[j] = chan[j] /\ Owner(j) \in Clients /\ chan[j].topic \in Topics
  BY <1>1, <1>3 DEF IndInv, TypeOK, Channel, Owner
<1>5. \A d \in Clients : Stream(d)' = Stream(d) BY <1>2 DEF Stream
<1>6. \A d \in Clients, u \in Topics : Excused(d, u) => Excused(d, u)'
  BY <1>2, <1>3, <1>4 DEF Excused, Owner
<1>7. \A j \in 1..made : Owner(j) = c /\ chan[j].topic = t => j \in replaced'
  <2> SUFFICES ASSUME NEW j \in 1..made, Owner(j) = c, chan[j].topic = t PROVE j \in replaced'
    OBVIOUS
  <2>1. j \in replaced \/ topics[t][c] = j BY <1>2 DEF OrderInv, Current
  <2>2. j # NoChan BY <1>2 DEF NoChan
  <2> QED BY <1>2, <2>1, <2>2
<1>8. Current'
  <2> SUFFICES ASSUME NEW j \in 1..made'
               PROVE  \/ j \in replaced'
                      \/ topics'[chan'[j].topic][chan'[j].owner] = j
                      \/ loop'[chan'[j].owner] \in {"closing", "closed"}
    BY DEF Current, Owner
  <2>1. CASE j = n BY <1>1, <1>2, <2>1 DEF IndInv, TypeOK
  <2>2. CASE j \in 1..made
    <3>1. CASE Owner(j) = c /\ chan[j].topic = t BY <1>7, <2>2, <3>1
    <3>2. CASE ~(Owner(j) = c /\ chan[j].topic = t)
      <4>1. topics'[chan[j].topic][Owner(j)] = topics[chan[j].topic][Owner(j)]
        BY <1>2, <1>4, <2>2, <3>2 DEF IndInv, TypeOK
      <4>2. loop[Owner(j)] \in {"closing", "closed"} => loop'[Owner(j)] = loop[Owner(j)]
        BY <1>2, <1>4, <2>2 DEF IndInv, TypeOK
      <4> QED BY <1>2, <1>4, <2>2, <4>1, <4>2 DEF OrderInv, Current, Owner
    <3> QED BY <3>1, <3>2
  <2> QED BY <1>3, <2>1, <2>2
<1>9. Sole'
  <2> SUFFICES ASSUME NEW i \in 1..made', NEW j \in 1..made', i # j,
                      chan'[i].owner = chan'[j].owner, chan'[i].topic = chan'[j].topic
               PROVE  i \in replaced' \/ j \in replaced'
    BY DEF Sole, Owner
  <2>1. CASE i \in 1..made /\ j \in 1..made
    BY <1>2, <1>4, <2>1 DEF OrderInv, Sole, Owner
  <2>2. CASE i = n /\ j \in 1..made BY <1>1, <1>4, <1>7, <2>2 DEF Owner
  <2>3. CASE j = n /\ i \in 1..made BY <1>1, <1>4, <1>7, <2>3 DEF Owner
  <2> QED BY <1>3, <2>1, <2>2, <2>3
<1>10. Sourced'
  <2> SUFFICES ASSUME NEW d \in Clients, NEW u \in Topics, EventsIn(Stream(d)', u) # {}
               PROVE  \E i \in 1..made' : chan'[i].owner = d /\ chan'[i].topic = u
    BY DEF Sourced, Owner
  <2>1. PICK i \in 1..made : Owner(i) = d /\ chan[i].topic = u
    BY <1>5 DEF OrderInv, Sourced
  <2> QED BY <1>3, <1>4, <2>1 DEF Owner
<1>11. SentBound' BY <1>2 DEF OrderInv, SentBound
<1>12. InOrder'
  <2>1. StreamsOrdered BY InOrderForm DEF OrderInv, IndInv
  <2>2. StreamsOrdered' BY <1>5, <1>6, <2>1 DEF StreamsOrdered
  <2> QED BY <2>2, InOrderForm, PTL DEF IndInv
<1>13. Chain'
  <2> SUFFICES ASSUME NEW i \in 1..made'
               PROVE  Excused(Owner(i), chan[i].topic)' \/ LineOf(i)'
    BY DEF Chain, LineOf
  <2>1. CASE i \in 1..made
    <3>1. Excused(Owner(i), chan[i].topic) => Excused(Owner(i), chan[i].topic)'
      BY <1>2, <1>3, <1>4, <2>1 DEF Excused, Owner
    <3>2. LineOf(i) => LineOf(i)' BY <1>2, <1>3, <1>4, <1>5, <2>1, LineKept
    <3> QED BY <2>1, <3>1, <3>2 DEF OrderInv, Chain, LineOf
  <2>2. CASE i = n
    <3>1. CASE \E j \in 1..made : Owner(j) = c /\ chan[j].topic = t
      <4>1. PICK j \in 1..made : Owner(j) = c /\ chan[j].topic = t BY <3>1
      <4>2. j \in replaced' /\ chan'[j] = chan[j] BY <1>4, <1>7, <4>1
      <4> QED BY <1>1, <2>2, <4>1, <4>2 DEF Excused, Owner
    <3>2. CASE ~\E j \in 1..made : Owner(j) = c /\ chan[j].topic = t
      <4>1. EventsIn(Stream(c)', t) = {} BY <1>5, <3>2 DEF OrderInv, Sourced
      <4>2. Written(i)' = {}
        <5>1. Written(i)' = EventsIn(Stream(c)', t)
          BY <1>1, <2>2 DEF Written, Owner, Stream
        <5> QED BY <4>1, <5>1
      <4>3. Held(i)' = {} BY <1>1, <2>2 DEF Held
      <4>4. chan'[i].buf = <<>> /\ Len(<<>>) = 0 BY <1>1, <2>2, EmptySeq
      <4> QED BY <4>2, <4>3, <4>4 DEF LineOf, InLine
    <3> QED BY <3>1, <3>2
  <2> QED BY <1>3, <2>1, <2>2
<1> QED BY <1>8, <1>9, <1>10, <1>11, <1>12, <1>13 DEF OrderInv

\* The read loop of a session, and its client.
LEMMA ClientOrder ==
    ASSUME IndInv, IndInv', MadeOK, OrderInv, NEW c \in Clients,
           (\E t \in Topics : Subscribe(c, t)) \/ LoopStep(c) \/ Read(c) \/ Stall(c) \/ HangUp(c)
    PROVE  OrderInv'
<1> USE DEF hub, publishing, sockets
<1>1. 1..made \subseteq Chans BY ConstantsAssumption DEF IndInv, TypeOK, Chans
<1>2. \A j \in Chans : Owner(j) \in Clients /\ chan[j].topic \in Topics
  BY DEF IndInv, TypeOK, Channel, Owner
<1>3. CASE Reply(c)
  <2>1. /\ Write(c, [kind |-> "reply"]) /\ loop[c] = "reply"
        /\ loop' = [loop EXCEPT ![c] = IF Broken(c) THEN "cleanup" ELSE "reading"]
        /\ UNCHANGED <<topics, chan, made, replaced, sent, published, todo, got>>
    BY <1>3 DEF Reply
  <2> DEFINE x == [kind |-> "reply"]
  <2>2. x \in Pieces /\ ~IsEvent(x) BY DEF Pieces, IsEvent
  <2>3. Write(c, x) BY <2>1
  <2> HIDE DEF x
  <2>4. \A d \in Clients : Stream(d)' \in {Stream(d), Append(Stream(d), x)}
    BY <2>1, <2>2, <2>3, WriteEffect DEF IndInv
  <2>5. ChansFixed BY <2>1 DEF ChansFixed
  <2>6. Sole' /\ Sourced' /\ InOrder' BY <2>2, <2>4, <2>5, StreamStep
  <2>7. Current' BY <1>1, <1>2, <2>1 DEF OrderInv, Current, Owner, IndInv, TypeOK
  <2>8. SentBound' BY <2>1 DEF OrderInv, SentBound
  <2>9. ASSUME NEW i \in 1..made, LineOf(i) PROVE LineOf(i)'
    <3>1. Written(i)' = Written(i) BY <1>1, <2>1, <2>2, <2>4, EventsUnwritten
    <3> QED BY <2>1, <2>9, <3>1 DEF LineOf, Held, Sending
  <2>10. Chain' BY <2>5, <2>9, ChainStep
  <2> QED BY <2>6, <2>7, <2>8, <2>10 DEF OrderInv
<1>4. CASE ReplyLock(c) \/ Stall(c)
  <2>1. UNCHANGED <<topics, chan, made, replaced, sent, published, todo, loop, out, got>>
    BY <1>4 DEF ReplyLock, Stall
  <2>2. ChansFixed /\ Current' BY <2>1 DEF ChansFixed, OrderInv, Current, Owner
  <2>3. \A d \in Clients : Stream(d)' = Stream(d) BY <2>1 DEF Stream
  <2> QED BY <2>1, <2>2, <2>3, OrderKept
<1>5. CASE Eof(c) \/ CloseConn(c)
  <2>1. UNCHANGED <<topics, chan, made, replaced, sent, published, todo, out, got>>
    BY <1>5 DEF Eof, CloseConn
  <2>2. \A d \in Clients : loop[d] \in {"closing", "closed"} => loop'[d] \in {"closing", "closed"}
    BY <1>5 DEF Eof, CloseConn, IndInv, TypeOK
  <2>3. ChansFixed BY <2>1 DEF ChansFixed
  <2>4. Current' BY <1>1, <1>2, <2>1, <2>2 DEF OrderInv, Current, Owner
  <2>5. \A d \in Clients : Stream(d)' = Stream(d) BY <2>1 DEF Stream
  <2> QED BY <2>1, <2>3, <2>4, <2>5, OrderKept
<1>6. CASE UnsubscribeAll(c)
  <2>1. /\ UNCHANGED <<made, replaced, sent, published, todo, out, got>>
        /\ topics' = [t \in Topics |-> [topics[t] EXCEPT ![c] = NoChan]]
        /\ loop' = [loop EXCEPT ![c] = "closing"]
    BY <1>6 DEF UnsubscribeAll
  <2>2. \A j \in Chans : /\ chan'[j].owner = chan[j].owner /\ chan'[j].topic = chan[j].topic
                         /\ chan'[j].at = chan[j].at /\ chan'[j].msg = chan[j].msg
                         /\ chan'[j].buf = chan[j].buf
    BY <1>6, UnsubscribeEffect
  <2>3. ChansFixed BY <2>1, <2>2 DEF ChansFixed
  <2>4. ASSUME NEW j \in 1..made
        PROVE  \/ j \in replaced'
               \/ topics'[chan'[j].topic][chan'[j].owner] = j
               \/ loop'[chan'[j].owner] \in {"closing", "closed"}
    <3>1. CASE Owner(j) = c BY <1>1, <1>2, <2>1, <2>2, <3>1 DEF Owner, IndInv, TypeOK
    <3>2. CASE Owner(j) # c
      <4>1. /\ topics'[chan[j].topic][Owner(j)] = topics[chan[j].topic][Owner(j)]
            /\ loop'[Owner(j)] = loop[Owner(j)]
        BY <1>1, <1>2, <2>1, <3>2 DEF IndInv, TypeOK
      <4> QED BY <1>1, <2>1, <2>2, <4>1 DEF OrderInv, Current, Owner
    <3> QED BY <3>1, <3>2
  <2>5. Current' BY <2>1, <2>4 DEF Current, Owner
  <2>6. \A d \in Clients : Stream(d)' = Stream(d) BY <2>1 DEF Stream
  <2> QED BY <2>1, <2>2, <2>3, <2>5, <2>6, OrderKept
<1>7. CASE Read(c) \/ HangUp(c)
  <2>1. UNCHANGED <<topics, chan, made, replaced, sent, published, todo, loop>>
    BY <1>7 DEF Read, HangUp
  <2>2. ChansFixed /\ Current' BY <2>1 DEF ChansFixed, OrderInv, Current, Owner
  <2>3. \A d \in Clients : Stream(d)' \in {Stream(d), <<>>}
    <3>1. CASE Read(c) BY <3>1, ReadEffect DEF IndInv
    <3>2. CASE HangUp(c)
      <4>1. <<>> \o <<>> = <<>> BY ConcatEmptySeq, EmptySeq
      <4> QED BY <3>2, <4>1 DEF HangUp, Stream, IndInv, TypeOK
    <3> QED BY <1>7, <3>1, <3>2
  <2> QED BY <2>1, <2>2, <2>3, OrderKept
<1> QED BY <1>3, <1>4, <1>5, <1>6, <1>7, SubscribeOrder DEF LoopStep

\* The forwarder of a channel: it writes the event in hand, which is later than those
\* that were written, before it receives the next.
LEMMA ForwardOrder ==
    ASSUME IndInv, IndInv', MadeOK, OrderInv, NEW i \in Chans, ForwardStep(i)
    PROVE  OrderInv'
<1>1. 1..made \subseteq Chans BY ConstantsAssumption DEF IndInv, TypeOK, Chans
<1>2. PICK c \in Clients : c = Owner(i) BY DEF IndInv, TypeOK, Channel, Owner
<1>3. i \in 1..made
  <2>1. chan[i].at # "unmade"
    BY DEF ForwardStep, Receive, ForwardLock, ForwardBody, ForwardNewline, At
  <2>2. i \in Nat \ {0} /\ made \in Nat BY ConstantsAssumption DEF Chans, IndInv, TypeOK
  <2>3. ~(i > made) BY <2>1 DEF MadeOK
  <2> QED BY <2>2, <2>3
<1>4. /\ chan'[i].owner = chan[i].owner /\ chan'[i].topic = chan[i].topic
      /\ \A j \in Chans : j # i => chan'[j] = chan[j]
      /\ UNCHANGED <<topics, made, sent, published, todo, loop, got, replaced>>
  BY ForwardEffect
<1>5. ChansFixed BY <1>4 DEF ChansFixed
<1>6. Current' BY <1>1, <1>4 DEF OrderInv, Current, Owner
<1>7. SentBound' BY <1>4 DEF OrderInv, SentBound
<1>8. \A j \in Chans : Sending(j)' = Sending(j) BY <1>4 DEF Sending
<1>9. CASE Receive(i) \/ ForwardLock(i)
  <2>1. \A d \in Clients : Stream(d)' = Stream(d)
    BY <1>9 DEF Receive, ForwardLock, sockets, Stream
  <2>2. Sole' /\ Sourced' /\ InOrder' BY <1>5, <2>1, StreamStep
  <2>3. Written(i)' = Written(i) BY <1>2, <1>4, <2>1, WrittenNext
  <2>4. LineOf(i) => LineOf(i)'
    <3> SUFFICES ASSUME LineOf(i) PROVE LineOf(i)' OBVIOUS
    <3>1. CASE Receive(i) /\ chan'[i].at = "lock"
      <4>1. /\ chan[i].buf # <<>> /\ chan'[i].msg = chan[i].buf[1]
            /\ chan'[i].buf = Tail(chan[i].buf) /\ chan[i].at = "recv"
        BY <3>1, ForwardEffect DEF Receive, At
      <4>2. Held(i) = {} /\ Held(i)' = {chan[i].buf[1]} BY <3>1, <4>1 DEF Held
      <4>3. InLine(Written(i), {chan[i].buf[1]}, Tail(chan[i].buf), sent, Sending(i))
        BY <4>1, <4>2, LineTypes, LineReceives DEF LineOf
      <4> QED BY <1>4, <1>8, <2>3, <4>1, <4>2, <4>3 DEF LineOf
    <3>2. CASE Receive(i) /\ chan'[i].at # "lock"
      <4>1. chan'[i].at = "ended" /\ chan'[i].buf = chan[i].buf BY <3>2, ForwardEffect
      <4>2. Held(i)' \in SUBSET Held(i) BY <4>1 DEF Held
      <4>3. InLine(Written(i), Held(i)', chan[i].buf, sent, Sending(i))
        BY <4>2, LineDrops DEF LineOf
      <4> QED BY <1>4, <1>8, <2>3, <4>1, <4>3 DEF LineOf
    <3>3. CASE ForwardLock(i)
      <4>1. /\ chan'[i].at = "body" /\ chan'[i].buf = chan[i].buf /\ chan'[i].msg = chan[i].msg
            /\ chan[i].at = "lock"
        BY <3>3, ForwardEffect DEF ForwardLock, At
      <4>2. Held(i)' = Held(i) BY <4>1 DEF Held
      <4> QED BY <1>4, <1>8, <2>3, <4>1, <4>2 DEF LineOf
    <3> QED BY <1>9, <3>1, <3>2, <3>3
  <2>5. ASSUME NEW j \in 1..made, j # i, LineOf(j) PROVE LineOf(j)'
    BY <1>1, <1>4, <2>1, <2>5, LineKept
  <2>6. Chain' BY <1>5, <2>4, <2>5, ChainStep
  <2> QED BY <1>6, <1>7, <2>2, <2>6 DEF OrderInv
<1>10. CASE ForwardNewline(i)
  <2> DEFINE x == [kind |-> "newline"]
  <2>1. x \in Pieces /\ ~IsEvent(x) BY DEF Pieces, IsEvent
  <2>2. Write(c, x) BY <1>2, <1>10 DEF ForwardNewline
  <2> HIDE DEF x
  <2>3. \A d \in Clients : Stream(d)' \in {Stream(d), Append(Stream(d), x)}
    BY <1>4, <2>1, <2>2, WriteEffect DEF IndInv
  <2>4. Sole' /\ Sourced' /\ InOrder' BY <1>5, <2>1, <2>3, StreamStep
  <2>5. \A j \in Chans : chan'[j].buf = chan[j].buf /\ Held(j)' \in SUBSET Held(j)
    BY <1>4, <1>10, ForwardEffect DEF Held
  <2>6. ASSUME NEW j \in 1..made, LineOf(j) PROVE LineOf(j)'
    <3>1. Written(j)' = Written(j)
      BY <1>1, <1>4, <2>1, <2>3, EventsUnwritten
    <3>2. InLine(Written(j), Held(j)', chan[j].buf, sent, Sending(j))
      BY <1>1, <2>5, <2>6, LineDrops DEF LineOf
    <3> QED BY <1>1, <1>4, <1>8, <2>5, <3>1, <3>2 DEF LineOf
  <2>7. Chain' BY <1>5, <2>6, ChainStep
  <2> QED BY <1>6, <1>7, <2>4, <2>7 DEF OrderInv
<1>11. CASE ForwardBody(i)
  <2> DEFINE m == chan[i].msg
             t == chan[i].topic
             x == [kind |-> "event", msg |-> m, topic |-> t]
  <2>1. Write(c, x) /\ chan[i].at = "body" BY <1>2, <1>11 DEF ForwardBody, At
  <2>2. x \in Pieces /\ IsEvent(x) /\ x.msg = m /\ x.topic = t
    BY <2>1 DEF Pieces, IsEvent, IndInv, InHand, TypeOK, Channel
  <2>3. Held(i) = {m} BY <2>1 DEF Held
  <2>4. chan'[i].at = "newline" /\ chan'[i].buf = chan[i].buf BY <1>11, ForwardEffect
  <2> HIDE DEF x
  <2>5. \A d \in Clients :
           Stream(d)' = IF d = c /\ ~Broken(c) THEN Append(Stream(c), x) ELSE Stream(d)
    BY <1>4, <2>1, <2>2, WriteEffect DEF IndInv
  <2>6. Written(i) = EventsIn(Stream(c), t) /\ Written(i)' = EventsIn(Stream(c)', t)
    BY <1>2, <1>4, WrittenNext
  <2>7. Excused(c, t) \/ LineOf(i) BY <1>2, <1>3 DEF OrderInv, Chain, LineOf
  <2>8. Excused(c, t) \/ \A e \in EventsIn(Stream(c), t) : Earlier(e, m)
    BY <2>3, <2>6, <2>7 DEF LineOf, InLine
  <2>9. Sole' /\ Sourced' /\ InOrder'
    <3>1. ASSUME NEW d \in Clients
          PROVE  \/ Stream(d)' \in {Stream(d), <<>>}
                 \/ \E y \in Pieces :
                       /\ Stream(d)' = Append(Stream(d), y)
                       /\ IsEvent(y) =>
                             /\ \E j \in 1..made : Owner(j) = d /\ chan[j].topic = y.topic
                             /\ \/ Excused(d, y.topic)
                                \/ \A e \in EventsIn(Stream(d), y.topic) : Earlier(e, y.msg)
      <4>1. CASE d = c /\ ~Broken(c) BY <1>2, <1>3, <2>2, <2>5, <2>8, <4>1
      <4>2. CASE ~(d = c /\ ~Broken(c)) BY <2>5, <4>2
      <4> QED BY <4>1, <4>2
    <3> QED BY <1>5, <3>1, StreamStep
  <2>10. LineOf(i) => LineOf(i)'
    <3> SUFFICES ASSUME LineOf(i) PROVE LineOf(i)' OBVIOUS
    <3>1. Held(i)' = {} BY <2>4 DEF Held
    <3>2. InLine(Written(i) \cup {m}, {}, chan[i].buf, sent, Sending(i))
      BY <2>3, LineWrites DEF LineOf
    <3>3. Written(i)' \in SUBSET (Written(i) \cup {m})
      <4>1. Stream(c) \in Seq(Pieces) BY ConcatProperties DEF IndInv, TypeOK, Stream
      <4>2. EventsIn(Append(Stream(c), x), t) = EventsIn(Stream(c), t) \cup {m}
        BY <2>2, <4>1, EventsAppend
      <4> QED BY <2>5, <2>6, <4>2
    <3>4. InLine(Written(i)', {}, chan[i].buf, sent, Sending(i)) BY <3>2, <3>3, LineDrops
    <3> QED BY <1>4, <1>8, <2>4, <3>1, <3>4 DEF LineOf
  <2>11. ASSUME NEW j \in 1..made, j # i, LineOf(j)
         PROVE  Excused(Owner(j), chan[j].topic) \/ LineOf(j)'
    <3>1. CASE Owner(j) = c /\ chan[j].topic = t
      <4>1. i \in replaced \/ j \in replaced BY <1>2, <1>3, <2>11, <3>1 DEF OrderInv, Sole
      <4> QED BY <1>2, <3>1, <4>1 DEF Excused
    <3>2. CASE Owner(j) # c
      <4>1. \A d \in Clients : d = Owner(j) => Stream(d)' = Stream(d) BY <2>5, <3>2
      <4> QED BY <1>1, <1>4, <2>11, <4>1, LineKept
    <3>3. CASE Owner(j) = c /\ chan[j].topic # t
      <4>1. Stream(c) \in Seq(Pieces) BY ConcatProperties DEF IndInv, TypeOK, Stream
      <4>2. EventsIn(Append(Stream(c), x), chan[j].topic) = EventsIn(Stream(c), chan[j].topic)
        <5>1. ASSUME NEW s \in Seq(Pieces), NEW u, u # t
              PROVE  EventsIn(Append(s, x), u) = EventsIn(s, u)
          <6>1. EventsIn(Append(s, x), u) =
                   EventsIn(s, u) \cup (IF IsEvent(x) /\ x.topic = u THEN {x.msg} ELSE {})
            BY <2>2, EventsAppend
          <6> QED BY <2>2, <5>1, <6>1
        <5> QED BY <3>3, <4>1, <5>1
      <4>3. Written(j)' = Written(j) BY <1>1, <1>4, <2>5, <2>11, <3>3, <4>2, WrittenNext
      <4>4. Held(j)' = Held(j) BY <1>1, <1>4, <2>11 DEF Held
      <4> QED BY <1>1, <1>4, <1>8, <2>11, <4>3, <4>4 DEF LineOf
    <3> QED BY <3>1, <3>2, <3>3
  <2>12. Chain' BY <1>5, <2>10, <2>11, ChainStep
  <2> QED BY <1>6, <1>7, <2>9, <2>12 DEF OrderInv
<1> QED BY <1>9, <1>10, <1>11 DEF ForwardStep

\* Nothing was published yet.
LEMMA OrderInit == Init => OrderInv
<1> SUFFICES ASSUME Init PROVE OrderInv OBVIOUS
<1>1. <<>> \o <<>> = <<>> BY ConcatEmptySeq, EmptySeq
<1>2. \A c \in Clients : Stream(c) = <<>> BY <1>1 DEF Init, Stream
<1>3. made = 0 /\ 1..made = {} BY DEF Init
<1>4. \A t \in Topics : EventsIn(<<>>, t) = {} BY EmptySeq DEF EventsIn
<1>5. Current /\ Sole /\ Chain BY <1>3 DEF Current, Sole, Chain
<1>6. Sourced BY <1>2, <1>4 DEF Sourced
<1>7. SentBound BY DEF Init, SentBound
<1>8. InOrder BY <1>2, EmptySeq DEF InOrder
<1> QED BY <1>5, <1>6, <1>7, <1>8 DEF OrderInv

\* Every step keeps the order.
LEMMA OrderNext == IndInv /\ IndInv' /\ LineInv /\ OrderInv /\ [Next]_vars => OrderInv'
<1> SUFFICES ASSUME IndInv, IndInv', MadeOK, OrderInv, [Next]_vars PROVE OrderInv'
  BY DEF LineInv
<1>1. CASE Next BY <1>1, PublishOrder, ClientOrder, ForwardOrder DEF Next
<1>2. CASE UNCHANGED vars
  <2>1. UNCHANGED <<topics, chan, made, replaced, sent, published, todo, loop, out, got>>
    BY <1>2 DEF vars, hub, publishing, sockets
  <2>2. ChansFixed /\ Current' BY <2>1 DEF ChansFixed, OrderInv, Current, Owner
  <2>3. \A d \in Clients : Stream(d)' = Stream(d) BY <2>1 DEF Stream
  <2> QED BY <2>1, <2>2, <2>3, OrderKept
<1> QED BY <1>1, <1>2

\* A client that subscribed once to a topic reads each publisher's events in the order
\* in which they were published and none twice: a presence that went online and then
\* offline is never shown the other way round, however many channels overflow, sessions
\* end and writers share the socket.
THEOREM AlwaysInOrder == Spec => []InOrder
<1>1. OrderInv => InOrder BY DEF OrderInv
<1> QED BY <1>1, Inductive, LineInit, LineNext, OrderInit, OrderNext, PTL DEF Spec

=============================================================================
