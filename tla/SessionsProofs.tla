--------------------------- MODULE SessionsProofs ---------------------------
(***************************************************************************)
(* Names, locks, subscriptions, claims and push tokens follow their        *)
(* session, for any number of connections, names and resources.            *)
(*                                                                         *)
(* The argument rests on who runs a cleanup.  The cleanup of a base        *)
(* session is run by its own goroutine, which has left its handler by      *)
(* then; only a push listener is cleaned up while it may be in one.  So a  *)
(* base session that is in a handler still has its name, and nobody else   *)
(* has it.                                                                 *)
(***************************************************************************)
EXTENDS Sessions, TLAPS

PeerStages == {"flag", "start", "wait"}
NamedStages == {"locks", "claims", "subs", "unmap"} \cup PeerStages

\* Whose goroutine runs a cleanup.
CleanupOwn ==
    \A c \in Conns : cl[c] # "none" =>
        pc[c] \in {"exit", "gone"} \/ (Named(c) /\ IsPush(name[c]))

\* A cleanup that releases what the name has knows the name; one that tears down
\* a push listener is that of a base session and knows the listener.
CleanupKnows ==
    \A c \in Conns :
        /\ cl[c] \in NamedStages => Named(c)
        /\ cl[c] \in PeerStages => /\ ~IsPush(name[c])
                                   /\ peer[c] \in Conns
                                   /\ Named(peer[c]) /\ IsPush(name[peer[c]])

\* What is granted is granted in the name of the connection that asked.
GrantsNamed ==
    /\ \A r \in Resources : locks[r] # Free => locks[r].owner = name[locks[r].by]
    /\ \A t \in Tasks : claims[t] # Free => claims[t].owner = name[claims[t].by]
    /\ \A n \in Names : subs[n] # NoConn => name[subs[n]] = n

\* What the cleanup of a base session has released stays released.
Released ==
    \A c \in Conns : ~IsPush(name[c]) =>
        /\ cl[c] \in {"claims", "subs", "unmap"} => \A r \in Resources : locks[r].owner # name[c]
        /\ cl[c] = "unmap" => subs[name[c]] = NoConn

\* Push tokens count up, and only base sessions own one.
TokensKnown ==
    /\ reserved \subseteq 1..lastTok /\ \A b \in Bases : tokens[b] \in 0..lastTok
    /\ \A c \in Conns : owns[c] => Named(c) /\ ~IsPush(name[c])

IndInv ==
    /\ TypeOK /\ CleanupOwn /\ CleanupKnows /\ GrantsNamed /\ Released /\ TokensKnown
    /\ NameHeld /\ BaseHoldsLive /\ OwnerHasToken

-----------------------------------------------------------------------------
\* IndInv holds initially.
LEMMA InitInd == Init => IndInv
<1> SUFFICES ASSUME Init PROVE IndInv OBVIOUS
<1> USE ConstantsAssumption DEF Init
<1>1. TypeOK
  <2>1. pc \in [Conns -> Steps] /\ cl \in [Conns -> Stages] BY DEF Steps, Stages
  <2>2. locks \in [Resources -> Grants] /\ claims \in [Tasks -> Grants] BY DEF Grants
  <2>3. clean \in [Conns -> BOOLEAN] /\ owns \in [Conns -> BOOLEAN] OBVIOUS
  <2>4. /\ sess \in [Names -> Conns \cup {NoConn}]
        /\ tokens \in [Bases -> Nat] /\ lastTok \in Nat /\ reserved \subseteq Nat
        /\ name \in [Conns -> Names \cup {NoName}]
        /\ peer \in [Conns -> Conns \cup {NoConn}]
        /\ subs \in [Names -> Conns \cup {NoConn}]
    OBVIOUS
  <2> QED BY <2>1, <2>2, <2>3, <2>4 DEF TypeOK
<1>2. CleanupOwn /\ CleanupKnows
  BY DEF CleanupOwn, CleanupKnows, NamedStages, PeerStages
<1>3. GrantsNamed /\ Released BY DEF GrantsNamed, Released
<1>4. TokensKnown /\ OwnerHasToken BY DEF TokensKnown, OwnerHasToken, Named
<1>5. NameHeld /\ BaseHoldsLive BY DEF NameHeld, BaseHoldsLive, Registered, Named
<1> QED BY <1>1, <1>2, <1>3, <1>4, <1>5 DEF IndInv

\* What a connection that has a name is granted is well formed.
LEMMA GrantType ==
  ASSUME TypeOK, NEW c \in Conns, Named(c)
  PROVE  Grant(c) \in Grants /\ Grant(c) # Free /\ Grant(c).owner = name[c] /\ Grant(c).by = c
  BY ConstantsAssumption DEF TypeOK, Grant, Grants, Free, Named

\* The handlers keep the types.
LEMMA HandlerType ==
  ASSUME IndInv, NEW c \in Conns, Handler(c)
  PROVE  TypeOK'
<1> USE ConstantsAssumption DEF IndInv, TypeOK, Steps, Stages, Handling, Goto, registry, teardown, held
<1>1. CASE NoEffect(c) BY <1>1 DEF NoEffect
<1>2. ASSUME NEW n \in Names, NEW t \in 0..MaxTokens, Connect(c, n, t) PROVE TypeOK'
  <2>1. tokens' \in [Bases -> Nat] /\ lastTok' \in Nat BY <1>2 DEF Connect, NewToken
  <2>2. owns' \in [Conns -> BOOLEAN] BY <1>2 DEF Connect
  <2> QED BY <1>2, <2>1, <2>2 DEF Connect
<1>3. CASE Disconnect(c) BY <1>3 DEF Disconnect
<1>4. ASSUME NEW b \in Bases, PushReserve(c, b) PROVE TypeOK' BY <1>4 DEF PushReserve, NewToken
<1>5. ASSUME NEW b \in Bases, NEW t \in 1..MaxTokens, PushRelease(c, b, t) PROVE TypeOK'
  <2>1. owns' \in [Conns -> BOOLEAN] BY <1>5 DEF PushRelease
  <2> QED BY <1>5, <2>1 DEF PushRelease
<1>6. ASSUME NEW r \in Resources, Lock(c, r) \/ Unlock(c, r) PROVE TypeOK'
  <2>1. CASE Lock(c, r) BY <2>1, GrantType DEF Lock
  <2>2. CASE Unlock(c, r) BY <2>2 DEF Unlock, Grants
  <2> QED BY <1>6, <2>1, <2>2
<1>7. CASE Subscribe(c) BY <1>7 DEF Subscribe
<1>8. ASSUME NEW t \in Tasks, Claim(c, t) PROVE TypeOK' BY <1>8, GrantType DEF Claim
<1> QED BY <1>1, <1>2, <1>3, <1>4, <1>5, <1>6, <1>7, <1>8 DEF Handler

\* So do the stages of a cleanup.
LEMMA CleanupType ==
  ASSUME IndInv, NEW c \in Conns, Cleanup(c)
  PROVE  TypeOK'
<1> USE ConstantsAssumption DEF IndInv, TypeOK, Steps, Stages, Stage, Goto, registry, teardown, held
<1>1. CASE CleanupStart(c) BY <1>1 DEF CleanupStart, FirstStage
<1>2. CASE CleanupReturn(c) BY <1>2 DEF CleanupReturn
<1>3. CASE ReleaseAll(c) BY <1>3 DEF ReleaseAll, Grants
<1>4. CASE Requeue(c) BY <1>4 DEF Requeue, Grants
<1>5. CASE UnsubscribeAll(c) BY <1>5 DEF UnsubscribeAll
<1>6. CASE Unmap(c)
  <2>1. name[c] \in Names BY <1>6 DEF Unmap, CleanupKnows, NamedStages, Named
  <2>2. Listener(name[c]) \in Names BY <2>1 DEF Listener, Names
  <2> QED BY <1>6, <2>1, <2>2 DEF Unmap
<1>7. CASE PeerFlag(c) BY <1>7 DEF PeerFlag
<1>8. CASE PeerStart(c) BY <1>8 DEF PeerStart, FirstStage
<1>9. CASE PeerDone(c) BY <1>9 DEF PeerDone
<1>10. CASE Close(c) BY <1>10 DEF Close
<1> QED BY <1>1, <1>2, <1>3, <1>4, <1>5, <1>6, <1>7, <1>8, <1>9, <1>10 DEF Cleanup

\* And the read loop, and the end of a claim.
LEMMA LoopType ==
  ASSUME IndInv,
         (\E c \in Conns : Accept(c) \/ Receive(c) \/ Eof(c) \/ Respond(c))
           \/ \E t \in Tasks : ClaimOver(t)
  PROVE  TypeOK'
<1> USE DEF IndInv, TypeOK, Steps, Goto, registry, teardown, held
<1>1. ASSUME NEW c \in Conns, Accept(c) \/ Receive(c) \/ Eof(c) \/ Respond(c) PROVE TypeOK'
  BY <1>1 DEF Accept, Receive, Eof, Respond
<1>2. ASSUME NEW t \in Tasks, ClaimOver(t) PROVE TypeOK' BY <1>2 DEF ClaimOver, Grants
<1> QED BY <1>1, <1>2

-----------------------------------------------------------------------------
\* The actions that leave registry and cleanups alone, but for the handler's
\* place.
Local(c) ==
    \/ Accept(c) \/ Receive(c) \/ Eof(c) \/ Respond(c)
    \/ NoEffect(c) \/ Disconnect(c) \/ Subscribe(c)
    \/ \E r \in Resources : Lock(c, r) \/ Unlock(c, r)
    \/ \E t \in Tasks : Claim(c, t)

\* What such a step leaves alone.
LEMMA LocalFrame ==
  ASSUME IndInv, NEW c \in Conns, Local(c)
  PROVE  /\ UNCHANGED <<registry, teardown>>
         /\ pc[c] \notin {"exit", "gone"}
         /\ pc' = [pc EXCEPT ![c] = pc'[c]]
<1> USE DEF IndInv, TypeOK, registry, teardown, Goto, Handling
<1>1. CASE Accept(c) \/ Receive(c) \/ Eof(c) \/ Respond(c) BY <1>1 DEF Accept, Receive, Eof, Respond
<1>2. CASE NoEffect(c) \/ Disconnect(c) \/ Subscribe(c) BY <1>2 DEF NoEffect, Disconnect, Subscribe
<1>3. CASE \E r \in Resources : Lock(c, r) \/ Unlock(c, r) BY <1>3 DEF Lock, Unlock
<1>4. CASE \E t \in Tasks : Claim(c, t) BY <1>4 DEF Claim
<1> QED BY <1>1, <1>2, <1>3, <1>4 DEF Local

\* All the steps there are.
LEMMA Cases ==
  ASSUME Next
  PROVE  \/ \E t \in Tasks : ClaimOver(t)
         \/ \E c \in Conns :
              \/ Local(c) \/ Cleanup(c)
              \/ \E n \in Names, t \in 0..MaxTokens : Connect(c, n, t)
              \/ \E b \in Bases : PushReserve(c, b)
              \/ \E b \in Bases, t \in 1..MaxTokens : PushRelease(c, b, t)
  BY DEF Next, Handler, Local

-----------------------------------------------------------------------------
\* A cleanup is run by the right goroutine and knows what it needs.
LEMMA NextCleanup ==
  ASSUME IndInv, Next
  PROVE  (CleanupOwn /\ CleanupKnows)'
<1> USE ConstantsAssumption DEF IndInv, TypeOK, CleanupOwn, CleanupKnows, NamedStages, PeerStages,
        Named, registry, teardown, Goto, Stage
<1>1. ASSUME NEW t \in Tasks, ClaimOver(t) PROVE (CleanupOwn /\ CleanupKnows)'
  BY <1>1 DEF ClaimOver
<1>2. ASSUME NEW c \in Conns, Local(c) PROVE (CleanupOwn /\ CleanupKnows)'
  BY <1>2, LocalFrame
<1>3. ASSUME NEW c \in Conns, NEW n \in Names, NEW t \in 0..MaxTokens, Connect(c, n, t)
      PROVE  (CleanupOwn /\ CleanupKnows)'
  <2>1. cl[c] = "none" BY <1>3 DEF Connect, Handling
  <2>2. \A d \in Conns : Named(d) => name'[d] = name[d] BY <1>3 DEF Connect, Handling
  <2>3. cl' = cl /\ peer' = peer BY <1>3 DEF Connect
  <2>4. \A d \in Conns : d # c => pc'[d] = pc[d] BY <1>3 DEF Connect, Handling
  <2> QED BY <2>1, <2>2, <2>3, <2>4
<1>4. ASSUME NEW c \in Conns, NEW b \in Bases, PushReserve(c, b)
      PROVE  (CleanupOwn /\ CleanupKnows)'
  BY <1>4 DEF PushReserve, Handling
<1>5. ASSUME NEW c \in Conns, NEW b \in Bases, NEW t \in 1..MaxTokens, PushRelease(c, b, t)
      PROVE  (CleanupOwn /\ CleanupKnows)'
  BY <1>5 DEF PushRelease, Handling
<1>6. ASSUME NEW c \in Conns, Cleanup(c) PROVE (CleanupOwn /\ CleanupKnows)'
  <2>1. CASE CleanupStart(c) BY <2>1 DEF CleanupStart, FirstStage
  <2>2. CASE CleanupReturn(c) BY <2>2 DEF CleanupReturn
  <2>3. CASE ReleaseAll(c) BY <2>3 DEF ReleaseAll
  <2>4. CASE Requeue(c) BY <2>4 DEF Requeue
  <2>5. CASE UnsubscribeAll(c) BY <2>5 DEF UnsubscribeAll
  <2>6. CASE Unmap(c)
    <3>1. name[c] \in Names BY <2>6 DEF Unmap
    <3>2. Listener(name[c]) \in Names /\ IsPush(Listener(name[c]))
      BY <3>1 DEF Listener, Names, IsPush
    <3> QED BY <2>6, <3>1, <3>2 DEF Unmap, NameHeld, Registered
  <2>7. CASE PeerFlag(c) BY <2>7 DEF PeerFlag
  <2>8. CASE PeerStart(c) BY <2>8 DEF PeerStart, FirstStage
  <2>9. CASE PeerDone(c) BY <2>9 DEF PeerDone
  <2>10. CASE Close(c) BY <2>10 DEF Close
  <2> QED BY <1>6, <2>1, <2>2, <2>3, <2>4, <2>5, <2>6, <2>7, <2>8, <2>9, <2>10 DEF Cleanup
<1> QED BY <1>1, <1>2, <1>3, <1>4, <1>5, <1>6, Cases

\* A base session that is in a handler has its name, and no cleanup is under way.
LEMMA BaseInHandler ==
  ASSUME IndInv, NEW c \in Conns, pc[c] \notin {"exit", "gone"}, Named(c), ~IsPush(name[c])
  PROVE  cl[c] = "none" /\ Registered(c) /\ sess[name[c]] = c
  BY DEF IndInv, CleanupOwn, Registered, NameHeld

\* The registry maps every name to the session that has it.
LEMMA NextNames ==
  ASSUME IndInv, Next
  PROVE  NameHeld'
<1> USE ConstantsAssumption DEF IndInv, TypeOK, CleanupOwn, CleanupKnows, NamedStages, PeerStages,
        Named, registry, teardown, Goto, Stage, NameHeld, Registered
<1>1. ASSUME NEW t \in Tasks, ClaimOver(t) PROVE NameHeld' BY <1>1 DEF ClaimOver
<1>2. ASSUME NEW c \in Conns, Local(c) PROVE NameHeld' BY <1>2, LocalFrame
<1>3. ASSUME NEW c \in Conns, NEW n \in Names, NEW t \in 0..MaxTokens, Connect(c, n, t)
      PROVE  NameHeld'
  <2>1. cl[c] = "none" /\ ~Named(c) BY <1>3 DEF Connect, Handling
  <2>2. name' = [name EXCEPT ![c] = n] /\ sess' = [sess EXCEPT ![n] = c] BY <1>3 DEF Connect
  <2>3. cl' = cl /\ sess[n] = NoConn BY <1>3 DEF Connect
  <2> QED BY <2>1, <2>2, <2>3
<1>4. ASSUME NEW c \in Conns, NEW b \in Bases, PushReserve(c, b) PROVE NameHeld'
  BY <1>4 DEF PushReserve
<1>5. ASSUME NEW c \in Conns, NEW b \in Bases, NEW t \in 1..MaxTokens, PushRelease(c, b, t)
      PROVE  NameHeld'
  BY <1>5 DEF PushRelease
<1>6. ASSUME NEW c \in Conns, Cleanup(c) PROVE NameHeld'
  <2>1. CASE CleanupStart(c) BY <2>1 DEF CleanupStart, FirstStage
  <2>2. CASE CleanupReturn(c) BY <2>2 DEF CleanupReturn
  <2>3. CASE ReleaseAll(c) BY <2>3 DEF ReleaseAll
  <2>4. CASE Requeue(c) BY <2>4 DEF Requeue
  <2>5. CASE UnsubscribeAll(c) BY <2>5 DEF UnsubscribeAll
  <2>6. CASE Unmap(c)
    <3>1. name[c] \in Names /\ sess[name[c]] = c BY <2>6 DEF Unmap
    <3>2. sess' = [sess EXCEPT ![name[c]] = NoConn] /\ name' = name BY <2>6, <3>1 DEF Unmap
    <3>3. cl'[c] \in {"close", "flag"} /\ \A d \in Conns : d # c => cl'[d] = cl[d]
      BY <2>6 DEF Unmap
    <3> QED BY <3>1, <3>2, <3>3
  <2>7. CASE PeerFlag(c) BY <2>7 DEF PeerFlag
  <2>8. CASE PeerStart(c) BY <2>8 DEF PeerStart, FirstStage
  <2>9. CASE PeerDone(c) BY <2>9 DEF PeerDone
  <2>10. CASE Close(c) BY <2>10 DEF Close
  <2> QED BY <1>6, <2>1, <2>2, <2>3, <2>4, <2>5, <2>6, <2>7, <2>8, <2>9, <2>10 DEF Cleanup
<1> QED BY <1>1, <1>2, <1>3, <1>4, <1>5, <1>6, Cases

-----------------------------------------------------------------------------
\* Nobody else has the name of a session that is registered.
LEMMA OneName ==
  ASSUME IndInv, NEW c \in Conns, NEW d \in Conns, Registered(c), Registered(d), name[c] = name[d]
  PROVE  c = d
  BY DEF IndInv, NameHeld

\* Locks, claims and subscriptions are granted in the name of their connection,
\* and what a base session released is not taken again under its name.
LEMMA NextHolds ==
  ASSUME IndInv, Next
  PROVE  (GrantsNamed /\ Released /\ BaseHoldsLive)'
<1> DEFINE Holds == GrantsNamed /\ Released /\ BaseHoldsLive
<1> SUFFICES Holds' OBVIOUS
<1> USE ConstantsAssumption DEF IndInv, TypeOK, registry, teardown, held, Goto, Stage, GrantsNamed,
        Released, BaseHoldsLive, Grants, Free, Named
<1>1. ASSUME NEW t \in Tasks, ClaimOver(t) PROVE Holds' BY <1>1 DEF ClaimOver
<1>2. ASSUME NEW c \in Conns, Local(c) PROVE Holds'
  <2>1. UNCHANGED <<sess, name, cl>> /\ pc[c] \notin {"exit", "gone"}
    BY <1>2, LocalFrame
  <2>2. ASSUME Named(c), ~IsPush(name[c])
        PROVE  /\ sess[name[c]] = c
               /\ \A d \in Conns : name[d] = name[c] => cl[d] \notin {"claims", "subs", "unmap"}
    BY <1>2, <2>1, <2>2, BaseInHandler, OneName DEF Registered
  <2>3. ASSUME NEW r \in Resources, Lock(c, r) PROVE Holds'
    <3>1. locks' = [locks EXCEPT ![r] = Grant(c)] /\ Named(c) BY <2>3 DEF Lock
    <3>2. Grant(c).owner = name[c] /\ Grant(c).by = c BY <3>1, GrantType
    <3>3. UNCHANGED <<subs, claims>> BY <2>3 DEF Lock
    <3> QED BY <2>1, <2>2, <3>1, <3>2, <3>3
  <2>4. ASSUME NEW r \in Resources, Unlock(c, r) PROVE Holds'
    <3>1. \A q \in Resources : locks'[q] = locks[q] \/ locks'[q] = Free BY <2>4 DEF Unlock
    <3>2. \A q \in Resources : locks'[q].owner \in {locks[q].owner, NoName} BY <3>1
    <3>3. UNCHANGED <<subs, claims>> BY <2>4 DEF Unlock
    <3>4. GrantsNamed' BY <2>1, <3>1, <3>3
    <3>5. Released' BY <2>1, <3>2, <3>3 DEF CleanupKnows, NamedStages
    <3>6. BaseHoldsLive' BY <2>1, <3>1, <3>3
    <3> QED BY <3>4, <3>5, <3>6
  <2>5. CASE Subscribe(c)
    <3>1. subs' = [subs EXCEPT ![name[c]] = c] /\ name[c] \in Names BY <2>5 DEF Subscribe
    <3>2. UNCHANGED <<locks, claims>> BY <2>5 DEF Subscribe
    <3> QED BY <2>1, <2>2, <3>1, <3>2
  <2>6. ASSUME NEW t \in Tasks, Claim(c, t) PROVE Holds'
    <3>1. claims' = [claims EXCEPT ![t] = Grant(c)] /\ Named(c) BY <2>6 DEF Claim
    <3>2. Grant(c).owner = name[c] /\ Grant(c).by = c BY <3>1, GrantType
    <3>3. UNCHANGED <<subs, locks>> BY <2>6 DEF Claim
    <3> QED BY <2>1, <3>1, <3>2, <3>3
  <2>7. CASE UNCHANGED held BY <2>1, <2>7
  <2> QED
    BY <1>2, <2>3, <2>4, <2>5, <2>6, <2>7 DEF Local, Accept, Receive, Eof, Respond, NoEffect,
       Disconnect
<1>3. ASSUME NEW c \in Conns, NEW n \in Names, NEW t \in 0..MaxTokens, Connect(c, n, t)
      PROVE  Holds'
  <2>1. name' = [name EXCEPT ![c] = n] /\ sess' = [sess EXCEPT ![n] = c] BY <1>3 DEF Connect
  <2>2. name[c] = NoName /\ sess[n] = NoConn /\ cl[c] = "none" /\ UNCHANGED <<cl, held>>
    BY <1>3 DEF Connect, Handling, CleanupOwn
  <2>3. GrantsNamed' BY <2>1, <2>2
  <2>4. Released' BY <2>1, <2>2
  <2>5. BaseHoldsLive' BY <2>1, <2>2
  <2> QED BY <2>3, <2>4, <2>5
<1>4. ASSUME NEW c \in Conns, NEW b \in Bases, PushReserve(c, b) PROVE Holds'
  BY <1>4 DEF PushReserve
<1>5. ASSUME NEW c \in Conns, NEW b \in Bases, NEW t \in 1..MaxTokens, PushRelease(c, b, t)
      PROVE  Holds'
  BY <1>5 DEF PushRelease
<1>6. ASSUME NEW c \in Conns, Cleanup(c) PROVE Holds'
  <2>1. CASE CleanupStart(c) BY <2>1 DEF CleanupStart, FirstStage
  <2>2. CASE CleanupReturn(c) BY <2>2 DEF CleanupReturn
  <2>3. CASE ReleaseAll(c)
    <3>1. name[c] # NoName BY <2>3 DEF ReleaseAll, CleanupKnows, NamedStages
    <3>2. \A q \in Resources : locks'[q] = IF locks[q].owner = name[c] THEN Free ELSE locks[q]
      BY <2>3 DEF ReleaseAll
    <3>3. UNCHANGED <<sess, name, subs, claims>> BY <2>3 DEF ReleaseAll
    <3>4. cl'[c] = "claims" /\ \A d \in Conns : d # c => cl'[d] = cl[d] BY <2>3 DEF ReleaseAll
    <3>5. GrantsNamed' BY <3>2, <3>3
    <3>6. \A d \in Conns : cl[d] \in {"claims", "subs", "unmap"} => name[d] # NoName
      BY DEF CleanupKnows, NamedStages
    <3>7. Released' BY <3>1, <3>2, <3>3, <3>4, <3>6
    <3>8. BaseHoldsLive' BY <3>2, <3>3
    <3> QED BY <3>5, <3>7, <3>8
  <2>4. CASE Requeue(c) BY <2>4 DEF Requeue
  <2>5. CASE UnsubscribeAll(c) BY <2>5 DEF UnsubscribeAll, CleanupKnows, NamedStages
  <2>6. CASE Unmap(c)
    <3>1. name[c] \in Names /\ sess[name[c]] = c
      BY <2>6 DEF Unmap, CleanupKnows, NamedStages, NameHeld, Registered
    <3>2. sess' = [sess EXCEPT ![name[c]] = NoConn] /\ UNCHANGED <<name, held>>
      BY <2>6, <3>1 DEF Unmap
    <3>3. cl'[c] \in {"close", "flag"} /\ \A d \in Conns : d # c => cl'[d] = cl[d]
      BY <2>6 DEF Unmap
    <3>4. cl[c] = "unmap" BY <2>6 DEF Unmap
    <3>5. GrantsNamed' BY <3>2
    <3>6. Released' BY <3>2, <3>3
    <3>7. BaseHoldsLive' BY <3>1, <3>2, <3>4
    <3> QED BY <3>5, <3>6, <3>7
  <2>7. CASE PeerFlag(c) BY <2>7 DEF PeerFlag
  <2>8. CASE PeerStart(c) BY <2>8 DEF PeerStart, FirstStage
  <2>9. CASE PeerDone(c) BY <2>9 DEF PeerDone
  <2>10. CASE Close(c) BY <2>10 DEF Close
  <2> QED BY <1>6, <2>1, <2>2, <2>3, <2>4, <2>5, <2>6, <2>7, <2>8, <2>9, <2>10 DEF Cleanup
<1> QED BY <1>1, <1>2, <1>3, <1>4, <1>5, <1>6, Cases

\* A push token that a session owns is the current one and was not reserved.
LEMMA NextTokens ==
  ASSUME IndInv, Next
  PROVE  (TokensKnown /\ OwnerHasToken)'
<1> DEFINE Toks == TokensKnown /\ OwnerHasToken
<1> SUFFICES Toks' OBVIOUS
<1> USE ConstantsAssumption DEF IndInv, TypeOK, registry, teardown, Goto, Stage, TokensKnown,
        OwnerHasToken, Named, Registered
<1>1. ASSUME NEW t \in Tasks, ClaimOver(t) PROVE Toks' BY <1>1 DEF ClaimOver
<1>2. ASSUME NEW c \in Conns, Local(c) PROVE Toks' BY <1>2, LocalFrame
<1>3. ASSUME NEW c \in Conns, NEW n \in Names, NEW t \in 0..MaxTokens, Connect(c, n, t)
      PROVE  Toks'
  <2>1. /\ name' = [name EXCEPT ![c] = n] /\ name[c] = NoName /\ cl' = cl
        /\ reserved' = reserved /\ ~owns[c] /\ n[1] \in Bases
    BY <1>3 DEF Connect, Names
  <2>2. CASE UNCHANGED <<tokens, lastTok, owns>> BY <2>1, <2>2
  <2>3. CASE /\ ~IsPush(n) /\ tokens[n[1]] = 0 /\ NewToken(n[1])
             /\ owns' = [owns EXCEPT ![c] = TRUE]
    BY <2>1, <2>3 DEF NewToken
  <2> QED BY <1>3, <2>2, <2>3 DEF Connect
<1>4. ASSUME NEW c \in Conns, NEW b \in Bases, PushReserve(c, b) PROVE Toks'
  BY <1>4 DEF PushReserve, NewToken, Names
<1>5. ASSUME NEW c \in Conns, NEW b \in Bases, NEW t \in 1..MaxTokens, PushRelease(c, b, t)
      PROVE  Toks'
  <2>1. /\ tokens' = [tokens EXCEPT ![b] = 0] /\ UNCHANGED <<sess, lastTok, reserved, name, cl>>
        /\ owns' = [d \in Conns |-> owns[d] /\ sess[<<b, "base">>] # d]
    BY <1>5 DEF PushRelease
  <2>2. ASSUME NEW d \in Conns, owns[d], Registered(d), name[d][1] = b
        PROVE  sess[<<b, "base">>] = d
    <3>1. name[d] = <<b, "base">> BY <2>2 DEF Names, IsPush
    <3> QED BY <2>2, <3>1 DEF NameHeld
  <2>3. TokensKnown' BY <2>1
  <2>4. OwnerHasToken' BY <2>1, <2>2 DEF Names
  <2> QED BY <2>3, <2>4
<1>6. ASSUME NEW c \in Conns, Cleanup(c) PROVE Toks'
  <2>1. CASE CleanupStart(c) BY <2>1 DEF CleanupStart, FirstStage
  <2>2. CASE CleanupReturn(c) BY <2>2 DEF CleanupReturn
  <2>3. CASE ReleaseAll(c) BY <2>3 DEF ReleaseAll
  <2>4. CASE Requeue(c) BY <2>4 DEF Requeue
  <2>5. CASE UnsubscribeAll(c) BY <2>5 DEF UnsubscribeAll
  <2>6. CASE Unmap(c)
    <3>1. name[c] \in Names /\ Registered(c)
      BY <2>6 DEF Unmap, CleanupKnows, NamedStages
    <3>2. /\ UNCHANGED <<name, lastTok, reserved, owns>>
          /\ \/ tokens' = tokens
             \/ ~IsPush(name[c]) /\ tokens' = [tokens EXCEPT ![name[c][1]] = 0]
          /\ cl'[c] \in {"close", "flag"} /\ \A d \in Conns : d # c => cl'[d] = cl[d]
      BY <2>6 DEF Unmap
    <3>3. ASSUME NEW d \in Conns, owns[d], Registered(d), name[d][1] = name[c][1],
                 ~IsPush(name[c])
          PROVE  d = c
      <4>1. name[d] = name[c] BY <3>1, <3>3 DEF Names, IsPush
      <4> QED BY <3>1, <3>3, <4>1, OneName
    <3>4. TokensKnown' BY <3>1, <3>2 DEF Names
    <3>5. OwnerHasToken' BY <3>1, <3>2, <3>3 DEF Names
    <3> QED BY <3>4, <3>5
  <2>7. CASE PeerFlag(c) BY <2>7 DEF PeerFlag
  <2>8. CASE PeerStart(c)
    BY <2>8 DEF PeerStart, FirstStage, CleanupKnows, NamedStages, PeerStages
  <2>9. CASE PeerDone(c) BY <2>9 DEF PeerDone
  <2>10. CASE Close(c) BY <2>10 DEF Close
  <2> QED BY <1>6, <2>1, <2>2, <2>3, <2>4, <2>5, <2>6, <2>7, <2>8, <2>9, <2>10 DEF Cleanup
<1> QED BY <1>1, <1>2, <1>3, <1>4, <1>5, <1>6, Cases

-----------------------------------------------------------------------------
\* IndInv holds in every state.
LEMMA Inductive == Spec => []IndInv
<1>1. ASSUME IndInv, [Next]_vars PROVE IndInv'
  <2>1. CASE Next
    <3>1. TypeOK' BY <1>1, <2>1, HandlerType, CleanupType, LoopType DEF Next
    <3> QED BY <1>1, <2>1, <3>1, NextCleanup, NextNames, NextHolds, NextTokens DEF IndInv
  <2>2. CASE UNCHANGED vars
    BY <1>1, <2>2 DEF vars, IndInv, TypeOK, CleanupOwn, CleanupKnows, GrantsNamed, Released,
       TokensKnown, NameHeld, BaseHoldsLive, OwnerHasToken, Named, Registered
  <2> QED BY <1>1, <2>1, <2>2
<1> QED BY <1>1, InitInd, PTL DEF Spec

\* The registry, the cleanups and what sessions hold have the shape that TypeOK
\* gives them: a cleanup never uses an empty name.
THEOREM TypeCorrect == Spec => []TypeOK
  BY Inductive, PTL DEF IndInv

\* broker.sessions maps a name to the one session that has it, from connect to
\* the Unmap of its cleanup: doCleanup never finds a successor's entry.
THEOREM NameAlwaysHeld == Spec => []NameHeld
  BY Inductive, PTL DEF IndInv

\* A lock or a subscription under a base name is that of the session that has
\* the name: ReleaseAll and UnsubscribeAll leave nothing to a successor.
THEOREM BaseAlwaysLive == Spec => []BaseHoldsLive
  BY Inductive, PTL DEF IndInv

\* A session that owns a push token owns the current one, and not one that
\* push.reserve made.
THEOREM OwnerAlwaysHasToken == Spec => []OwnerHasToken
  BY Inductive, PTL DEF IndInv

\* What a connected base session was granted goes by its own requests only, or
\* when a claim ends by itself, and by no other session's cleanup.
THEOREM HoldsNeverDisturbed == Spec => HoldsUndisturbed
<1> DEFINE P(c) ==
       /\ \A r \in Resources : locks[r].by = c /\ locks'[r].by # c => Own(c)
       /\ \A n \in Names : subs[n] = c /\ subs'[n] # c => Own(c)
       /\ \A t \in Tasks : claims[t].by = c /\ claims'[t].by # c => cl' = cl /\ pc' = pc
<1>1. ASSUME IndInv, [Next]_vars, NEW c \in Conns, Connected(c) PROVE P(c)
  <2> USE <1>1, ConstantsAssumption DEF IndInv, TypeOK, registry, teardown, held, Goto, Stage,
          Own, Grants, Free, Handling
  <2>0. Registered(c) /\ cl[c] = "none" /\ Named(c) BY DEF Connected, Registered
  <2>1. ASSUME NEW d \in Conns, Named(d), name[d] = name[c],
               pc[d] \notin {"exit", "gone"} \/ Registered(d)
        PROVE  d = c
    BY <2>0, <2>1, BaseInHandler, OneName DEF Connected
  <2>2. /\ \A r \in Resources : locks[r].by = c => locks[r].owner = name[c]
        /\ \A t \in Tasks : claims[t].by = c => claims[t].owner = name[c]
        /\ \A n \in Names : subs[n] = c => n = name[c]
    BY DEF GrantsNamed
  <2>3. CASE UNCHANGED held \/ UNCHANGED vars BY <2>3 DEF vars
  <2>4. ASSUME NEW t \in Tasks, ClaimOver(t) PROVE P(c) BY <2>4 DEF ClaimOver
  <2>5. ASSUME NEW d \in Conns, NEW r \in Resources, Lock(d, r) \/ Unlock(d, r) PROVE P(c)
    <3>1. locks[r].by = c => d = c BY <2>1, <2>2, <2>5 DEF Lock, Unlock, Named
    <3>2. \A q \in Resources : q # r => locks'[q] = locks[q] BY <2>5 DEF Lock, Unlock
    <3>3. UNCHANGED <<subs, claims>> BY <2>5 DEF Lock, Unlock
    <3>4. Own(d) BY <2>5 DEF Lock, Unlock
    <3> QED BY <3>1, <3>2, <3>3, <3>4
  <2>6. ASSUME NEW d \in Conns, Subscribe(d) PROVE P(c)
    BY <2>1, <2>2, <2>6 DEF Subscribe, Named
  <2>7. ASSUME NEW d \in Conns, NEW t \in Tasks, Claim(d, t) PROVE P(c)
    BY <2>7 DEF Claim
  <2>8. ASSUME NEW d \in Conns, ReleaseAll(d) \/ Requeue(d) \/ UnsubscribeAll(d) PROVE P(c)
    <3>1. Registered(d) /\ Named(d) /\ cl[d] # "none"
      BY <2>8 DEF ReleaseAll, Requeue, UnsubscribeAll, CleanupKnows, NamedStages, Registered
    <3>2. name[d] # name[c] BY <2>0, <2>1, <3>1
    <3>3. CASE ReleaseAll(d) BY <2>2, <3>2, <3>3 DEF ReleaseAll
    <3>4. CASE Requeue(d) BY <2>2, <3>2, <3>4 DEF Requeue
    <3>5. CASE UnsubscribeAll(d) BY <2>2, <3>2, <3>5 DEF UnsubscribeAll
    <3> QED BY <2>8, <3>3, <3>4, <3>5
  <2> HIDE DEF P
  <2>9. ASSUME NEW d \in Conns, Local(d) PROVE P(c)
    <3>1. CASE Accept(d) \/ Receive(d) \/ Eof(d) \/ Respond(d) \/ NoEffect(d) \/ Disconnect(d)
      BY <2>3, <3>1 DEF Accept, Receive, Eof, Respond, NoEffect, Disconnect
    <3> QED BY <2>5, <2>6, <2>7, <2>9, <3>1 DEF Local
  <2>10. ASSUME NEW d \in Conns, Cleanup(d) PROVE P(c)
    <3>1. CASE \/ CleanupStart(d) \/ CleanupReturn(d) \/ Unmap(d) \/ PeerFlag(d) \/ PeerStart(d)
               \/ PeerDone(d) \/ Close(d)
      BY <2>3, <3>1 DEF CleanupStart, CleanupReturn, Unmap, PeerFlag, PeerStart, PeerDone, Close
    <3> QED BY <2>8, <2>10, <3>1 DEF Cleanup
  <2>11. ASSUME NEW d \in Conns,
                \/ \E n \in Names, t \in 0..MaxTokens : Connect(d, n, t)
                \/ \E b \in Bases : PushReserve(d, b)
                \/ \E b \in Bases, t \in 1..MaxTokens : PushRelease(d, b, t)
         PROVE  P(c)
    BY <2>3, <2>11 DEF Connect, PushReserve, PushRelease
  <2> QED BY <2>3, <2>4, <2>9, <2>10, <2>11, Cases
<1>2. IndInv /\ [Next]_vars => [\A c \in Conns : Connected(c) => P(c)]_vars
  BY <1>1
<1> QED BY <1>2, Inductive, PTL DEF Spec, HoldsUndisturbed

=============================================================================
