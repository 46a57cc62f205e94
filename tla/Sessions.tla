------------------------------ MODULE Sessions ------------------------------
(***************************************************************************)
(* Client sessions of the waggle broker (internal/broker/session.go and    *)
(* the connection handlers of router.go) with what a session holds: its    *)
(* name in broker.sessions, its advisory locks (internal/locks), its event *)
(* subscription (internal/events), the tasks it has claimed, and the push  *)
(* token of its base name (broker.pushTokens).                             *)
(*                                                                         *)
(* One goroutine per connection runs readLoop; the cleanup of a session is *)
(* a sync.Once that its own goroutine runs or, for a push listener, the    *)
(* goroutine of its base session, while the listener's own goroutine may   *)
(* still be in a handler.  A step is one critical section.                 *)
(***************************************************************************)
EXTENDS Integers

CONSTANTS
    Conns,          \* connections; each is accepted at most once
    NoConn,         \* no session
    Bases,          \* base agent names
    NoName,         \* s.name == ""
    Resources,      \* lockable resources
    Tasks,          \* tasks that can be claimed
    MaxTokens       \* bound: push tokens that are generated

\* The name <<b, "push">> is the name b with the suffix "-push".
Names == Bases \X {"base", "push"}

IsPush(n) == n[2] = "push"
Listener(n) == <<n[1], "push">>

ASSUME ConstantsAssumption ==
    NoConn \notin Conns /\ NoName \notin Names /\ MaxTokens \in Nat

VARIABLES
    sess,       \* broker.sessions
    tokens,     \* broker.pushTokens, 0 where there is no entry
    lastTok,    \* the last push token generated
    reserved,   \* tokens that push.reserve generated
    name,       \* s.name
    clean,      \* s.cleanDisconnect
    owns,       \* s.ownsPushToken
    pc,         \* where the goroutine of the connection is
    cl,         \* where the session's cleanup is
    peer,       \* the push listener that the cleanup tears down
    locks,      \* lockMgr.locks, with the connection that was granted each
    subs,       \* the hub's channel for each name, as the connection it feeds
    claims      \* claimed_by of each task, with the connection that claimed it

vars == <<sess, tokens, lastTok, reserved, name, clean, owns, pc, cl, peer,
          locks, subs, claims>>

Free == [owner |-> NoName, by |-> NoConn]
Grant(c) == [owner |-> name[c], by |-> c]

Init ==
    /\ sess = [n \in Names |-> NoConn]
    /\ tokens = [b \in Bases |-> 0]
    /\ lastTok = 0
    /\ reserved = {}
    /\ name = [c \in Conns |-> NoName]
    /\ clean = [c \in Conns |-> FALSE]
    /\ owns = [c \in Conns |-> FALSE]
    /\ pc = [c \in Conns |-> "new"]
    /\ cl = [c \in Conns |-> "none"]
    /\ peer = [c \in Conns |-> NoConn]
    /\ locks = [r \in Resources |-> Free]
    /\ subs = [n \in Names |-> NoConn]
    /\ claims = [t \in Tasks |-> Free]

-----------------------------------------------------------------------------
\* readLoop.

Goto(c, step) == pc' = [pc EXCEPT ![c] = step]

held == <<locks, subs, claims>>
registry == <<sess, tokens, lastTok, reserved, name, owns>>
teardown == <<cl, peer>>

Accept(c) ==
    /\ pc[c] = "new"
    /\ Goto(c, "reading")
    /\ UNCHANGED <<registry, clean, teardown, held>>

\* Scan returns a request.  It may be one that was buffered before the client
\* or the cleanup closed the connection.
Receive(c) ==
    /\ pc[c] = "reading"
    /\ Goto(c, "handling")
    /\ UNCHANGED <<registry, clean, teardown, held>>

\* Scan returns false: the client is gone or the connection is closed.
Eof(c) ==
    /\ pc[c] = "reading"
    /\ Goto(c, "exit")
    /\ UNCHANGED <<registry, clean, teardown, held>>

\* The response is written; the loop ends after a disconnect or a failed write.
Respond(c) ==
    /\ pc[c] = "encode"
    /\ \/ Goto(c, "exit")
       \/ ~clean[c] /\ Goto(c, "reading")
    /\ UNCHANGED <<registry, clean, teardown, held>>

-----------------------------------------------------------------------------
\* Handlers.  route() refuses all but connect, push.reserve and push.release
\* (and requests that change nothing here) on a connection without a name.

Handling(c) == pc[c] = "handling" /\ Goto(c, "encode")
Named(c) == name[c] # NoName

\* A request that is refused, or that only reads.
NoEffect(c) ==
    /\ Handling(c)
    /\ UNCHANGED <<registry, clean, teardown, held>>

NewToken(b) ==
    /\ lastTok < MaxTokens
    /\ lastTok' = lastTok + 1
    /\ tokens' = [tokens EXCEPT ![b] = lastTok + 1]

\* Mutants: a name that is in use is taken over; one that is being cleaned up.
ConnectTaken(c, n, t) ==
    /\ Handling(c)
    /\ ~Named(c)
    /\ \/ IsPush(n) /\ t # 0 /\ t = tokens[n[1]] /\ UNCHANGED <<tokens, lastTok, owns>>
       \/ ~IsPush(n) /\ tokens[n[1]] # 0 /\ UNCHANGED <<tokens, lastTok, owns>>
       \/ ~IsPush(n) /\ tokens[n[1]] = 0 /\ NewToken(n[1])
          /\ owns' = [owns EXCEPT ![c] = TRUE]
    /\ name' = [name EXCEPT ![c] = n]
    /\ sess' = [sess EXCEPT ![n] = c]
    /\ UNCHANGED <<reserved, clean, teardown, held>>

ConnectTakeover(c, n, t) ==
    /\ sess[n] # NoConn => cl[sess[n]] # "none"
    /\ ConnectTaken(c, n, t)

\* connect.  A push listener shows the token of its base name; a base session
\* is given the token there is, or a new one that it owns.
Connect(c, n, t) ==
    /\ Handling(c)
    /\ ~Named(c)
    /\ sess[n] = NoConn
    /\ \/ /\ IsPush(n)
          /\ t # 0 /\ t = tokens[n[1]]
          /\ UNCHANGED <<tokens, lastTok, owns>>
       \/ /\ ~IsPush(n)
          /\ tokens[n[1]] # 0
          /\ UNCHANGED <<tokens, lastTok, owns>>
       \/ /\ ~IsPush(n)
          /\ tokens[n[1]] = 0
          /\ NewToken(n[1])
          /\ owns' = [owns EXCEPT ![c] = TRUE]
    /\ name' = [name EXCEPT ![c] = n]
    /\ sess' = [sess EXCEPT ![n] = c]
    /\ UNCHANGED <<reserved, clean, teardown, held>>

Disconnect(c) ==
    /\ Handling(c)
    /\ Named(c)
    /\ clean' = [clean EXCEPT ![c] = TRUE]
    /\ UNCHANGED <<registry, teardown, held>>

\* push.reserve: the token there is, or a new one that no session owns.
PushReserve(c, b) ==
    /\ Handling(c)
    /\ tokens[b] = 0
    /\ NewToken(b)
    /\ reserved' = reserved \cup {lastTok + 1}
    /\ UNCHANGED <<sess, name, owns, clean, teardown, held>>

\* Mutant: the base session goes on owning a token that is gone.
PushReleaseKeepsOwner(c, b, t) ==
    /\ Handling(c)
    /\ t # 0 /\ t = tokens[b]
    /\ tokens' = [tokens EXCEPT ![b] = 0]
    /\ UNCHANGED <<sess, lastTok, reserved, name, owns, clean, teardown, held>>

\* push.release, by anyone who knows the token.
PushRelease(c, b, t) ==
    /\ Handling(c)
    /\ t # 0 /\ t = tokens[b]
    /\ tokens' = [tokens EXCEPT ![b] = 0]
    /\ owns' = [d \in Conns |-> owns[d] /\ sess[<<b, "base">>] # d]
    /\ UNCHANGED <<sess, lastTok, reserved, name, clean, teardown, held>>

\* lock: granted when the resource is free or already this name's.
Lock(c, r) ==
    /\ Handling(c)
    /\ Named(c)
    /\ locks[r].owner \in {NoName, name[c]}
    /\ locks' = [locks EXCEPT ![r] = Grant(c)]
    /\ UNCHANGED <<registry, clean, teardown, subs, claims>>

Unlock(c, r) ==
    /\ Handling(c)
    /\ Named(c)
    /\ locks[r].owner = name[c]
    /\ locks' = [locks EXCEPT ![r] = Free]
    /\ UNCHANGED <<registry, clean, teardown, subs, claims>>

\* subscribe: the map entry of (topic, name) is overwritten.
Subscribe(c) ==
    /\ Handling(c)
    /\ Named(c)
    /\ subs' = [subs EXCEPT ![name[c]] = c]
    /\ UNCHANGED <<registry, clean, teardown, locks, claims>>

\* task.claim, as one step: TaskStore has its statements.
Claim(c, t) ==
    /\ Handling(c)
    /\ Named(c)
    /\ claims[t] = Free
    /\ claims' = [claims EXCEPT ![t] = Grant(c)]
    /\ UNCHANGED <<registry, clean, teardown, locks, subs>>

\* The claim ends otherwise: completed, failed, canceled or its lease over.
ClaimOver(t) ==
    /\ claims[t] # Free
    /\ claims' = [claims EXCEPT ![t] = Free]
    /\ UNCHANGED <<registry, clean, pc, teardown, locks, subs>>

-----------------------------------------------------------------------------
\* cleanup: readLoop defers it, and so does the goroutine of a base session
\* for its push listener.  Once.Do returns when the one run has ended.

Stage(c, from, to) == cl[c] = from /\ cl' = [cl EXCEPT ![c] = to]

FirstStage(c) == IF Named(c) THEN "locks" ELSE "close"

CleanupStart(c) ==
    /\ pc[c] = "exit"
    /\ Stage(c, "none", FirstStage(c))
    /\ UNCHANGED <<registry, clean, pc, peer, held>>

CleanupReturn(c) ==
    /\ pc[c] = "exit"
    /\ cl[c] = "done"
    /\ Goto(c, "gone")
    /\ UNCHANGED <<registry, clean, teardown, held>>

\* Mutant: the locks are left.
ReleaseAllSkipped(c) ==
    /\ Stage(c, "locks", "claims")
    /\ UNCHANGED <<registry, clean, pc, peer, held>>

ReleaseAll(c) ==
    /\ Stage(c, "locks", "claims")
    /\ locks' = [r \in Resources |->
                    IF locks[r].owner = name[c] THEN Free ELSE locks[r]]
    /\ UNCHANGED <<registry, clean, pc, peer, subs, claims>>

\* RequeueByOwner, unless the client sent disconnect.
Requeue(c) ==
    /\ Stage(c, "claims", "subs")
    /\ claims' = [t \in Tasks |->
                    IF ~clean[c] /\ claims[t].owner = name[c] THEN Free ELSE claims[t]]
    /\ UNCHANGED <<registry, clean, pc, peer, locks, subs>>

UnsubscribeAll(c) ==
    /\ Stage(c, "subs", "unmap")
    /\ subs' = [subs EXCEPT ![name[c]] = NoConn]
    /\ UNCHANGED <<registry, clean, pc, peer, locks, claims>>

\* Mutant: the push listener is forgotten.
UnmapNoPeer(c) ==
    /\ Stage(c, "unmap", "close")
    /\ sess' = [sess EXCEPT ![name[c]] = NoConn]
    /\ tokens' = IF owns[c] THEN [tokens EXCEPT ![name[c][1]] = 0] ELSE tokens
    /\ UNCHANGED <<lastTok, reserved, name, owns, clean, pc, peer, held>>

\* Under broker.mu: the name is given up; a base session that owns the token
\* deletes it and looks up its push listener.
Unmap(c) ==
    LET n == name[c]
        mine == sess[n] = c
        last == mine /\ ~IsPush(n) /\ owns[c]
        p == IF last THEN sess[Listener(n)] ELSE NoConn
    IN /\ Stage(c, "unmap", IF p = NoConn THEN "close" ELSE "flag")
       /\ sess' = IF mine THEN [sess EXCEPT ![n] = NoConn] ELSE sess
       /\ tokens' = IF last THEN [tokens EXCEPT ![n[1]] = 0] ELSE tokens
       /\ peer' = [peer EXCEPT ![c] = p]
       /\ UNCHANGED <<lastTok, reserved, name, owns, clean, pc, held>>

PeerFlag(c) ==
    /\ Stage(c, "flag", "start")
    /\ clean' = [clean EXCEPT ![peer[c]] = TRUE]
    /\ UNCHANGED <<registry, pc, peer, held>>

\* Mutant: a cleanup that the listener has begun itself is not waited for but
\* for ever.
PeerStartFresh(c) ==
    /\ cl[c] = "start"
    /\ cl[peer[c]] = "none"
    /\ cl' = [cl EXCEPT ![c] = "wait", ![peer[c]] = FirstStage(peer[c])]
    /\ UNCHANGED <<registry, clean, pc, peer, held>>

PeerStart(c) ==
    /\ cl[c] = "start"
    /\ LET p == peer[c] IN
         cl' = [cl EXCEPT ![c] = "wait",
                          ![p] = IF @ = "none" THEN FirstStage(p) ELSE @]
    /\ UNCHANGED <<registry, clean, pc, peer, held>>

PeerDone(c) ==
    /\ Stage(c, "wait", "close")
    /\ cl[peer[c]] = "done"
    /\ UNCHANGED <<registry, clean, pc, peer, held>>

Close(c) ==
    /\ Stage(c, "close", "done")
    /\ UNCHANGED <<registry, clean, pc, peer, held>>

-----------------------------------------------------------------------------
Handler(c) ==
    \/ NoEffect(c)
    \/ \E n \in Names, t \in 0..MaxTokens : Connect(c, n, t)
    \/ Disconnect(c)
    \/ \E b \in Bases : PushReserve(c, b)
    \/ \E b \in Bases, t \in 1..MaxTokens : PushRelease(c, b, t)
    \/ \E r \in Resources : Lock(c, r) \/ Unlock(c, r)
    \/ Subscribe(c)
    \/ \E t \in Tasks : Claim(c, t)

Cleanup(c) ==
    \/ CleanupStart(c) \/ CleanupReturn(c)
    \/ ReleaseAll(c) \/ Requeue(c) \/ UnsubscribeAll(c) \/ Unmap(c)
    \/ PeerFlag(c) \/ PeerStart(c) \/ PeerDone(c) \/ Close(c)

\* What the broker does by itself, once it has a request or no connection.
ClosedEof(c) == cl[c] = "done" /\ Eof(c)
Progress(c) == Handler(c) \/ Respond(c) \/ ClosedEof(c)

Next ==
    \/ \E c \in Conns : Accept(c) \/ Receive(c) \/ Eof(c) \/ Respond(c)
                        \/ Handler(c) \/ Cleanup(c)
    \/ \E t \in Tasks : ClaimOver(t)

Spec == Init /\ [][Next]_vars

\* Goroutines run: a handler returns, its response is written or fails, the
\* read on a closed connection fails, a cleanup that started goes on.
FairSpec == Spec /\ \A c \in Conns : WF_vars(Progress(c)) /\ WF_vars(Cleanup(c))

-----------------------------------------------------------------------------
\* Properties.

Steps == {"new", "reading", "handling", "encode", "exit", "gone"}
Stages == {"none", "locks", "claims", "subs", "unmap", "flag", "start", "wait",
           "close", "done"}
Grants == [owner: Names, by: Conns] \cup {Free}

\* The shape of the state: whoever holds a lock or a claim has a name.
TypeOK ==
    /\ sess \in [Names -> Conns \cup {NoConn}]
    /\ tokens \in [Bases -> Nat] /\ lastTok \in Nat /\ reserved \subseteq Nat
    /\ name \in [Conns -> Names \cup {NoName}]
    /\ clean \in [Conns -> BOOLEAN] /\ owns \in [Conns -> BOOLEAN]
    /\ pc \in [Conns -> Steps] /\ cl \in [Conns -> Stages]
    /\ peer \in [Conns -> Conns \cup {NoConn}]
    /\ locks \in [Resources -> Grants] /\ claims \in [Tasks -> Grants]
    /\ subs \in [Names -> Conns \cup {NoConn}]

\* A session that has its name and has not yet given it up.
Registered(c) ==
    Named(c) /\ cl[c] \in {"none", "locks", "claims", "subs", "unmap"}

\* broker.sessions maps a name to the one session that has it, from connect to
\* the last stage of its cleanup: the guard in doCleanup against deleting a
\* successor's entry never fails.
NameHeld ==
    /\ \A c \in Conns : Registered(c) => sess[name[c]] = c
    /\ \A n \in Names : sess[n] # NoConn =>
          Registered(sess[n]) /\ name[sess[n]] = n

\* A lock or a subscription under a base name is that of the session that has
\* the name now: nothing outlives its session, nothing passes to a successor.
BaseHoldsLive ==
    /\ \A r \in Resources : LET l == locks[r] IN
          l # Free /\ ~IsPush(l.owner) => sess[l.owner] = l.by
    /\ \A n \in Names : subs[n] # NoConn /\ ~IsPush(n) => sess[n] = subs[n]

\* What a connected base session was granted is taken away by its own requests
\* only (a claim also when it ends): never by the cleanup of an earlier session
\* with the same name, nor by anything its push listener does.
Own(c) == pc[c] = "handling" /\ pc'[c] = "encode"
Connected(c) == Named(c) /\ ~IsPush(name[c]) /\ cl[c] = "none"

HoldsUndisturbed ==
    [][\A c \in Conns : Connected(c) =>
          /\ \A r \in Resources :
                locks[r].by = c /\ locks'[r].by # c => Own(c)
          /\ \A n \in Names : subs[n] = c /\ subs'[n] # c => Own(c)
          /\ \A t \in Tasks : claims[t].by = c /\ claims'[t].by # c =>
                cl' = cl /\ pc' = pc]_vars

\* router.go: "ordinary base-agent CLI connects must not take ownership of
\* those tokens".  A session that owns a push token owns the current one, and
\* never one that push.reserve made.
OwnerHasToken ==
    \A c \in Conns : Registered(c) /\ owns[c] =>
        tokens[name[c][1]] \notin reserved \cup {0}

\* A connection that ends is cleaned up to the end: a base session and its
\* push listener that end at the same time never wait for each other.
CleanupEnds == \A c \in Conns : pc[c] = "exit" ~> pc[c] = "gone"

\* When a base session that owns the push token ends, the push listener that is
\* connected then goes too, unless the token is released first.
ListenerFollows ==
    \A c, p \in Conns, b \in Bases :
        (pc[c] = "exit" /\ cl[c] = "none" /\ name[c] = <<b, "base">> /\ owns[c]
            /\ sess[<<b, "push">>] = p)
        ~> (sess[<<b, "push">>] # p \/ ~owns[c])

=============================================================================
