--------------------------- MODULE SchemaRefresh ---------------------------
(***************************************************************************)
(* The schema cache (schema_cache.rs) and the background task that fills   *)
(* it.  Every connection of the session gets one task, which shares the    *)
(* client with it:                                                         *)
(*                                                                         *)
(*     spawned -> asked -> answered -> stored   (or failed -> gave_up)     *)
(*                                                                         *)
(* Its catalog query is one more request on the user's backend, served in  *)
(* the order the requests were sent.  A client is dropped when neither the *)
(* pool nor the task holds it, and the connection ends once the requests   *)
(* already sent are answered; so an old connection, with whatever          *)
(* transaction the user left open on it, outlives the \c that replaced it. *)
(*                                                                         *)
(* The user's side is that of ReplSession with a statement to a line; the  *)
(* status query of the prompt is here one more statement, and the liveness *)
(* probe is a single step.  Each connection stands for the database it     *)
(* leads to.                                                               *)
(***************************************************************************)
EXTENDS Naturals, Sequences

CONSTANTS
    MaxConnections, \* bound on the connections of one session
    MaxQueue        \* bound on the requests on their way to one backend

ASSUME RefreshAssumption ==
    /\ MaxConnections \in Nat \ {0} /\ MaxQueue \in Nat

Conns == 1..MaxConnections

VARIABLES
    current,   \* the connection the pool holds
    link,      \* "unused", "up", "lost", or, once its client is dropped,
               \* "closing" and "closed"
    queue,     \* requests a backend has not answered: of the "task", of the
               \* "user", or of "nobody" who still waits
    task,      \* the refresh of each connection
    cache,     \* the connection whose names the cache holds, or 0
    user,      \* prompt, waiting for an answer, or check after an error
    cancels    \* backends a cancel request is on its way to

backends == <<link, queue>>
vars == <<current, backends, task, cache, user, cancels>>

\* run_repl: connected, and the first refresh spawned.
Init ==
    /\ current = 1
    /\ link = [c \in Conns |-> IF c = 1 THEN "up" ELSE "unused"]
    /\ queue = [c \in Conns |-> <<>>]
    /\ task = [c \in Conns |-> IF c = 1 THEN "spawned" ELSE "none"]
    /\ cache = 0 /\ user = "prompt" /\ cancels = {}

----------------------------------------------------------------------------
(* The task. *)

HoldsClient(c) == task[c] \in {"spawned", "asked", "answered", "failed"}

\* Mutant: the task keeps its handle to the client.
ReleaseNever(c) == UNCHANGED link

\* The task drops its handle: the last one if the pool has another client.
Release(c) ==
    link' = [link EXCEPT ![c] = IF c # current /\ @ = "up" THEN "closing" ELSE @]

TaskAsks(c) ==
    /\ task[c] = "spawned" /\ link[c] = "up" /\ Len(queue[c]) < MaxQueue
    /\ queue' = [queue EXCEPT ![c] = Append(@, "task")]
    /\ task' = [task EXCEPT ![c] = "asked"]
    /\ UNCHANGED <<current, link, cache, user, cancels>>

\* The lists are replaced together, under the write lock.
TaskStores(c) ==
    /\ task[c] = "answered"
    /\ cache' = c
    /\ task' = [task EXCEPT ![c] = "stored"]
    /\ Release(c)
    /\ UNCHANGED <<current, queue, user, cancels>>

\* A refresh that failed is logged; the cache stays as it is.
TaskFails(c) ==
    /\ \/ task[c] = "failed"
       \/ task[c] = "spawned" /\ link[c] = "lost"
    /\ task' = [task EXCEPT ![c] = "gave_up"]
    /\ Release(c)
    /\ UNCHANGED <<current, queue, cache, user, cancels>>

----------------------------------------------------------------------------
(* The session. *)

RunSql ==
    /\ user = "prompt"
    /\ IF link[current] = "up"
       THEN /\ Len(queue[current]) < MaxQueue
            /\ queue' = [queue EXCEPT ![current] = Append(@, "user")]
            /\ user' = "waiting"
       ELSE user' = "check" /\ UNCHANGED queue
    /\ UNCHANGED <<current, link, task, cache, cancels>>

NobodyWaits(q) == [i \in DOMAIN q |-> IF q[i] = "user" THEN "nobody" ELSE q[i]]

\* Mutant: the answer to the statement is still expected.
InterruptKeepsWaiting ==
    /\ user = "waiting" /\ user' = "prompt"
    /\ cancels' \in {cancels, cancels \cup {current}}
    /\ UNCHANGED <<current, backends, task, cache>>

\* Ctrl-C: nobody waits for the statement any more; a request to cancel
\* whatever its backend is doing goes out, or is lost.
Interrupt ==
    /\ user = "waiting" /\ user' = "prompt"
    /\ queue' = [queue EXCEPT ![current] = NobodyWaits(@)]
    /\ cancels' \in {cancels, cancels \cup {current}}
    /\ UNCHANGED <<current, link, task, cache>>

\* Mutant: the pool closes the client it gives up, whoever else holds it.
ReplaceCloses ==
    /\ current < MaxConnections
    /\ LET new == current + 1
       IN  /\ current' = new
           /\ link' = [link EXCEPT ![new] = "up",
                                   ![current] = IF @ = "up" THEN "closing" ELSE @]
           /\ task' = [task EXCEPT ![new] = "spawned"]
    /\ UNCHANGED <<queue, cache, cancels>>

\* The pool replaces its client and a refresh is spawned for the new one; the
\* old client is dropped unless its task still holds it.
Replace ==
    /\ current < MaxConnections
    /\ LET new == current + 1
           dropped == ~HoldsClient(current) /\ link[current] = "up"
       IN  /\ current' = new
           /\ link' = [link EXCEPT ![new] = "up",
                                   ![current] = IF dropped THEN "closing" ELSE @]
           /\ task' = [task EXCEPT ![new] = "spawned"]
    /\ UNCHANGED <<queue, cache, cancels>>

\* \c and \reconnect, when they succeed.
ReconnectTo == user = "prompt" /\ Replace /\ UNCHANGED user

\* After an error: the liveness probe, and the automatic reconnect.
AutoReconnect ==
    /\ user = "check" /\ user' = "prompt"
    /\ \/ link[current] = "lost" /\ Replace
       \/ UNCHANGED <<current, backends, task, cache, cancels>>

----------------------------------------------------------------------------
(* The backends and the network. *)

\* The request at the head of the queue ends, and whoever waits is told; the
\* session answers a failure with failure.
Ends(c, ok, failure) ==
    LET by == Head(queue[c])
    IN  /\ queue' = [queue EXCEPT ![c] = Tail(@)]
        /\ task' = IF by = "task" THEN [task EXCEPT ![c] = IF ok THEN "answered" ELSE "failed"]
                                  ELSE task
        /\ user' = IF by = "user" THEN IF ok THEN "prompt" ELSE failure ELSE user

Serve(c) ==
    /\ queue[c] # <<>>
    /\ \E ok \in BOOLEAN : Ends(c, ok, "check")
    /\ UNCHANGED <<current, link, cache, cancels>>

\* The backend is told to stop what it is doing, whoever asked for it; to the
\* session that is no reason to probe the connection.
CancelArrives(c) ==
    /\ c \in cancels /\ cancels' = cancels \ {c}
    /\ IF queue[c] # <<>> THEN Ends(c, FALSE, "prompt") ELSE UNCHANGED <<queue, task, user>>
    /\ UNCHANGED <<current, link, cache>>

\* A cancel request that is still on its way finds no backend any more.
ConnectionLost(c) ==
    /\ link[c] \in {"up", "closing"} /\ link' = [link EXCEPT ![c] = "lost"]
    /\ queue' = [queue EXCEPT ![c] = <<>>]
    /\ task' = IF task[c] = "asked" THEN [task EXCEPT ![c] = "failed"] ELSE task
    /\ user' = IF c = current /\ user = "waiting" THEN "check" ELSE user
    /\ cancels' = cancels \ {c}
    /\ UNCHANGED <<current, cache>>

\* A connection without a client ends when nothing is left to answer.
Terminate(c) ==
    /\ link[c] = "closing" /\ queue[c] = <<>>
    /\ link' = [link EXCEPT ![c] = "closed"]
    /\ cancels' = cancels \ {c}
    /\ UNCHANGED <<current, queue, task, cache, user>>

----------------------------------------------------------------------------
Task(c) == TaskAsks(c) \/ TaskStores(c) \/ TaskFails(c)

Network(c) == Serve(c) \/ CancelArrives(c) \/ ConnectionLost(c) \/ Terminate(c)

Next ==
    \/ RunSql \/ Interrupt \/ ReconnectTo \/ AutoReconnect
    \/ \E c \in Conns : Task(c) \/ Network(c)

Spec == Init /\ [][Next]_vars

\* The runtime runs every task, and statements end.
FairSpec ==
    /\ Spec
    /\ \A c \in Conns : WF_vars(Task(c)) /\ WF_vars(Serve(c)) /\ WF_vars(Terminate(c))

----------------------------------------------------------------------------
(* Properties. *)

SessionTypes ==
    /\ current \in Conns /\ cache \in 0..MaxConnections
    /\ user \in {"prompt", "waiting", "check"}
    /\ cancels \subseteq Conns

ConnectionTypes ==
    /\ link \in [Conns -> {"unused", "up", "lost", "closing", "closed"}]
    /\ task \in [Conns -> {"none", "spawned", "asked", "answered", "failed",
                          "stored", "gave_up"}]

QueueType == queue \in [Conns -> Seq({"task", "user", "nobody"})]

TypeOK == SessionTypes /\ ConnectionTypes /\ QueueType

Once(q, who) == \E i \in DOMAIN q : \A j \in DOMAIN q : q[j] = who <=> j = i
Never(q, who) == \A i \in DOMAIN q : q[i] # who

\* No answer goes astray: the refresh of a connection waits for exactly the
\* request it made there, and the user for the one statement last typed, through
\* interrupts, cancels that hit the wrong request and lost connections.
RefreshIsServed ==
    \A c \in Conns : IF task[c] = "asked" THEN Once(queue[c], "task") ELSE Never(queue[c], "task")

UserIsServed ==
    \A c \in Conns : IF c = current /\ user = "waiting" THEN Once(queue[c], "user")
                                                      ELSE Never(queue[c], "user")

EveryWaiterIsServed == RefreshIsServed /\ UserIsServed

\* "tasks that still hold the old one finish on it": a replaced connection is
\* not closed under its refresh, and stays open no longer than that holds it, with
\* whatever block the user left open there.
OldConnectionsAreHeld ==
    \A c \in Conns : /\ HoldsClient(c) => link[c] \in {"up", "lost"}
                     /\ c < current /\ link[c] = "up" => HoldsClient(c)

\* Completion offers the names of the session's connection from the moment its
\* refresh got through. This does not hold: a refresh from before \c that ends
\* late puts the old names over the new ones, and nothing compares the two.
CacheFollows == task[current] = "stored" => cache = current

\* Why: nothing has been started or sent on a connection to come, and the one in
\* use is not closed.
NoneToCome == \A c \in Conns : c > current => task[c] = "none"
Unused == \A c \in Conns : c > current => queue[c] = <<>>
CurrentIsOpen == link[current] \in {"up", "lost"}

IInv ==
    /\ TypeOK /\ NoneToCome /\ Unused
    /\ RefreshIsServed /\ UserIsServed
    /\ CurrentIsOpen /\ OldConnectionsAreHeld

\* And then the old connection ends, with the transaction left open on it.
OldConnectionsClose ==
    \A c \in Conns : (c < current) ~> (link[c] \in {"lost", "closed"})
=============================================================================
