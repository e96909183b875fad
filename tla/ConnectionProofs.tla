-------------------------- MODULE ConnectionProofs --------------------------
(***************************************************************************)
(* What holds of a session's connections: of SchemaRefresh, for any number *)
(* of connections and any load on their backends, the types, who waits for *)
(* what and how long a replaced connection is kept; of ConnectionPool, for *)
(* every number of retries, every set of databases and every behaviour of  *)
(* the servers, how a connect ends; and of MCConnections, where the two    *)
(* stand next to each other.                                               *)
(***************************************************************************)
EXTENDS MCConnections, TLAPS

Requests == {"task", "user", "nobody"}

----------------------------------------------------------------------------
(* Type correctness. *)

\* What a queue holds stays a request when one is appended, when the head is
\* served, and when nobody waits for the user's any more.
LEMMA QueueOperations ==
    ASSUME NEW q \in Seq(Requests)
    PROVE  /\ \A r \in Requests : Append(q, r) \in Seq(Requests)
           /\ q # <<>> => Head(q) \in Requests /\ Tail(q) \in Seq(Requests)
           /\ NobodyWaits(q) \in Seq(Requests)
<1>1. \A r \in Requests : Append(q, r) \in Seq(Requests)
    OBVIOUS
<1>2. q # <<>> => Head(q) \in Requests /\ Tail(q) \in Seq(Requests)
    OBVIOUS
<1>3. NobodyWaits(q) \in Seq(Requests)
    <2>1. Len(q) \in Nat /\ DOMAIN q = 1..Len(q) /\ \A i \in 1..Len(q) : q[i] \in Requests
        OBVIOUS
    <2>2. NobodyWaits(q) \in [1..Len(q) -> Requests]
        BY <2>1 DEF NobodyWaits, Requests
    <2> QED
        BY <2>1, <2>2
<1> QED
    BY <1>1, <1>2, <1>3

LEMMA InitTypes == Init => TypeOK
<1> SUFFICES ASSUME Init PROVE TypeOK
    OBVIOUS
<1>1. 1 \in Conns
    BY RefreshAssumption DEF Conns
<1>2. SessionTypes /\ ConnectionTypes
    BY <1>1, RefreshAssumption DEF Init, SessionTypes, ConnectionTypes
<1>3. QueueType
    BY DEF Init, QueueType
<1> QED
    BY <1>2, <1>3 DEF TypeOK

LEMMA NextSessionTypes == SessionTypes /\ [Next]_vars => SessionTypes'
<1> SUFFICES ASSUME SessionTypes, [Next]_vars PROVE SessionTypes'
    OBVIOUS
<1> USE DEF SessionTypes
<1>1. CASE RunSql \/ Interrupt
    BY <1>1 DEF RunSql, Interrupt
<1>2. CASE ReconnectTo \/ AutoReconnect
    <2>1. Replace => current' \in Conns /\ cache' = cache /\ cancels' = cancels
        <3>1. Replace => current < MaxConnections /\ current' = current + 1
            BY DEF Replace
        <3>2. Replace => current' \in Conns
            BY <3>1, RefreshAssumption DEF Conns
        <3> QED
            BY <3>2 DEF Replace
    <2> QED
        BY <1>2, <2>1 DEF ReconnectTo, AutoReconnect
<1>3. ASSUME NEW c \in Conns, Task(c) PROVE SessionTypes'
    <2>1. c \in 0..MaxConnections
        BY RefreshAssumption DEF Conns
    <2> QED
        BY <1>3, <2>1 DEF Task, TaskAsks, TaskStores, TaskFails
<1>4. ASSUME NEW c \in Conns, Network(c) PROVE SessionTypes'
    BY <1>4 DEF Network, Serve, CancelArrives, Ends, ConnectionLost, Terminate
<1>5. CASE UNCHANGED vars
    BY <1>5 DEF vars
<1> QED
    BY <1>1, <1>2, <1>3, <1>4, <1>5 DEF Next

LEMMA NextConnectionTypes == ConnectionTypes /\ [Next]_vars => ConnectionTypes'
<1> SUFFICES ASSUME ConnectionTypes, [Next]_vars PROVE ConnectionTypes'
    OBVIOUS
<1> USE DEF ConnectionTypes
<1>1. CASE RunSql \/ Interrupt
    BY <1>1 DEF RunSql, Interrupt
<1>2. CASE ReconnectTo \/ AutoReconnect
    BY <1>2 DEF ReconnectTo, AutoReconnect, Replace, backends
<1>3. ASSUME NEW c \in Conns, Task(c) PROVE ConnectionTypes'
    BY <1>3 DEF Task, TaskAsks, TaskStores, TaskFails, Release
<1>4. ASSUME NEW c \in Conns, Network(c) PROVE ConnectionTypes'
    <2>1. CASE Serve(c) \/ CancelArrives(c)
        BY <2>1 DEF Serve, CancelArrives, Ends
    <2>2. CASE ConnectionLost(c)
        BY <2>2 DEF ConnectionLost
    <2>3. CASE Terminate(c)
        BY <2>3 DEF Terminate
    <2> QED
        BY <1>4, <2>1, <2>2, <2>3 DEF Network
<1>5. CASE UNCHANGED vars
    BY <1>5 DEF vars, backends
<1> QED
    BY <1>1, <1>2, <1>3, <1>4, <1>5 DEF Next

LEMMA NextQueueType == SessionTypes /\ QueueType /\ [Next]_vars => QueueType'
<1> SUFFICES ASSUME SessionTypes, QueueType, [Next]_vars PROVE QueueType'
    OBVIOUS
<1>1. /\ current \in Conns
      /\ queue \in [Conns -> Seq(Requests)]
    BY DEF SessionTypes, QueueType, Requests
<1>2. ASSUME NEW c \in Conns, NEW q \in Seq(Requests), queue' = [queue EXCEPT ![c] = q]
      PROVE  QueueType'
    BY <1>1, <1>2 DEF QueueType, Requests
<1>3. ASSUME UNCHANGED queue PROVE QueueType'
    BY <1>3 DEF QueueType
<1>4. CASE RunSql
    BY <1>1, <1>2, <1>3, <1>4, QueueOperations DEF RunSql, Requests
<1>5. CASE Interrupt
    BY <1>1, <1>2, <1>5, QueueOperations DEF Interrupt
<1>6. CASE ReconnectTo \/ AutoReconnect
    BY <1>3, <1>6 DEF ReconnectTo, AutoReconnect, Replace, backends
<1>7. ASSUME NEW c \in Conns, Task(c) PROVE QueueType'
    <2>1. CASE TaskAsks(c)
        BY <1>1, <1>2, <2>1, QueueOperations DEF TaskAsks, Requests
    <2> QED
        BY <1>3, <1>7, <2>1 DEF Task, TaskStores, TaskFails
<1>8. ASSUME NEW c \in Conns, Network(c) PROVE QueueType'
    <2>1. CASE Serve(c) \/ CancelArrives(c)
        BY <1>1, <1>2, <1>3, <2>1, QueueOperations DEF Serve, CancelArrives, Ends
    <2>2. CASE ConnectionLost(c)
        <3>1. <<>> \in Seq(Requests)
            OBVIOUS
        <3> QED
            BY <1>2, <2>2, <3>1 DEF ConnectionLost
    <2> QED
        BY <1>3, <1>8, <2>1, <2>2 DEF Network, Terminate
<1>9. CASE UNCHANGED vars
    BY <1>3, <1>9 DEF vars, backends
<1> QED
    BY <1>4, <1>5, <1>6, <1>7, <1>8, <1>9 DEF Next

\* Every variable of the refresh keeps its type, on every connection.
THEOREM TypeCorrect == Spec => []TypeOK
<1>1. TypeOK /\ [Next]_vars => TypeOK'
    BY NextSessionTypes, NextConnectionTypes, NextQueueType DEF TypeOK
<1> QED
    BY InitTypes, <1>1, PTL DEF Spec

----------------------------------------------------------------------------
(* Every waiter is served. *)

\* How the operations on a queue change who waits in it.
LEMMA Waiters ==
    ASSUME NEW q \in Seq(Requests), NEW who \in {"task", "user"}
    PROVE  /\ Never(q, who) => Once(Append(q, who), who)
           /\ \A r \in Requests \ {who} :
                 /\ Never(q, who) => Never(Append(q, r), who)
                 /\ Once(q, who) => Once(Append(q, r), who)
           /\ q # <<>> /\ Never(q, who) => Head(q) # who /\ Never(Tail(q), who)
           /\ q # <<>> /\ Once(q, who) => IF Head(q) = who THEN Never(Tail(q), who)
                                                           ELSE Once(Tail(q), who)
<1>0. DOMAIN q = 1..Len(q)
    OBVIOUS
<1>1. /\ Len(q) \in Nat /\ DOMAIN q = 1..Len(q)
      /\ \A i \in 1..Len(q) : q[i] \in Requests
      /\ who \in Requests
    BY DEF Requests
<1>7. ASSUME NEW r \in Requests
      PROVE  /\ DOMAIN Append(q, r) = 1..(Len(q) + 1)
             /\ \A i \in 1..Len(q) : Append(q, r)[i] = q[i]
             /\ Append(q, r)[Len(q) + 1] = r
    OBVIOUS
<1>2. ASSUME q # <<>>
      PROVE  /\ Len(q) > 0 /\ Head(q) = q[1]
             /\ DOMAIN Tail(q) = 1..(Len(q) - 1)
             /\ \A i \in 1..(Len(q) - 1) : Tail(q)[i] = q[i + 1]
    BY <1>2
<1>3. Never(q, who) => Once(Append(q, who), who)
    <2>1. ASSUME Never(q, who)
          PROVE  \A j \in 1..(Len(q) + 1) : Append(q, who)[j] = who <=> j = Len(q) + 1
        BY <1>1, <1>7, <2>1 DEF Never
    <2>2. DOMAIN Append(q, who) = 1..(Len(q) + 1) /\ Len(q) + 1 \in 1..(Len(q) + 1)
        BY <1>1, <1>7
    <2> QED
        BY <2>1, <2>2 DEF Once
<1>4. ASSUME NEW r \in Requests \ {who}
      PROVE  /\ Never(q, who) => Never(Append(q, r), who)
             /\ Once(q, who) => Once(Append(q, r), who)
    <2>1. Never(q, who) => Never(Append(q, r), who)
        BY <1>1, <1>4, <1>7 DEF Never
    <2>2. ASSUME Once(q, who) PROVE Once(Append(q, r), who)
        <3>1. PICK i \in 1..Len(q) : \A j \in 1..Len(q) : q[j] = who <=> j = i
            BY <1>0, <2>2 DEF Once
        <3>2. \A j \in 1..(Len(q) + 1) : Append(q, r)[j] = who <=> j = i
            BY <1>1, <1>4, <1>7, <3>1
        <3>3. DOMAIN Append(q, r) = 1..(Len(q) + 1) /\ i \in 1..(Len(q) + 1)
            BY <1>1, <1>4, <1>7
        <3> QED
            BY <3>2, <3>3 DEF Once
    <2> QED
        BY <2>1, <2>2
<1>5. q # <<>> /\ Never(q, who) => Head(q) # who /\ Never(Tail(q), who)
    BY <1>1, <1>2 DEF Never
<1>6. ASSUME q # <<>>, Once(q, who)
      PROVE  IF Head(q) = who THEN Never(Tail(q), who) ELSE Once(Tail(q), who)
    <2>0. PICK i \in DOMAIN q : \A j \in DOMAIN q : q[j] = who <=> j = i
        BY <1>6 DEF Once
    <2>1. i \in 1..Len(q) /\ \A j \in 1..Len(q) : q[j] = who <=> j = i
        BY <2>0
    <2>2. ASSUME Head(q) = who PROVE Never(Tail(q), who)
        <3>1. 1 = i
            BY <1>1, <1>2, <1>6, <2>1, <2>2
        <3>2. \A j \in 1..(Len(q) - 1) : j + 1 \in 1..Len(q) /\ j + 1 # i
            BY <1>1, <3>1
        <3>3. \A j \in 1..(Len(q) - 1) : q[j + 1] # who
            BY <2>1, <3>2
        <3> QED
            BY <1>2, <1>6, <3>3 DEF Never
    <2>3. ASSUME Head(q) # who PROVE Once(Tail(q), who)
        <3>1. i - 1 \in 1..(Len(q) - 1)
            BY <1>1, <1>2, <1>6, <2>1, <2>3
        <3>2. \A j \in 1..(Len(q) - 1) : Tail(q)[j] = who <=> j = i - 1
            <4>1. ASSUME NEW j \in 1..(Len(q) - 1) PROVE q[j + 1] = who <=> j = i - 1
                <5>1. j + 1 \in 1..Len(q) /\ (j + 1 = i <=> j = i - 1)
                    BY <1>1
                <5> QED
                    BY <2>1, <5>1
            <4> QED
                BY <1>2, <1>6, <4>1
        <3> QED
            <4>1. DOMAIN Tail(q) = 1..(Len(q) - 1)
                BY <1>2, <1>6
            <4>2. PICK k \in 1..(Len(q) - 1) : k = i - 1
                BY <3>1
            <4>3. \A j \in DOMAIN Tail(q) : Tail(q)[j] = who <=> j = k
                BY <3>2, <4>1, <4>2
            <4>4. k \in DOMAIN Tail(q)
                BY <4>1
            <4> QED
                BY <4>3, <4>4 DEF Once
    <2> QED
        BY <2>2, <2>3
<1> QED
    BY <1>3, <1>4, <1>5, <1>6

\* Ctrl-C takes the user out of the queue and leaves the refresh in it.
LEMMA InterruptedQueue ==
    ASSUME NEW q \in Seq(Requests)
    PROVE  /\ Never(NobodyWaits(q), "user")
           /\ Never(q, "task") => Never(NobodyWaits(q), "task")
           /\ Once(q, "task") => Once(NobodyWaits(q), "task")
<1>1. /\ DOMAIN NobodyWaits(q) = DOMAIN q
      /\ \A i \in DOMAIN q : NobodyWaits(q)[i] = IF q[i] = "user" THEN "nobody" ELSE q[i]
    BY DEF NobodyWaits
<1> QED
    BY <1>1 DEF Never, Once

LEMMA EmptyQueue == \A who : Never(<<>>, who)
BY DEF Never

LEMMA NextNoneToCome == TypeOK /\ NoneToCome /\ Unused /\ [Next]_vars => NoneToCome'
<1> SUFFICES ASSUME TypeOK, NoneToCome, Unused, [Next]_vars PROVE NoneToCome'
    OBVIOUS
<1> USE DEF TypeOK, SessionTypes, ConnectionTypes, NoneToCome
<1>1. CASE RunSql \/ Interrupt
    BY <1>1 DEF RunSql, Interrupt
<1>2. CASE ReconnectTo \/ AutoReconnect
    BY <1>2, RefreshAssumption DEF ReconnectTo, AutoReconnect, Replace, backends, Conns
<1>3. ASSUME NEW c \in Conns, Task(c) PROVE NoneToCome'
    BY <1>3 DEF Task, TaskAsks, TaskStores, TaskFails
<1>4. ASSUME NEW c \in Conns, Network(c) PROVE NoneToCome'
    <2>1. CASE Serve(c) \/ CancelArrives(c)
        <3>1. ASSUME NEW d \in Conns, d > current PROVE task'[d] = task[d]
            <4>1. queue[d] = <<>> /\ task[d] = "none"
                BY <3>1 DEF Unused
            <4> QED
                BY <2>1, <4>1 DEF Serve, CancelArrives, Ends
        <3> QED
            BY <2>1, <3>1 DEF Serve, CancelArrives
    <2>2. CASE ConnectionLost(c) \/ Terminate(c)
        BY <2>2 DEF ConnectionLost, Terminate
    <2> QED
        BY <1>4, <2>1, <2>2 DEF Network
<1>5. CASE UNCHANGED vars
    BY <1>5 DEF vars
<1> QED
    BY <1>1, <1>2, <1>3, <1>4, <1>5 DEF Next

LEMMA NextUnused == TypeOK /\ NoneToCome /\ Unused /\ [Next]_vars => Unused'
<1> SUFFICES ASSUME TypeOK, NoneToCome, Unused, [Next]_vars, NEW d \in Conns, d > current'
             PROVE  queue'[d] = <<>>
    BY DEF Unused
<1> USE DEF TypeOK, SessionTypes, QueueType
<1>0. queue \in [Conns -> Seq(Requests)] /\ current \in Conns
    BY DEF Requests
<1>1. current' \in {current, current + 1}
    BY DEF Next, RunSql, Interrupt, ReconnectTo, AutoReconnect, Replace, Task, TaskAsks,
           TaskStores, TaskFails, Network, Serve, CancelArrives, ConnectionLost, Terminate, vars
<1>2. d > current /\ d # current /\ queue[d] = <<>>
    BY <1>0, <1>1, RefreshAssumption DEF Unused, Conns
<1> QED
    <2>1. CASE RunSql \/ Interrupt
        BY <1>0, <1>2, <2>1 DEF RunSql, Interrupt
    <2>2. CASE ReconnectTo \/ AutoReconnect
        BY <1>2, <2>2 DEF ReconnectTo, AutoReconnect, Replace, backends
    <2>3. ASSUME NEW c \in Conns, Task(c) PROVE queue'[d] = <<>>
        <3>1. CASE TaskAsks(c)
            <4>1. current' = current
                BY <3>1 DEF TaskAsks
            <4>2. task[d] # "spawned"
                BY <1>2 DEF NoneToCome
            <4> QED
                BY <1>0, <1>2, <3>1, <4>2 DEF TaskAsks
        <3> QED
            BY <1>2, <2>3, <3>1 DEF Task, TaskStores, TaskFails
    <2>4. ASSUME NEW c \in Conns, Network(c) PROVE queue'[d] = <<>>
        BY <1>0, <1>2, <2>4 DEF Network, Serve, CancelArrives, Ends, ConnectionLost, Terminate
    <2>5. CASE UNCHANGED vars
        BY <1>2, <2>5 DEF vars, backends
    <2> QED
        BY <2>1, <2>2, <2>3, <2>4, <2>5 DEF Next

LEMMA NextRefreshIsServed ==
    TypeOK /\ RefreshIsServed /\ Unused /\ [Next]_vars => RefreshIsServed'
<1> SUFFICES ASSUME TypeOK, RefreshIsServed, Unused, [Next]_vars, NEW d \in Conns
             PROVE  IF task'[d] = "asked" THEN Once(queue'[d], "task")
                                          ELSE Never(queue'[d], "task")
    BY DEF RefreshIsServed
<1> DEFINE Served == IF task'[d] = "asked" THEN Once(queue'[d], "task")
                                           ELSE Never(queue'[d], "task")
<1>0. /\ IF task[d] = "asked" THEN Once(queue[d], "task") ELSE Never(queue[d], "task")
      /\ queue[d] \in Seq(Requests) /\ "task" \in {"task", "user"}
      /\ "user" \in Requests \ {"task"}
      /\ queue \in [Conns -> Seq(Requests)] /\ current \in Conns
      /\ DOMAIN task = Conns
    BY DEF RefreshIsServed, TypeOK, QueueType, SessionTypes, ConnectionTypes, Requests
<1>1. ASSUME task'[d] = task[d], queue'[d] = queue[d] PROVE Served
    BY <1>0, <1>1
<1>2. CASE RunSql
    BY <1>0, <1>2, Waiters DEF RunSql
<1>3. CASE Interrupt
    BY <1>0, <1>3, InterruptedQueue DEF Interrupt
<1>4. CASE ReconnectTo \/ AutoReconnect
    <2>1. CASE Replace
        <3>1. queue' = queue /\ task' = [task EXCEPT ![current + 1] = "spawned"]
            BY <2>1 DEF Replace
        <3>2. CASE d = current + 1
            <4>1. Never(queue'[d], "task")
                <5>1. d > current
                    BY <1>0, <3>2, RefreshAssumption DEF Conns
                <5> QED
                    BY <3>1, <5>1, EmptyQueue DEF Unused
            <4> QED
                BY <1>0, <3>1, <3>2, <4>1
        <3> QED
            BY <1>0, <1>1, <3>1, <3>2
    <2> QED
        BY <1>1, <1>4, <2>1 DEF ReconnectTo, AutoReconnect, backends
<1>5. ASSUME NEW c \in Conns, Task(c) PROVE Served
    <2>1. CASE c # d
        BY <1>0, <1>1, <1>5, <2>1 DEF Task, TaskAsks, TaskStores, TaskFails
    <2>2. CASE c = d /\ TaskAsks(c)
        BY <1>0, <2>2, Waiters DEF TaskAsks
    <2>3. CASE c = d /\ (TaskStores(c) \/ TaskFails(c))
        BY <1>0, <2>3 DEF TaskStores, TaskFails
    <2> QED
        BY <1>5, <2>1, <2>2, <2>3 DEF Task
<1>6. ASSUME NEW c \in Conns, Serve(c) \/ CancelArrives(c) PROVE Served
    <2>1. CASE c # d
        BY <1>0, <1>1, <1>6, <2>1 DEF Serve, CancelArrives, Ends
    <2>2. CASE c = d /\ queue[c] # <<>>
        <3>1. queue'[d] = Tail(queue[d])
            BY <1>0, <1>6, <2>2 DEF Serve, CancelArrives, Ends
        <3>2. IF Head(queue[d]) = "task" THEN task'[d] # "asked" ELSE task'[d] = task[d]
            BY <1>0, <1>6, <2>2 DEF Serve, CancelArrives, Ends
        <3> QED
            BY <1>0, <2>2, <3>1, <3>2, Waiters
    <2>3. CASE c = d /\ queue[c] = <<>>
        BY <1>1, <1>6, <2>3 DEF Serve, CancelArrives
    <2> QED
        BY <2>1, <2>2, <2>3
<1>7. ASSUME NEW c \in Conns, ConnectionLost(c) PROVE Served
    <2>1. CASE c # d
        BY <1>0, <1>1, <1>7, <2>1 DEF ConnectionLost
    <2>2. CASE c = d
        <3>1. queue'[d] = <<>> /\ task'[d] # "asked"
            BY <1>0, <1>7, <2>2 DEF ConnectionLost
        <3> QED
            BY <3>1, EmptyQueue
    <2> QED
        BY <2>1, <2>2
<1>8. ASSUME NEW c \in Conns, Terminate(c) PROVE Served
    BY <1>1, <1>8 DEF Terminate
<1>9. CASE UNCHANGED vars
    BY <1>1, <1>9 DEF vars, backends
<1> QED
    BY <1>2, <1>3, <1>4, <1>5, <1>6, <1>7, <1>8, <1>9 DEF Next, Network

LEMMA NextUserIsServed ==
    TypeOK /\ UserIsServed /\ Unused /\ [Next]_vars => UserIsServed'
<1> SUFFICES ASSUME TypeOK, UserIsServed, Unused, [Next]_vars, NEW d \in Conns
             PROVE  IF d = current' /\ user' = "waiting" THEN Once(queue'[d], "user")
                                                         ELSE Never(queue'[d], "user")
    BY DEF UserIsServed
<1> DEFINE Served == IF d = current' /\ user' = "waiting" THEN Once(queue'[d], "user")
                                                          ELSE Never(queue'[d], "user")
<1>0. /\ IF d = current /\ user = "waiting" THEN Once(queue[d], "user")
                                            ELSE Never(queue[d], "user")
      /\ queue[d] \in Seq(Requests) /\ "user" \in {"task", "user"}
      /\ "task" \in Requests \ {"user"}
      /\ queue \in [Conns -> Seq(Requests)] /\ current \in Conns
    BY DEF UserIsServed, TypeOK, QueueType, SessionTypes, Requests
<1>1. ASSUME UNCHANGED <<current, user>>, queue'[d] = queue[d] PROVE Served
    BY <1>0, <1>1
<1>2. CASE RunSql
    BY <1>0, <1>2, Waiters DEF RunSql
<1>3. CASE Interrupt
    BY <1>0, <1>3, InterruptedQueue DEF Interrupt
<1>4. CASE ReconnectTo \/ AutoReconnect
    <2>1. user # "waiting" /\ user' # "waiting" /\ queue' = queue
        BY <1>4 DEF ReconnectTo, AutoReconnect, Replace, backends
    <2> QED
        BY <1>0, <2>1
<1>5. ASSUME NEW c \in Conns, Task(c) PROVE Served
    <2>1. UNCHANGED <<current, user>>
        BY <1>5 DEF Task, TaskAsks, TaskStores, TaskFails
    <2>2. CASE c = d /\ TaskAsks(c)
        BY <1>0, <2>1, <2>2, Waiters DEF TaskAsks
    <2>3. CASE c # d \/ TaskStores(c) \/ TaskFails(c)
        BY <1>0, <1>1, <1>5, <2>1, <2>3 DEF Task, TaskAsks, TaskStores, TaskFails
    <2> QED
        BY <1>5, <2>2, <2>3 DEF Task
<1>6. ASSUME NEW c \in Conns, Serve(c) \/ CancelArrives(c) PROVE Served
    <2>1. CASE c # d /\ queue[c] # <<>>
        <3>1. queue'[d] = queue[d] /\ current' = current
            BY <1>0, <1>6, <2>1 DEF Serve, CancelArrives, Ends
        <3>2. CASE Head(queue[c]) = "user"
            <4>1. c = current /\ user = "waiting"
                BY <1>0, <2>1, <3>2, Waiters DEF UserIsServed
            <4> QED
                BY <1>0, <2>1, <3>1, <4>1
        <3>3. CASE Head(queue[c]) # "user"
            BY <1>1, <1>6, <2>1, <3>1, <3>3 DEF Serve, CancelArrives, Ends
        <3> QED
            BY <3>2, <3>3
    <2>2. CASE c = d /\ queue[c] # <<>>
        <3>1. queue'[d] = Tail(queue[d]) /\ current' = current
            BY <1>0, <1>6, <2>2 DEF Serve, CancelArrives, Ends
        <3>2. IF Head(queue[d]) = "user" THEN user' # "waiting" ELSE user' = user
            BY <1>6, <2>2 DEF Serve, CancelArrives, Ends
        <3> QED
            BY <1>0, <2>2, <3>1, <3>2, Waiters
    <2>3. CASE queue[c] = <<>>
        BY <1>1, <1>6, <2>3 DEF Serve, CancelArrives
    <2> QED
        BY <2>1, <2>2, <2>3
<1>7. ASSUME NEW c \in Conns, ConnectionLost(c) PROVE Served
    <2>1. current' = current /\ (user' = IF c = current /\ user = "waiting" THEN "check" ELSE user)
        BY <1>7 DEF ConnectionLost
    <2>2. CASE c # d
        <3>1. queue'[d] = queue[d]
            BY <1>0, <1>7, <2>2 DEF ConnectionLost
        <3> QED
            BY <1>0, <2>1, <2>2, <3>1
    <2>3. CASE c = d
        <3>1. queue'[d] = <<>>
            BY <1>0, <1>7, <2>3 DEF ConnectionLost
        <3> QED
            BY <2>1, <2>3, <3>1, EmptyQueue
    <2> QED
        BY <2>2, <2>3
<1>8. ASSUME NEW c \in Conns, Terminate(c) PROVE Served
    BY <1>1, <1>8 DEF Terminate
<1>9. CASE UNCHANGED vars
    BY <1>1, <1>9 DEF vars, backends
<1> QED
    BY <1>2, <1>3, <1>4, <1>5, <1>6, <1>7, <1>8, <1>9 DEF Next, Network

----------------------------------------------------------------------------
(* A replaced connection is held by its refresh. *)

LEMMA InitRest == Init => IInv
<1> SUFFICES ASSUME Init PROVE IInv
    OBVIOUS
<1>1. NoneToCome /\ Unused
    BY RefreshAssumption DEF Init, NoneToCome, Unused, Conns
<1>2. RefreshIsServed /\ UserIsServed
    BY EmptyQueue DEF Init, RefreshIsServed, UserIsServed
<1>3. CurrentIsOpen /\ OldConnectionsAreHeld
    BY RefreshAssumption DEF Init, CurrentIsOpen, OldConnectionsAreHeld, HoldsClient, Conns
<1> QED
    BY <1>1, <1>2, <1>3, InitTypes DEF IInv

LEMMA NextHeld ==
    TypeOK /\ RefreshIsServed /\ CurrentIsOpen /\ OldConnectionsAreHeld /\ [Next]_vars
        => CurrentIsOpen' /\ OldConnectionsAreHeld'
<1> SUFFICES ASSUME TypeOK, RefreshIsServed, CurrentIsOpen, OldConnectionsAreHeld, [Next]_vars
             PROVE  CurrentIsOpen' /\ OldConnectionsAreHeld'
    OBVIOUS
<1> USE DEF TypeOK, SessionTypes, ConnectionTypes, CurrentIsOpen, OldConnectionsAreHeld, HoldsClient
<1>1. CASE RunSql \/ Interrupt
    BY <1>1 DEF RunSql, Interrupt
<1>2. CASE Replace
    BY <1>2, RefreshAssumption DEF Replace, Conns
<1>3. ASSUME NEW c \in Conns, TaskAsks(c) PROVE CurrentIsOpen' /\ OldConnectionsAreHeld'
    BY <1>3 DEF TaskAsks
<1>4. ASSUME NEW c \in Conns, TaskStores(c) \/ TaskFails(c)
      PROVE  CurrentIsOpen' /\ OldConnectionsAreHeld'
    <2>1. /\ current' = current
          /\ link' = [link EXCEPT ![c] = IF c # current /\ @ = "up" THEN "closing" ELSE @]
          /\ \E s \in {"stored", "gave_up"} : task' = [task EXCEPT ![c] = s]
        BY <1>4 DEF TaskStores, TaskFails, Release
    <2> QED
        BY <2>1, RefreshAssumption DEF Conns
<1>5. ASSUME NEW c \in Conns, Serve(c) \/ CancelArrives(c)
      PROVE  CurrentIsOpen' /\ OldConnectionsAreHeld'
    <2>1. CASE queue[c] = <<>> \/ Head(queue[c]) # "task"
        BY <1>5, <2>1 DEF Serve, CancelArrives, Ends
    <2>2. CASE queue[c] # <<>> /\ Head(queue[c]) = "task"
        <3>1. task[c] = "asked"
            BY <2>2, Waiters DEF RefreshIsServed, QueueType, Requests
        <3>2. current' = current /\ link' = link
            BY <1>5 DEF Serve, CancelArrives
        <3>3. /\ \A d \in Conns : d # c => task'[d] = task[d]
              /\ task'[c] \in {"answered", "failed"}
            BY <1>5, <2>2 DEF Serve, CancelArrives, Ends
        <3> QED
            BY <3>1, <3>2, <3>3
    <2> QED
        BY <2>1, <2>2
<1>6. ASSUME NEW c \in Conns, ConnectionLost(c) \/ Terminate(c)
      PROVE  CurrentIsOpen' /\ OldConnectionsAreHeld'
    BY <1>6 DEF ConnectionLost, Terminate
<1>7. CASE UNCHANGED <<current, backends, task>>
    BY <1>7 DEF backends
<1> QED
    <2>1. ReconnectTo \/ AutoReconnect => Replace \/ UNCHANGED <<current, backends, task>>
        BY DEF ReconnectTo, AutoReconnect
    <2>2. UNCHANGED vars => UNCHANGED <<current, backends, task>>
        BY DEF vars
    <2> QED
        BY <1>1, <1>2, <1>3, <1>4, <1>5, <1>6, <1>7, <2>1, <2>2 DEF Next, Task, Network

\* The inductive invariant of the refresh holds of every reachable state.
THEOREM Invariance == Spec => []IInv
<1>1. IInv /\ [Next]_vars => IInv'
    BY NextSessionTypes, NextConnectionTypes, NextQueueType, NextNoneToCome, NextUnused,
       NextRefreshIsServed, NextUserIsServed, NextHeld DEF IInv, TypeOK
<1> QED
    BY InitRest, <1>1, PTL DEF Spec

\* No answer goes astray: at any load, whatever is interrupted, cancelled or lost,
\* the refresh and the user each wait for exactly one request, or for none.
THEOREM WaitersServed == Spec => []EveryWaiterIsServed
<1>1. IInv => EveryWaiterIsServed
    BY DEF IInv, EveryWaiterIsServed
<1> QED
    BY Invariance, <1>1, PTL

\* A replaced connection stays open as long as its refresh holds it, and no
\* longer, whatever is interrupted, cancelled or lost.
THEOREM OldConnectionsHeld == Spec => []OldConnectionsAreHeld
<1>1. IInv => OldConnectionsAreHeld
    BY DEF IInv
<1> QED
    BY Invariance, <1>1, PTL

-----------------------------------------------------------------------------
(* The pool. *)

USE DEF Pool!progress, Pool!poolState

----------------------------------------------------------------------------
(* What a try can end with. *)

LEMMA PoolConstants ==
    /\ TlsModes \subseteq {"disabled", "prefer", "require", "verify_full"}
    /\ CaFiles \subseteq {"none", "good", "unreadable"}
    /\ Servers \subseteq Pool!ServerKinds
    /\ Databases # {} /\ MaxRetries \in Nat
  BY ConnectAssumption DEF Pool!PoolAssumption

LEMMA ServerFacts ==
    \A s \in Servers : /\ s.tls \in {"none", "trusted", "untrusted"}
                       /\ s.answer \in {"ok", "rejects", "busy", "fails", "down"}
  BY PoolConstants DEF Pool!ServerKinds

LEMMA SslModeFacts ==
    ASSUME NEW c \in Pool!Configs
    PROVE  /\ Pool!SslMode(c) \in {"disable", "prefer", "require"}
           /\ Pool!SslMode(c) # "require" => c.mode \in {"disabled", "prefer"}
           /\ Pool!SslMode(c) = "disable" => c.mode = "disabled"
<1>1. c.mode \in {"disabled", "prefer", "require", "verify_full"}
  BY PoolConstants DEF Pool!Configs
<1>2. QED
  BY <1>1 DEF Pool!SslMode

\* A channel is encrypted when TLS is required, and verified when it has to be;
\* without TLS there is no TLS failure.
LEMMA ChannelFacts ==
    ASSUME NEW ssl \in {"disable", "prefer", "require"}, NEW c \in Pool!Configs, NEW s \in Servers
    PROVE  /\ Pool!Channel(ssl, c, s) \in {"network", "tls", "plain", "trusted", "untrusted"}
           /\ Pool!Channel(ssl, c, s) = "plain" => ssl # "require"
           /\ Pool!Channel(ssl, c, s) = "untrusted" => ~Pool!VerifiesServerCert(c)
           /\ ssl = "disable" => Pool!Channel(ssl, c, s) \in {"network", "plain"}
  BY ServerFacts DEF Pool!Channel, Pool!Secured, Pool!TlsFails

\* A try ends with the channel or with an error.
LEMMA OutcomeFacts ==
    ASSUME NEW ssl \in {"disable", "prefer", "require"}, NEW c \in Pool!Configs, NEW s \in Servers
    PROVE  /\ Pool!Outcome(ssl, c, s) \in Pool!Errors \cup {Pool!Channel(ssl, c, s)}
           /\ Pool!Outcome(ssl, c, s) = "tls" => Pool!Channel(ssl, c, s) = "tls"
  BY ServerFacts DEF Pool!Outcome, Pool!Errors

----------------------------------------------------------------------------
(* The steps of connect(), told apart by how the try ended. *)

\* The channel is one the target configuration allows.
Allowed(channel) ==
    /\ channel \in {"plain", "trusted", "untrusted"}
    /\ channel = "plain" => target.mode \in {"disabled", "prefer"}
    /\ channel = "untrusted" => ~Pool!VerifiesServerCert(target)

LEMMA TrySucceedsOrFails ==
    ASSUME Pool!TypeOK, Pool!OnlyPreferFallsBack, NEW s \in Servers, Pool!TryWithTls(s) \/ Pool!TryPlain(s)
    PROVE  /\ phase \in {"trying", "plain"} /\ peer' = "answers"
           /\ \/ /\ \E channel : Allowed(channel) /\ Pool!Connected(channel)
                 /\ tries' = tries + 1 /\ errors' = errors
              \/ /\ phase = "trying" /\ phase' = "plain" /\ target.mode = "prefer"
                 /\ tries' = tries + 1
                 /\ \E e \in Pool!Errors \ {"rejected"} : errors' = errors \cup {e}
                 /\ UNCHANGED <<target, attempt, waited, Pool!poolState>>
              \/ \E e \in Pool!Errors : /\ Pool!AttemptFailed(e)
                                   /\ tries' = tries + 1 /\ errors' = errors \cup {e}
<1> DEFINE with == Pool!Outcome(Pool!SslMode(target), target, s)
           plain == Pool!Outcome("disable", target, s)
<1>1. target \in Pool!Configs
  BY DEF Pool!TypeOK
<1>2. with \notin Pool!Errors => Allowed(with)
  BY <1>1, SslModeFacts, ChannelFacts, OutcomeFacts DEF Allowed, Pool!Errors
<1>3. plain \notin Pool!Errors => plain = "plain"
  BY <1>1, ChannelFacts, OutcomeFacts DEF Pool!Errors
<1>4. \A o : o \in Pool!Errors => {o} \cap Pool!Errors = {o}
  OBVIOUS
<1>5. \A o : o \notin Pool!Errors => {o} \cap Pool!Errors = {}
  OBVIOUS
<1>6. CASE Pool!TryWithTls(s)
  <2>1. CASE with \notin Pool!Errors
    BY <1>2, <1>5, <1>6, <2>1 DEF Pool!TryWithTls, Pool!Tried
  <2>2. CASE with \in Pool!Errors /\ target.mode = "prefer" /\ ~Pool!IsDbError(with)
    BY <1>4, <1>6, <2>2 DEF Pool!TryWithTls, Pool!Tried, Pool!IsDbError
  <2>3. CASE with \in Pool!Errors /\ ~(target.mode = "prefer" /\ ~Pool!IsDbError(with))
    BY <1>4, <1>6, <2>3 DEF Pool!TryWithTls, Pool!Tried
  <2>4. QED
    BY <2>1, <2>2, <2>3
<1>7. CASE Pool!TryPlain(s)
  <2>1. CASE plain \notin Pool!Errors
    <3>1. Allowed("plain")
      BY <1>7 DEF Pool!TryPlain, Pool!OnlyPreferFallsBack, Allowed
    <3>2. QED
      BY <1>3, <1>5, <1>7, <2>1, <3>1 DEF Pool!TryPlain, Pool!Tried
  <2>2. CASE plain \in Pool!Errors
    BY <1>4, <1>7, <2>2 DEF Pool!TryPlain, Pool!Tried
  <2>3. QED
    BY <2>1, <2>2
<1>8. QED
  BY <1>6, <1>7

\* The other steps: the end without a try, the wait, and a new connect().
LEMMA OtherSteps ==
    ASSUME Pool!TypeOK, [Pool!Next]_Pool!vars
    PROVE  \/ \E s \in Servers : Pool!TryWithTls(s) \/ Pool!TryPlain(s)
           \/ Pool!TlsSetupFails
           \/ Pool!Backoff
           \/ Pool!FallsSilent \/ Pool!SilenceEnds
           \/ \E c \in Pool!Configs : Pool!Start(c)
           \/ UNCHANGED Pool!vars
<1>1. config \in Pool!Configs /\ \A d \in Databases : [config EXCEPT !.db = d] \in Pool!Configs
  BY DEF Pool!TypeOK, Pool!Configs
<1>2. QED
  BY <1>1 DEF Pool!Next, Pool!Connecting, Pool!Exited, Pool!Reconnect, Pool!ReconnectTo

----------------------------------------------------------------------------
(* The inductive invariant. *)

LEMMA PoolInit == Pool!Init => Pool!IInv
<1> SUFFICES ASSUME Pool!Init PROVE Pool!IInv
  OBVIOUS
<1>1. Pool!TypeOK
  BY PoolConstants DEF Pool!Init, Pool!TypeOK
<1>2. Pool!OnlyPreferFallsBack /\ Pool!TriesCounted /\ Pool!BackoffIsShort
  BY DEF Pool!Init, Pool!OnlyPreferFallsBack, Pool!TriesCounted, Pool!BackoffIsShort
<1>3. Pool!ClientKeepsConfig /\ Pool!RetriesOnlyTransient
  BY DEF Pool!Init, Pool!ClientKeepsConfig, Pool!RetriesOnlyTransient
<1>4. QED
  BY <1>1, <1>2, <1>3 DEF Pool!IInv

LEMMA PoolNext ==
    ASSUME Pool!IInv, [Pool!Next]_Pool!vars
    PROVE  Pool!IInv'
<1> USE PoolConstants DEF Pool!IInv
<1>1. ASSUME NEW s \in Servers, Pool!TryWithTls(s) \/ Pool!TryPlain(s)
      PROVE  Pool!IInv'
  <2>0. peer' = "answers"
    BY <1>1, TrySucceedsOrFails
  <2>1. CASE /\ \E channel : Allowed(channel) /\ Pool!Connected(channel)
             /\ tries' = tries + 1 /\ errors' = errors
    <3> PICK channel : Allowed(channel) /\ Pool!Connected(channel)
      BY <2>1
    <3>1. phase' = "idle" /\ target \in Pool!Configs /\ target.db \in Databases
      BY DEF Pool!Connected, Pool!TypeOK, Pool!Configs
    <3>2. client' = [db |-> target.db, channel |-> channel] /\ config' = target
      BY DEF Pool!Connected
    <3>3. Pool!TypeOK'
      BY <2>0, <2>1, <3>1, <3>2 DEF Pool!Connected, Allowed, Pool!TypeOK
    <3>4. Pool!ClientKeepsConfig'
      BY <3>2 DEF Allowed, Pool!ClientKeepsConfig, Pool!VerifiesServerCert
    <3>5. Pool!TriesCounted'
      BY <1>1, <2>1, <3>1, TrySucceedsOrFails DEF Pool!Connected, Pool!TriesCounted, Pool!TypeOK, Pool!OnlyPreferFallsBack
    <3>6. QED
      BY <3>1, <3>3, <3>4, <3>5 DEF Pool!OnlyPreferFallsBack, Pool!BackoffIsShort, Pool!RetriesOnlyTransient
  <2>2. CASE /\ phase = "trying" /\ phase' = "plain" /\ target.mode = "prefer"
             /\ tries' = tries + 1
             /\ \E e \in Pool!Errors \ {"rejected"} : errors' = errors \cup {e}
             /\ UNCHANGED <<target, attempt, waited, Pool!poolState>>
    <3>1. Pool!TypeOK'
      BY <2>0, <2>2 DEF Pool!TypeOK
    <3>2. Pool!OnlyPreferFallsBack' /\ Pool!BackoffIsShort' /\ Pool!RetriesOnlyTransient'
      BY <2>2 DEF Pool!OnlyPreferFallsBack, Pool!BackoffIsShort, Pool!RetriesOnlyTransient
    <3>3. Pool!TriesCounted'
      BY <2>2 DEF Pool!TriesCounted, Pool!TypeOK
    <3>4. Pool!ClientKeepsConfig'
      BY <2>2 DEF Pool!ClientKeepsConfig, Pool!VerifiesServerCert
    <3>5. QED
      BY <3>1, <3>2, <3>3, <3>4
  <2>3. CASE \E e \in Pool!Errors : /\ Pool!AttemptFailed(e)
                              /\ tries' = tries + 1 /\ errors' = errors \cup {e}
    <3> PICK e \in Pool!Errors : /\ Pool!AttemptFailed(e)
                            /\ tries' = tries + 1 /\ errors' = errors \cup {e}
      BY <2>3
    <3>1. /\ phase' \in {"backoff", "exited", "idle"}
          /\ phase' = "backoff" => e \in {"network", "busy"} /\ attempt < MaxRetries
          /\ UNCHANGED <<target, attempt, waited, Pool!poolState>>
      BY DEF Pool!AttemptFailed, Pool!GiveUp, Pool!IsRetryable
    <3>2. Pool!TypeOK'
      BY <2>0, <3>1 DEF Pool!TypeOK
    <3>3. Pool!OnlyPreferFallsBack' /\ Pool!BackoffIsShort'
      BY <3>1 DEF Pool!OnlyPreferFallsBack, Pool!BackoffIsShort
    <3>4. Pool!RetriesOnlyTransient'
      BY <1>1, <3>1, TrySucceedsOrFails DEF Pool!RetriesOnlyTransient
    <3>5. Pool!TriesCounted'
      BY <1>1, <3>1, TrySucceedsOrFails DEF Pool!TriesCounted, Pool!TypeOK, Pool!OnlyPreferFallsBack
    <3>6. Pool!ClientKeepsConfig'
      BY <3>1 DEF Pool!ClientKeepsConfig, Pool!VerifiesServerCert
    <3>7. QED
      BY <3>2, <3>3, <3>4, <3>5, <3>6
  <2>4. QED
    BY <1>1, <2>1, <2>2, <2>3, TrySucceedsOrFails
<1>2. CASE Pool!TlsSetupFails
  <2>1. /\ phase = "trying" /\ phase' \in {"plain", "exited", "idle"}
        /\ phase' = "plain" => target.mode = "prefer"
        /\ UNCHANGED <<peer, target, attempt, waited, tries, errors, Pool!poolState>>
    BY <1>2 DEF Pool!TlsSetupFails, Pool!GiveUp
  <2>2. Pool!TypeOK'
    BY <2>1 DEF Pool!TypeOK
  <2>3. Pool!OnlyPreferFallsBack' /\ Pool!BackoffIsShort' /\ Pool!RetriesOnlyTransient'
    BY <2>1 DEF Pool!OnlyPreferFallsBack, Pool!BackoffIsShort, Pool!RetriesOnlyTransient
  <2>4. Pool!TriesCounted'
    BY <2>1 DEF Pool!TriesCounted, Pool!TypeOK
  <2>5. Pool!ClientKeepsConfig'
    BY <2>1 DEF Pool!ClientKeepsConfig, Pool!VerifiesServerCert
  <2>6. QED
    BY <2>2, <2>3, <2>4, <2>5
<1>3. CASE Pool!Backoff
  <2>1. /\ phase = "backoff" /\ phase' = "trying" /\ attempt' = attempt + 1
        /\ UNCHANGED <<peer, target, tries, errors, Pool!poolState>>
    BY <1>3 DEF Pool!Backoff
  <2>2. Pool!TypeOK'
    BY <2>1 DEF Pool!TypeOK, Pool!BackoffIsShort
  <2>3. Pool!OnlyPreferFallsBack' /\ Pool!BackoffIsShort' /\ Pool!RetriesOnlyTransient'
    BY <2>1 DEF Pool!OnlyPreferFallsBack, Pool!BackoffIsShort, Pool!RetriesOnlyTransient
  <2>4. Pool!TriesCounted'
    BY <2>1 DEF Pool!TriesCounted, Pool!TypeOK
  <2>5. Pool!ClientKeepsConfig'
    BY <2>1 DEF Pool!ClientKeepsConfig, Pool!VerifiesServerCert
  <2>6. QED
    BY <2>2, <2>3, <2>4, <2>5
<1>4. ASSUME NEW c \in Pool!Configs, Pool!Start(c)
      PROVE  Pool!IInv'
  <2>1. /\ phase' = "trying" /\ target' = c
        /\ attempt' = 0 /\ tries' = 0 /\ errors' = {}
        /\ UNCHANGED <<peer, Pool!poolState>>
    BY <1>4 DEF Pool!Start
  <2>2. Pool!TypeOK'
    BY <2>1 DEF Pool!TypeOK
  <2>3. Pool!OnlyPreferFallsBack' /\ Pool!BackoffIsShort' /\ Pool!RetriesOnlyTransient' /\ Pool!TriesCounted'
    BY <2>1 DEF Pool!OnlyPreferFallsBack, Pool!BackoffIsShort, Pool!RetriesOnlyTransient, Pool!TriesCounted
  <2>4. Pool!ClientKeepsConfig'
    BY <2>1 DEF Pool!ClientKeepsConfig, Pool!VerifiesServerCert
  <2>5. QED
    BY <2>2, <2>3, <2>4
<1>5. CASE Pool!FallsSilent \/ Pool!SilenceEnds
  <2>1. peer' \in {"silent", "spoke"} /\ UNCHANGED <<phase, target, Pool!progress, Pool!poolState>>
    BY <1>5 DEF Pool!FallsSilent, Pool!SilenceEnds
  <2>2. QED
    BY <2>1 DEF Pool!TypeOK, Pool!OnlyPreferFallsBack, Pool!TriesCounted, Pool!BackoffIsShort,
                Pool!ClientKeepsConfig, Pool!RetriesOnlyTransient, Pool!VerifiesServerCert
<1>6. CASE UNCHANGED Pool!vars
  BY <1>6 DEF Pool!vars, Pool!TypeOK, Pool!OnlyPreferFallsBack, Pool!TriesCounted, Pool!BackoffIsShort,
              Pool!ClientKeepsConfig, Pool!RetriesOnlyTransient, Pool!VerifiesServerCert
<1>7. QED
  BY <1>1, <1>2, <1>3, <1>4, <1>5, <1>6, OtherSteps

\* IInv is an inductive invariant.
THEOREM PoolInvariance == Pool!Spec => []Pool!IInv
  BY PoolInit, PoolNext, PTL DEF Pool!Spec

----------------------------------------------------------------------------
(* The theorems. *)

\* Every variable of the pool keeps its type; attempt never exceeds
\* MAX_RETRIES.
THEOREM PoolTypes == Pool!Spec => []Pool!TypeOK
<1>1. Pool!IInv => Pool!TypeOK
  BY DEF Pool!IInv
<1>2. QED
  BY PoolInvariance, <1>1, PTL

\* try_connect, reconnect and reconnect_to: the client that is in use has the
\* channel and the database its stored configuration asks for.
THEOREM PoolClient == Pool!Spec => []Pool!ClientKeepsConfig
<1>1. Pool!IInv => Pool!ClientKeepsConfig
  BY DEF Pool!IInv
<1>2. QED
  BY PoolInvariance, <1>1, PTL

\* connect() goes on only after errors that may pass by themselves.
THEOREM PoolRetries == Pool!Spec => []Pool!RetriesOnlyTransient
<1>1. Pool!IInv => Pool!RetriesOnlyTransient
  BY DEF Pool!IInv
<1>2. QED
  BY PoolInvariance, <1>1, PTL

\* connect() opens at most two connections per attempt, one when the mode is not
\* prefer.
THEOREM TriesEnd == Pool!Spec => []Pool!TriesAreBounded
<1>1. Pool!IInv => Pool!TriesAreBounded
  BY PoolConstants DEF Pool!IInv, Pool!TypeOK, Pool!TriesCounted, Pool!TriesAreBounded
<1>2. QED
  BY PoolInvariance, <1>1, PTL

----------------------------------------------------------------------------
(* The waiting.  No prover here knows that 2 ^ (n + 1) = 2 * 2 ^ n, so what   *)
(* follows is for the retries pool.rs has, and fewer.                         *)

LEMMA Powers ==
    ASSUME NEW n \in 0..3
    PROVE  2 ^ n = IF n = 0 THEN 1 ELSE IF n = 1 THEN 2 ELSE IF n = 2 THEN 4 ELSE 8
<1>1. 2 ^ 0 = 1 /\ 2 ^ 1 = 2 /\ 2 ^ 2 = 4 /\ 2 ^ 3 = 8
  OBVIOUS
<1>2. CASE n = 0
  BY <1>1, <1>2
<1>3. CASE n = 1
  BY <1>1, <1>3
<1>4. CASE n = 2
  BY <1>1, <1>4
<1>5. CASE n = 3
  BY <1>1, <1>5
<1>6. QED
  BY <1>2, <1>3, <1>4, <1>5

LEMMA Doubling ==
    ASSUME NEW n \in 0..2
    PROVE  2 ^ n \in Nat /\ 2 ^ (n + 1) = 2 ^ n + 2 ^ n
<1>1. CASE n = 0
  BY <1>1, 0 + 1 = 1
<1>2. CASE n = 1
  BY <1>2, 1 + 1 = 2
<1>3. CASE n = 2
  BY <1>3, 2 + 1 = 3
<1>4. QED
  BY <1>1, <1>2, <1>3

LEMMA PowersGrow ==
    ASSUME NEW n \in 0..3, NEW m \in n..3
    PROVE  2 ^ n - 1 \in 0..(2 ^ m - 1)
<1>1. m \in 0..3
  OBVIOUS
<1>2. 2 ^ n = IF n = 0 THEN 1 ELSE IF n = 1 THEN 2 ELSE IF n = 2 THEN 4 ELSE 8
  BY Powers
<1>3. 2 ^ m = IF m = 0 THEN 1 ELSE IF m = 1 THEN 2 ELSE IF m = 2 THEN 4 ELSE 8
  BY <1>1, Powers
<1>4. QED
  BY <1>1, <1>2, <1>3

LEMMA PoolInitWait == Pool!Init => Pool!WaitFollowsAttempt
  BY Powers DEF Pool!Init, Pool!WaitFollowsAttempt

LEMMA PoolNextWait ==
    ASSUME MaxRetries \in 0..3, Pool!IInv, Pool!WaitFollowsAttempt, [Pool!Next]_Pool!vars
    PROVE  Pool!WaitFollowsAttempt'
<1>1. Pool!TypeOK /\ Pool!OnlyPreferFallsBack /\ Pool!BackoffIsShort
  BY DEF Pool!IInv
<1>2. CASE Pool!Backoff
  <2>1. attempt \in 0..2 /\ attempt' = attempt + 1 /\ waited' = waited + 2 ^ attempt
    BY <1>1, <1>2 DEF Pool!Backoff, Pool!BackoffIsShort, Pool!TypeOK
  <2>2. QED
    <3>1. 2 ^ attempt \in Nat /\ 2 ^ attempt' = 2 ^ attempt + 2 ^ attempt
      BY <2>1, Doubling
    <3>2. QED
      BY <2>1, <3>1 DEF Pool!WaitFollowsAttempt
<1>3. CASE UNCHANGED <<attempt, waited>>
  BY <1>3 DEF Pool!WaitFollowsAttempt
<1>4. ASSUME NEW c \in Pool!Configs, Pool!Start(c) PROVE Pool!WaitFollowsAttempt'
  BY <1>4 DEF Pool!Start, Pool!WaitFollowsAttempt
<1>5. ASSUME NEW s \in Servers, Pool!TryWithTls(s) \/ Pool!TryPlain(s) PROVE UNCHANGED <<attempt, waited>>
  BY <1>1, <1>5, TrySucceedsOrFails DEF Pool!Connected, Pool!AttemptFailed, Pool!GiveUp
<1>6. CASE Pool!TlsSetupFails
  BY <1>3, <1>6 DEF Pool!TlsSetupFails, Pool!GiveUp
<1>7. CASE UNCHANGED Pool!vars
  BY <1>3, <1>7 DEF Pool!vars
<1>8. CASE Pool!FallsSilent \/ Pool!SilenceEnds
  BY <1>3, <1>8 DEF Pool!FallsSilent, Pool!SilenceEnds
<1>9. QED
  BY <1>1, <1>2, <1>3, <1>4, <1>5, <1>6, <1>7, <1>8, OtherSteps

\* The patience of connect(), with no more than the MAX_RETRIES of pool.rs: the
\* connections are counted as in TriesEnd, and the delays, which double, stay
\* below 2 ^ MAX_RETRIES times BASE_BACKOFF_MS altogether.
THEOREM PoolPatience == MaxRetries \in 0..3 => (Pool!Spec => []Pool!PatienceIsBounded)
<1> SUFFICES ASSUME MaxRetries \in 0..3 PROVE Pool!Spec => []Pool!PatienceIsBounded
  OBVIOUS
<1>1. Pool!IInv /\ Pool!WaitFollowsAttempt => Pool!WaitIsBounded
  <2> SUFFICES ASSUME Pool!IInv, Pool!WaitFollowsAttempt PROVE Pool!WaitIsBounded
    OBVIOUS
  <2>1. attempt \in 0..3 /\ MaxRetries \in attempt..3
    BY DEF Pool!IInv, Pool!TypeOK
  <2>2. QED
    BY <2>1, PowersGrow DEF Pool!WaitFollowsAttempt, Pool!WaitIsBounded
<1>2. Pool!Spec => []Pool!WaitFollowsAttempt
  BY PoolInitWait, PoolNextWait, PoolInvariance, PTL DEF Pool!Spec
<1>3. Pool!TriesAreBounded /\ Pool!WaitIsBounded => Pool!PatienceIsBounded
  BY DEF Pool!PatienceIsBounded
<1>4. QED
  BY <1>1, <1>2, <1>3, PoolInvariance, TriesEnd, PTL

----------------------------------------------------------------------------
(* The two next to each other. *)

\* A step of the pool leaves the refresh alone, and the other way round.
THEOREM PartsAreSeparate == ConnectionsSpec => Spec /\ Pool!Spec
<1>1. ConnectionsInit => Init /\ Pool!Init
  BY DEF ConnectionsInit
<1>2. [PoolStep \/ RefreshStep]_<<part, refreshVars, poolVars>> =>
        [Next]_vars /\ [Pool!Next]_Pool!vars
  BY DEF PoolStep, RefreshStep, refreshVars, poolVars, Pool!vars
<1>3. QED
  BY <1>1, <1>2, PTL DEF ConnectionsSpec, Spec, Pool!Spec

\* try_connect, reconnect and reconnect_to: the client that is in use has the
\* channel and the database its stored configuration asks for.
THEOREM ClientIsAsConfigured == ConnectionsSpec => []ClientKeepsConfig
<1>1. Pool!TypeOK /\ Pool!ClientKeepsConfig => ClientKeepsConfig
  BY DEF ClientKeepsConfig
<1>2. QED
  BY PartsAreSeparate, PoolTypes, PoolClient, <1>1, PTL

\* connect() goes on only after errors that may pass by themselves.
THEOREM DefinitiveErrorsEnd == ConnectionsSpec => []RetriesOnlyTransient
<1>1. Pool!RetriesOnlyTransient => RetriesOnlyTransient
  BY DEF RetriesOnlyTransient
<1>2. QED
  BY PartsAreSeparate, PoolRetries, <1>1, PTL

\* The patience of connect(), with no more than the MAX_RETRIES of pool.rs.
THEOREM PatienceEnds == MaxRetries \in 0..3 => (ConnectionsSpec => []PatienceIsBounded)
<1> SUFFICES ASSUME MaxRetries \in 0..3 PROVE ConnectionsSpec => []PatienceIsBounded
  OBVIOUS
<1>1. Pool!PatienceIsBounded => PatienceIsBounded
  BY DEF PatienceIsBounded
<1>2. Pool!Spec => []Pool!PatienceIsBounded
  BY PoolPatience
<1>3. QED
  BY PartsAreSeparate, <1>1, <1>2, PTL

\* No answer goes astray: at any load, whatever is interrupted, cancelled or lost,
\* the refresh and the user each wait for exactly one request, or for none.
THEOREM NoAnswerAstray == ConnectionsSpec => []EveryWaiterIsServed
  BY PartsAreSeparate, WaitersServed, PTL

\* shared_client: a replaced connection stays open as long as its refresh holds
\* it, and no longer, whatever is interrupted, cancelled or lost.
THEOREM HeldWhileNeeded == ConnectionsSpec => []OldConnectionsAreHeld
  BY PartsAreSeparate, OldConnectionsHeld, PTL
=============================================================================
