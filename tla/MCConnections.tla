--------------------------- MODULE MCConnections ---------------------------
(***************************************************************************)
(* The connections of a session: how its client comes about and is         *)
(* replaced, attempt by attempt (ConnectionPool), and the background       *)
(* refresh that every new client is shared with (SchemaRefresh), for which *)
(* a connect is a single step.  So in one behaviour only one of them       *)
(* moves.  Every kind of server may answer every try.                      *)
(***************************************************************************)
EXTENDS SchemaRefresh, FiniteSets

CONSTANTS Databases, TlsModes, CaFiles, Servers, MaxRetries

VARIABLES part,   \* the module that moves
          phase, peer, target, attempt, client, config, tries, waited, errors

Pool == INSTANCE ConnectionPool

\* Every kind there is.
MCServers == [tls : {"none", "trusted", "untrusted"},
              answer : {"ok", "rejects", "busy", "fails", "down"}]

ASSUME ConnectAssumption == Pool!PoolAssumption

refreshVars == vars
poolVars == <<phase, peer, target, attempt, client, config, tries, waited, errors>>

\* The part that rests has one state.
ConnectionsInit ==
    /\ Init /\ Pool!Init
    /\ \/ part = "pool"
       \/ part = "refresh" /\ target = CHOOSE c \in Pool!Configs : TRUE

PoolStep == part = "pool" /\ Pool!Next /\ UNCHANGED <<part, refreshVars>>
RefreshStep == part = "refresh" /\ Next /\ UNCHANGED <<part, poolVars>>

ConnectionsSpec ==
    ConnectionsInit /\ [][PoolStep \/ RefreshStep]_<<part, refreshVars, poolVars>>

\* The fairness of the part that moves.
FairConnections ==
    /\ ConnectionsSpec
    /\ WF_poolVars(part = "pool" /\ Pool!Connecting)
    /\ \A c \in Conns : /\ WF_vars(part = "refresh" /\ Task(c))
                        /\ WF_vars(part = "refresh" /\ Serve(c))
                        /\ WF_vars(part = "refresh" /\ Terminate(c))

-----------------------------------------------------------------------------
\* The client in use keeps what the stored configuration asks of its channel
\* and leads where the configuration says, through any number of failed and
\* successful reconnects.
ClientKeepsConfig == Pool!TypeOK /\ Pool!ClientKeepsConfig

\* Only what may pass by itself is tried again.
RetriesOnlyTransient == Pool!RetriesOnlyTransient

\* A connect opens a bounded number of connections and waits a bounded time.
PatienceIsBounded == Pool!PatienceIsBounded

\* Every connect() comes to an end, unless a server that has accepted the
\* connection stays silent for ever: connect_timeout does not cover that.
ConnectEnds ==
    Pool!NoSilenceLasts => (part = "pool" /\ phase # "idle") ~> (phase \in {"idle", "exited"})
=============================================================================
