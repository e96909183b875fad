--------------------------- MODULE ConnectionPool ---------------------------
(***************************************************************************)
(* ConnectionPool (pool.rs): how the one client of a session comes about   *)
(* and how it is replaced.  ReplSession takes a reconnect as one step that *)
(* succeeds or fails; here it is what connect() does, attempt by attempt:  *)
(*                                                                         *)
(*    idle -> trying [-> plain] -> idle | (backoff -> trying ...) | exited *)
(*                                                                         *)
(* A server is whatever answers at that moment: it may come up, go down or *)
(* change its TLS set-up between two attempts.  It may also accept the     *)
(* connection and then say nothing: connect_timeout is over once the       *)
(* socket is open, and nothing else ends such a try.                       *)
(***************************************************************************)
EXTENDS Naturals, Sequences, FiniteSets

CONSTANTS
    Databases,   \* databases \c may name
    TlsModes,    \* sslmode of the session
    CaFiles,     \* "none", "good" or "unreadable": the CA file given
    Servers,     \* what may answer a connection attempt
    MaxRetries   \* MAX_RETRIES

ServerKinds == [tls : {"none", "trusted", "untrusted"},
                answer : {"ok", "rejects", "busy", "fails", "down"}]

PoolAssumption ==
    /\ TlsModes \subseteq {"disabled", "prefer", "require", "verify_full"}
    /\ CaFiles \subseteq {"none", "good", "unreadable"}
    /\ Servers \subseteq ServerKinds
    /\ Databases # {} /\ MaxRetries \in Nat

Configs == [db : Databases, mode : TlsModes, ca : CaFiles]
Errors == {"network", "busy", "rejected", "tls", "other"}
NoClient == [db |-> "none", channel |-> "none"]

VARIABLES
    phase,    \* idle, trying, plain, backoff, or exited when the first fails
    peer,     \* "silent" once the server of this try has stopped to answer, then
              \* "spoke" if it goes on after all; else "answers"
    target,   \* the configuration connect() was given
    attempt,  \* its loop counter
    client,   \* pool.client: where it leads and over which channel
    config,   \* pool.config
    \* History: read by no action of the program.
    tries,    \* connections opened or tried by this connect()
    waited,   \* backoff so far, in units of BASE_BACKOFF_MS
    errors    \* the errors of these tries

progress == <<attempt, tries, waited, errors>>
poolState == <<client, config>>
vars == <<phase, peer, target, progress, poolState>>

\* run_repl connects before there is a prompt.
Init ==
    /\ phase = "trying" /\ peer = "answers"
    /\ target \in Configs /\ config = target
    /\ client = NoClient
    /\ attempt = 0 /\ tries = 0 /\ waited = 0 /\ errors = {}

----------------------------------------------------------------------------
(* One try, as tokio-postgres and the TLS library see it. *)

VerifiesServerCert(c) == c.mode = "verify_full" \/ c.ca # "none"

\* Mutant: with a required TLS a server without it is accepted.
SslModeRequirePrefers(c) == IF c.mode = "disabled" THEN "disable" ELSE "prefer"

SslMode(c) == IF c.mode = "disabled" THEN "disable"
              ELSE IF c.mode = "prefer" THEN "prefer" ELSE "require"

Secured(ssl, server) == ssl # "disable" /\ server.tls # "none"

\* TLS is wanted and cannot be had, or the certificate is turned down.
TlsFails(ssl, c, server) ==
    \/ ssl = "require" /\ server.tls = "none"
    \/ Secured(ssl, server) /\ VerifiesServerCert(c) /\ server.tls = "untrusted"

\* The channel that is up before the server answers, or the error.
Channel(ssl, c, server) ==
    IF server.answer = "down" THEN "network"
    ELSE IF TlsFails(ssl, c, server) THEN "tls"
    ELSE IF Secured(ssl, server) THEN server.tls ELSE "plain"

\* What the try ends with: a channel, or an error. A server "fails" when what
\* it says is no refusal and no reply either: it wants an authentication method
\* there is no code for, or does not keep to the protocol.
Outcome(ssl, c, server) ==
    LET channel == Channel(ssl, c, server)
    IN  IF channel \in Errors \/ server.answer = "ok" THEN channel
        ELSE IF server.answer = "rejects" THEN "rejected"
        ELSE IF server.answer = "busy" THEN "busy" ELSE "other"

\* A server that is starting up or full, and a network that fails.
IsRetryable(error) == error \in {"network", "busy"}

\* Errors the server itself reports.
IsDbError(error) == error \in {"rejected", "busy"}

----------------------------------------------------------------------------
(* connect(). *)

\* The next try, if there is one, opens a connection of its own.
Tried(outcome) ==
    /\ peer # "silent" /\ peer' = "answers"
    /\ tries' = tries + 1
    /\ errors' = errors \cup ({outcome} \cap Errors)

\* The client and, for reconnect_to, the configuration are replaced together.
Connected(channel) ==
    /\ phase' = "idle"
    /\ client' = [db |-> target.db, channel |-> channel]
    /\ config' = target
    /\ UNCHANGED <<target, attempt, waited>>

\* The error is final: at the start the program ends, later nothing changes.
GiveUp ==
    /\ phase' = IF client = NoClient THEN "exited" ELSE "idle"
    /\ UNCHANGED <<target, attempt, waited, poolState>>

\* Mutant: every error is tried again.
AttemptFailedRetriesAll(error) ==
    IF attempt < MaxRetries
    THEN phase' = "backoff" /\ UNCHANGED <<target, attempt, waited, poolState>>
    ELSE GiveUp

\* Mutant: one attempt too many.
AttemptFailedOnceMore(error) ==
    IF IsRetryable(error) /\ attempt <= MaxRetries
    THEN phase' = "backoff" /\ UNCHANGED <<target, attempt, waited, poolState>>
    ELSE GiveUp

AttemptFailed(error) ==
    IF IsRetryable(error) /\ attempt < MaxRetries
    THEN phase' = "backoff" /\ UNCHANGED <<target, attempt, waited, poolState>>
    ELSE GiveUp

\* A CA file that cannot be read fails the set-up before anything is sent.
TlsSetupFails ==
    /\ phase = "trying" /\ target.mode # "disabled" /\ target.ca = "unreadable"
    /\ IF target.mode = "prefer"
       THEN phase' = "plain" /\ UNCHANGED <<target, attempt, waited, poolState>>
       ELSE GiveUp
    /\ UNCHANGED <<peer, tries, errors>>

\* With prefer, only what the server did not say itself leads to a second,
\* plain connection.
TryWithTls(server) ==
    /\ phase = "trying" /\ target.mode # "disabled" /\ target.ca # "unreadable"
    /\ LET outcome == Outcome(SslMode(target), target, server)
           fallsBack == target.mode = "prefer" /\ ~IsDbError(outcome)
       IN  /\ Tried(outcome)
           /\ \/ outcome \notin Errors /\ Connected(outcome)
              \/ /\ outcome \in Errors /\ fallsBack
                 /\ phase' = "plain" /\ UNCHANGED <<target, attempt, waited, poolState>>
              \/ outcome \in Errors /\ ~fallsBack /\ AttemptFailed(outcome)

TryPlain(server) ==
    /\ phase = "plain" \/ (phase = "trying" /\ target.mode = "disabled")
    /\ LET outcome == Outcome("disable", target, server)
       IN  /\ Tried(outcome)
           /\ \/ outcome \notin Errors /\ Connected(outcome)
              \/ outcome \in Errors /\ AttemptFailed(outcome)

\* The socket is open, and the server stops to answer: in the handshake, at the
\* startup message or in the middle of the authentication.
FallsSilent ==
    /\ phase = "plain" \/ (phase = "trying" /\ (target.mode = "disabled" \/ target.ca # "unreadable"))
    /\ peer = "answers" /\ peer' = "silent"
    /\ UNCHANGED <<phase, target, progress, poolState>>

\* It goes on after all, or its side of the connection breaks.
SilenceEnds ==
    /\ peer = "silent" /\ peer' = "spoke"
    /\ UNCHANGED <<phase, target, progress, poolState>>

\* Mutant: the retry is a new connect(), with a count of its own.
BackoffStartsOver ==
    /\ phase = "backoff"
    /\ phase' = "trying"
    /\ attempt' = 0 /\ tries' = 0 /\ waited' = 0 /\ errors' = {}
    /\ UNCHANGED <<peer, target, poolState>>

\* The delay doubles with every attempt.
Backoff ==
    /\ phase = "backoff"
    /\ attempt' = attempt + 1
    /\ waited' = waited + 2 ^ attempt
    /\ phase' = "trying"
    /\ UNCHANGED <<peer, target, tries, errors, poolState>>

----------------------------------------------------------------------------
(* The session asks for another client. *)

Start(c) ==
    /\ phase = "idle"
    /\ phase' = "trying"
    /\ target' = c
    /\ attempt' = 0 /\ tries' = 0 /\ waited' = 0 /\ errors' = {}
    /\ UNCHANGED <<peer, poolState>>

\* After a lost connection: the stored configuration.
Reconnect == Start(config)

\* Mutant: the configuration is stored before it has worked.
ReconnectToStoresFirst(d) ==
    LET patched == [config EXCEPT !.db = d]
    IN  /\ phase = "idle" /\ phase' = "trying"
        /\ target' = patched /\ config' = patched
        /\ attempt' = 0 /\ tries' = 0 /\ waited' = 0 /\ errors' = {}
        /\ UNCHANGED <<peer, client>>

\* \c and \reconnect: the stored configuration with another database.
ReconnectTo(d) == Start([config EXCEPT !.db = d])

Connecting ==
    \/ TlsSetupFails
    \/ \E s \in Servers : TryWithTls(s) \/ TryPlain(s)
    \/ Backoff

\* A program that could not connect at the start is gone.
Exited == phase = "exited" /\ UNCHANGED vars

Next ==
    \/ Connecting
    \/ FallsSilent \/ SilenceEnds
    \/ Exited
    \/ Reconnect
    \/ \E d \in Databases : ReconnectTo(d)

Spec == Init /\ [][Next]_vars

\* connect_timeout bounds the opening of the socket, and a server that answers
\* ends the try; none of this is assumed of a server that has fallen silent.
FairSpec == Spec /\ WF_vars(Connecting)

----------------------------------------------------------------------------
(* Properties. *)

TypeOK ==
    /\ phase \in {"idle", "trying", "plain", "backoff", "exited"}
    /\ peer \in {"answers", "silent", "spoke"}
    /\ target \in Configs /\ config \in Configs
    /\ client \in [db : Databases, channel : {"plain", "trusted", "untrusted"}] \cup {NoClient}
    /\ attempt \in 0..MaxRetries
    /\ tries \in Nat
    /\ errors \subseteq Errors

\* The client in use keeps what the stored configuration asks of its channel
\* and leads where the configuration says, through any number of failed and
\* successful reconnects.
ClientKeepsConfig ==
    client # NoClient =>
        /\ client.db = config.db
        /\ client.channel = "plain" => config.mode \in {"disabled", "prefer"}
        /\ client.channel = "untrusted" => ~VerifiesServerCert(config)

\* Only what may pass by itself is tried again: once the server has turned the
\* session down, or there is no fallback for a TLS failure or an error of no
\* known kind, connect() is over.
RetriesOnlyTransient ==
    phase \in {"trying", "plain", "backoff"} =>
        /\ "rejected" \notin errors
        /\ errors \cap {"tls", "other"} # {} => target.mode = "prefer"

\* The patience of connect() is bounded: at most two connections per attempt,
\* the second only in prefer, and a second and a half of waiting (7 times 200 ms
\* with 3 retries).
TriesAreBounded ==
    /\ tries <= 2 * (MaxRetries + 1)
    /\ target.mode # "prefer" => tries <= MaxRetries + 1

WaitIsBounded == waited \in 0..(2 ^ MaxRetries - 1)

PatienceIsBounded == TriesAreBounded /\ WaitIsBounded

\* Every connect() comes to an end, unless a server that has accepted the
\* connection stays silent for ever.
NoSilenceLasts == []<>(peer # "silent")
ConnectEnds == NoSilenceLasts => (phase # "idle" ~> phase \in {"idle", "exited"})

----------------------------------------------------------------------------
(* The inductive invariant behind these: the second connection of an attempt *)
(* belongs to prefer, and the tries are counted against the attempts.        *)

OnlyPreferFallsBack == phase = "plain" => target.mode = "prefer"

TriesCounted ==
    /\ phase = "trying" => tries <= 2 * attempt
    /\ phase = "plain"  => tries <= 2 * attempt + 1
    /\ tries <= 2 * attempt + 2
    /\ target.mode # "prefer" => /\ tries <= attempt + 1
                                 /\ phase = "trying" => tries <= attempt

BackoffIsShort == phase = "backoff" => attempt < MaxRetries

\* The delays of the attempts so far add up to one less than the next one.
WaitFollowsAttempt == waited = 2 ^ attempt - 1

IInv ==
    /\ TypeOK
    /\ OnlyPreferFallsBack
    /\ TriesCounted
    /\ BackoffIsShort
    /\ ClientKeepsConfig
    /\ RetriesOnlyTransient
=============================================================================
