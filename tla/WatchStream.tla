----------------------------- MODULE WatchStream -----------------------------
(***************************************************************************)
(* The capture stream from Control-Center: how a transport is negotiated,   *)
(* the version gates, and the events a watch loop gets from it              *)
(* (ma-core/src/capture/stream.rs, ma-core/src/capture/compat.rs), with the *)
(* answer of StartWatch and what the loop records of the events.            *)
(*                                                                         *)
(* A version is a number in the order of releases; Absent is an empty one   *)
(* and Other one that cannot be parsed.                                     *)
(***************************************************************************)
EXTENDS Naturals, Sequences, FiniteSetsExt

CONSTANTS
    SUPPORTED_MIN, SUPPORTED_MAX, RECORD_FIDELITY_MIN,
    MAX_ATTEMPTS,
    SilenceTimeout,   \* silence_timeout_seconds, in ticks
    Security,         \* control_center_security: the settings to consider
    Releases,         \* versions of Control-Center, server and agent
    Absent, Other,    \* what may come instead of a version
    Unparsed,         \* those of the two that do
    MaxVersions,      \* control_center_max_version: the settings to consider
    None              \* nothing yet

ASSUME VersionsAreOrdered ==
    /\ Releases \subseteq Nat /\ {SUPPORTED_MIN, SUPPORTED_MAX, RECORD_FIDELITY_MIN} \subseteq Nat
    /\ SUPPORTED_MIN <= SUPPORTED_MAX
    /\ Unparsed \subseteq {Absent, Other} /\ Absent # Other
    /\ {Absent, Other, None} \cap Releases = {} /\ None \notin {Absent, Other}
    /\ MaxVersions \subseteq Releases \cup {Absent}
    /\ MAX_ATTEMPTS \in Nat \ {0} /\ SilenceTimeout \in Nat \ {0}
    /\ Security \subseteq {"auto", "strict", "legacy"}
ASSUME NoneIsNoFailure == None \notin {"channel", "config", "status", "auth", "unsupported"}

VARIABLES
    cc,       \* CcEndpoint: the configuration
    conn,     \* the connection being made: step, attempt, transport, the server
              \* that answered, outcome
    stream,   \* WatchStream
    meta,     \* what CaptureState records: provenance, and the version of the
              \* agent whose command became the latest step
    reg,      \* the status of the Redis record
    hist      \* history: tls: how the TLS try of this attempt ended; clear: a
              \* token was sent in plaintext; down: a connection in plaintext
              \* under auto

vars == <<cc, conn, stream, meta, reg, hist>>

Reports == Releases \cup Unparsed

Transports == {"tls", "plaintext"}

(* ConnectFailure.  Transport is the one for a channel that could not be    *)
(* had, for a CA or a token that cannot be used and for any status other    *)
(* than a refused token.                                                    *)
TransportFailures == {"channel", "config", "status"}
Failures == TransportFailures \cup {"auth", "unsupported"}

CcEndpoints == [security : Security, token : {"unset", "set", "malformed"}, max : MaxVersions,
                allow : BOOLEAN]
(* speaks: the transports it accepts; scoped: it checks the token.          *)
Servers == [speaks : SUBSET Transports, scoped : BOOLEAN, version : Reports]
ConnPCs == {"idle", "dial", "identity", "watch", "hung", "failed", "up", "refused"}

Conns ==
    [pc : ConnPCs, attempt : 0 .. MAX_ATTEMPTS, index : 1 .. 2, server : Servers \cup {None},
     fault : Failures \cup {None}, version : Reports \cup {Absent, None}]
Streams ==
    [checked : Reports \cup {Absent}, quiet : 0 .. SilenceTimeout,
     reason : {None, "silence", "transport", "agent_gone", "lossy"}]
Metas ==
    [transport : Transports \cup {None}, server : Reports \cup {Absent, None},
     agent : Reports \cup {Absent}, by : Reports \cup {None}]
Hists == [tls : Failures \cup {None}, clear : BOOLEAN, down : BOOLEAN]

TypeOK ==
    /\ cc \in CcEndpoints /\ conn \in Conns /\ stream \in Streams
    /\ meta \in Metas /\ reg \in {"active", "incomplete"} /\ hist \in Hists

Unconnected(pc) ==
    [pc |-> pc, attempt |-> 0, index |-> 1, server |-> None, fault |-> None, version |-> None]

Init ==
    /\ cc \in CcEndpoints
    /\ conn = Unconnected("idle")
    /\ stream = [checked |-> Absent, quiet |-> 0, reason |-> None]
    /\ meta = [transport |-> None, server |-> None, agent |-> Absent, by |-> None]
    /\ reg = "active"
    /\ hist = [tls |-> None, clear |-> FALSE, down |-> FALSE]

-----------------------------------------------------------------------------
(* transport_plan.                                                          *)
Plan == CASE cc.security = "auto" -> <<"tls", "plaintext">>
          [] cc.security = "strict" -> <<"tls">>
          [] cc.security = "legacy" -> <<"plaintext">>

Transport == Plan[conn.index]

credentials_allowed == Transport = "tls" \/ cc.security = "legacy"
Token == cc.token = "set" /\ credentials_allowed

(* compat::evaluate, and the refusal its verdict carries.                   *)
Ceiling_Replaced == IF cc.max \in Releases THEN cc.max ELSE SUPPORTED_MAX   \* the setting may lower it

Ceiling == IF cc.max \in Releases THEN Max({cc.max, SUPPORTED_MAX}) ELSE SUPPORTED_MAX

Refused(v) == v \in Releases /\ (v > Ceiling \/ v < SUPPORTED_MIN)

(* compat::evaluate_agent.                                                  *)
Lossy(v) == v \in Releases /\ v < RECORD_FIDELITY_MIN

Fail(fault, v) ==
    conn' = [conn EXCEPT !.pc = "failed", !.server = None, !.fault = fault, !.version = v]

Sent == hist' = [hist EXCEPT !.clear = @ \/ (Token /\ Transport = "plaintext")]

(* StartWatch spawns the loop and waits for its report.                     *)
StartWatch ==
    /\ conn.pc = "idle"
    /\ conn' = [conn EXCEPT !.pc = "dial", !.attempt = 1]
    /\ UNCHANGED <<cc, stream, meta, reg, hist>>

(* try_connect: the channel, after the CA is read.  The server may come up, *)
(* go away or be replaced between two tries.                                *)
Dial ==
    /\ conn.pc = "dial"
    /\ \/ \E fault \in {"channel", "config"} : Fail(fault, None)
       \/ \E s \in Servers :
             /\ Transport \in s.speaks
             /\ conn' = [conn EXCEPT !.pc = "identity", !.server = s]
    /\ UNCHANGED <<cc, stream, meta, reg, hist>>

(* check_version: an identity that cannot be read is an unknown version.    *)
CheckVersion(answered) ==
    LET v == IF answered THEN conn.server.version ELSE Absent
    IN  /\ conn.pc = "identity"
        /\ answered /\ conn.server.scoped => Token
        /\ Absent \in Unparsed \/ answered
        /\ Sent
        /\ IF Refused(v) /\ ~cc.allow
           THEN Fail("unsupported", v)
           ELSE conn' = [conn EXCEPT !.pc = "watch", !.version = v]
        /\ UNCHANGED <<cc, stream, meta, reg>>

(* A token that cannot be a header goes with no call.  It is let pass where *)
(* the version is asked for, and is a failure here.                         *)
TokenUnusable == cc.token = "malformed" /\ credentials_allowed

BadToken ==
    /\ conn.pc = "watch" /\ TokenUnusable
    /\ Fail("config", conn.version)
    /\ UNCHANGED <<cc, stream, meta, reg, hist>>

(* watch_commands.  A server that checks tokens refuses the call without    *)
(* one, and may refuse it with one; any server may answer another status.   *)
(* A stream that is up is recorded with its transport and version, and      *)
(* in_progress is set.                                                      *)
WatchCommands(status) ==
    /\ conn.pc = "watch" /\ ~TokenUnusable
    /\ status = "ok" /\ conn.server.scoped => Token
    /\ status = "auth" => conn.server.scoped
    /\ IF status = "ok"
       THEN /\ conn' = Unconnected("up")
            /\ meta' = [meta EXCEPT !.transport = Transport, !.server = conn.version]
            /\ hist' = [hist EXCEPT !.clear = @ \/ (Token /\ Transport = "plaintext"),
                                    !.down = cc.security = "auto" /\ Transport = "plaintext"]
       ELSE /\ Fail(status, conn.version)
            /\ Sent
            /\ UNCHANGED meta
    /\ UNCHANGED <<cc, stream, reg>>

(* A call that a server took and never answers: there is no timeout on the  *)
(* channel, on get_server_identity or on watch_commands.                    *)
Hang ==
    /\ conn.pc \in {"dial", "identity", "watch"}
    /\ conn.pc = "watch" => ~TokenUnusable
    /\ conn' = [conn EXCEPT !.pc = "hung"]
    /\ IF conn.pc = "dial" THEN UNCHANGED hist ELSE Sent
    /\ UNCHANGED <<cc, stream, meta, reg>>

Negotiate_AnyFailure ==   \* every failure goes on to the next transport
    /\ conn.pc = "failed" /\ conn.index < Len(Plan)
    /\ conn' = [conn EXCEPT !.pc = "dial", !.index = @ + 1, !.fault = None, !.version = None]
    /\ hist' = [hist EXCEPT !.tls = conn.fault]
    /\ UNCHANGED <<cc, stream, meta, reg>>

(* negotiate: the next transport of the plan, after a failure that counts   *)
(* as one of the transport.                                                 *)
Negotiate ==
    /\ conn.pc = "failed" /\ conn.fault \in TransportFailures /\ conn.index < Len(Plan)
    /\ conn' = [conn EXCEPT !.pc = "dial", !.index = @ + 1, !.fault = None, !.version = None]
    /\ hist' = [hist EXCEPT !.tls = conn.fault]
    /\ UNCHANGED <<cc, stream, meta, reg>>

Exhausted == conn.fault \notin TransportFailures \/ conn.index = Len(Plan)
Retryable_Forever == conn.fault \in TransportFailures   \* attempts are not limited

Retryable == conn.fault \in TransportFailures /\ conn.attempt < MAX_ATTEMPTS

Retry_Uncounted ==   \* the attempt is not counted
    /\ conn.pc = "failed" /\ Exhausted /\ Retryable
    /\ conn' = [conn EXCEPT !.pc = "dial", !.index = 1, !.fault = None, !.version = None]
    /\ hist' = [hist EXCEPT !.tls = None]
    /\ UNCHANGED <<cc, stream, meta, reg>>

(* connect: another attempt after a pause.                                  *)
Retry ==
    /\ conn.pc = "failed" /\ Exhausted /\ Retryable
    /\ conn' = [conn EXCEPT !.pc = "dial", !.attempt = @ + 1, !.index = 1, !.fault = None, !.version = None]
    /\ hist' = [hist EXCEPT !.tls = None]
    /\ UNCHANGED <<cc, stream, meta, reg>>

(* The loop reports the failure and StartWatch settles the session.         *)
GiveUp ==
    /\ conn.pc = "failed" /\ Exhausted /\ ~Retryable
    /\ conn' = [conn EXCEPT !.pc = "refused"]
    /\ reg' = "incomplete"
    /\ UNCHANGED <<cc, stream, meta, hist>>

-----------------------------------------------------------------------------
Live == conn.pc = "up" /\ stream.reason = None

Disconnect_ReasonOnly(reason) ==   \* the record is left as it is
    /\ stream' = [stream EXCEPT !.reason = reason]
    /\ UNCHANGED <<cc, conn, meta, reg, hist>>

(* The stream ends; the loop's DisconnectHandler settles the session.       *)
Disconnect(reason) ==
    /\ stream' = [stream EXCEPT !.reason = reason]
    /\ reg' = "incomplete"
    /\ UNCHANGED <<cc, conn, meta, hist>>

Took(v) == [stream EXCEPT !.quiet = 0, !.checked = IF v = Absent THEN @ ELSE v]

(* next_event, and what the loop keeps of the event: the gate comes before  *)
(* a heartbeat is dropped, and again when the agent's version changes.      *)
NextEvent_FirstOnly(kind, v) ==   \* the first version an agent reports is the only one checked
    /\ Live
    /\ IF stream.checked = Absent /\ Lossy(v) /\ ~cc.allow
       THEN Disconnect("lossy")
       ELSE /\ stream' = Took(v)
            /\ meta' = IF kind = "heartbeat" THEN meta
                       ELSE [meta EXCEPT !.agent = IF @ = Absent THEN v ELSE @,
                                         !.by = IF kind = "step" THEN v ELSE @]
            /\ UNCHANGED <<cc, conn, reg, hist>>

NextEvent(kind, v) ==
    /\ Live
    /\ IF v # stream.checked /\ Lossy(v) /\ ~cc.allow
       THEN Disconnect("lossy")
       ELSE /\ stream' = Took(v)
            /\ meta' = IF kind = "heartbeat" THEN meta
                       ELSE [meta EXCEPT !.agent = IF @ = Absent THEN v ELSE @,
                                         !.by = IF kind = "step" THEN v ELSE @]
            /\ UNCHANGED <<cc, conn, reg, hist>>

(* The timeout is that of one message: any message starts it anew.          *)
Tick ==
    /\ Live /\ stream.quiet < SilenceTimeout
    /\ stream' = [stream EXCEPT !.quiet = @ + 1]
    /\ UNCHANGED <<cc, conn, meta, reg, hist>>

Silence == Live /\ stream.quiet = SilenceTimeout /\ Disconnect("silence")
StreamEnds == Live /\ \E reason \in {"transport", "agent_gone"} : Disconnect(reason)

-----------------------------------------------------------------------------
Connecting ==
    \/ Dial
    \/ \E answered \in BOOLEAN : CheckVersion(answered)
    \/ \E status \in {"ok", "auth", "status"} : WatchCommands(status)
    \/ BadToken \/ Negotiate \/ Retry \/ GiveUp

Next ==
    \/ StartWatch \/ Connecting \/ Hang
    \/ \E kind \in {"heartbeat", "position", "step"}, v \in Reports : NextEvent(kind, v)
    \/ Tick \/ Silence \/ StreamEnds

Spec == Init /\ [][Next]_vars
FairSpec == Spec /\ WF_vars(Connecting) /\ WF_vars(Tick) /\ WF_vars(Silence)

-----------------------------------------------------------------------------
(* Under "auto" an unencrypted connection comes only after a try over TLS    *)
(* in the same attempt, and no retry carries that try over to the next one;  *)
(* a refused token or version is never the reason for it, and the            *)
(* credentials never go with it.  The reason need not be that TLS could not  *)
(* be had: see TransportFailures (negotiate, try_connect, connect).          *)
DowngradeIsJustified ==
    /\ hist.down => hist.tls \in TransportFailures
    /\ hist.tls \notin {"auth", "unsupported"}
    /\ hist.clear => cc.security = "legacy"

(* No step is recorded from an agent that reports a version known to cut    *)
(* commands short, even if the agent behind the stream is replaced while a  *)
(* session records; unless the operator asked for it (next_event,           *)
(* evaluate_agent).                                                         *)
NoLossySteps == ~cc.allow => ~Lossy(meta.by)

InRange(v) ==
    /\ v >= SUPPORTED_MIN
    /\ v <= SUPPORTED_MAX \/ (cc.max \in Releases /\ v <= cc.max)

(* A recording comes from a server in the supported range, one that did not *)
(* say, or one the operator let pass, whatever was retried and replaced      *)
(* meanwhile; and StartWatch refuses no server in the range for its version: *)
(* a setting that should raise the ceiling cannot lower it (check_version,   *)
(* evaluate, connect).                                                       *)
SupportedServer ==
    /\ meta.by # None /\ meta.server \in Releases /\ ~cc.allow => InRange(meta.server)
    /\ conn.fault = "unsupported" => ~cc.allow /\ ~InRange(conn.version)

(* As long as its calls come back, StartWatch is answered: the stream comes  *)
(* up or the session is settled as incomplete, however often the server is   *)
(* replaced.  What keeps it waiting is a call that never returns (connect).  *)
StartAnswered ==
    conn.pc = "dial" ~> \/ conn.pc \in {"up", "hung"}
                        \/ conn.pc = "refused" /\ reg = "incomplete"

(* A stream that falls silent does not leave its session active: no         *)
(* message for the time of the timeout ends it (next_event).                *)
SilenceNoticed == conn.pc = "up" /\ stream.quiet > 0 ~> stream.quiet = 0 \/ reg = "incomplete"

-----------------------------------------------------------------------------
(* The strengthening that makes the three invariants inductive: the plan    *)
(* has the transport that is tried, an identity is asked of a server, and    *)
(* only a failed try has a fault; an attempt that has gone on to plaintext   *)
(* under "auto" remembers why; the agent last checked was let pass, and so   *)
(* was the server that is about to be recorded.                              *)
Reached ==
    /\ conn.index <= Len(Plan)
    /\ conn.pc = "identity" => conn.server \in Servers
    /\ conn.pc \notin {"failed", "refused"} => conn.fault = None

TurnedDown ==
    /\ cc.security = "auto" /\ conn.index = 2 => hist.tls \in TransportFailures
    /\ hist.down => conn.pc = "up"

Passed ==
    ~cc.allow =>
        /\ ~Lossy(stream.checked)
        /\ conn.pc = "watch" /\ conn.version \in Releases => InRange(conn.version)
        /\ meta.server \in Releases => InRange(meta.server)

WatchInv ==
    /\ TypeOK /\ Reached /\ TurnedDown /\ Passed
    /\ DowngradeIsJustified /\ NoLossySteps /\ SupportedServer
=============================================================================
