-------------------------- MODULE WatchStream_proofs --------------------------
(***************************************************************************)
(* Proofs about WatchStream, for any releases, limits, settings and number  *)
(* of attempts.  WatchInv is the inductive invariant.  Each lemma about a   *)
(* step has one case per action; actions that leave alone what the          *)
(* conjunct is about need no more than their definition.                    *)
(***************************************************************************)
EXTENDS WatchStream, TLAPS

(* The greater of two versions.                                             *)
LEMMA MaxOfTwo ==
  ASSUME NEW a \in Nat, NEW b \in Nat
  PROVE  Max({a, b}) = IF a >= b THEN a ELSE b
BY DEF Max

(* The ceiling of the gate is the one the operator reads in InRange: the    *)
(* setting raises it and never lowers it.                                   *)
LEMMA CeilingRaised ==
  ASSUME cc.max \in Releases \cup {Absent}, NEW v \in Releases
  PROVE  Refused(v) <=> ~InRange(v)
<1>1. v \in Nat /\ SUPPORTED_MAX \in Nat /\ SUPPORTED_MIN \in Nat
  BY VersionsAreOrdered
<1>2. CASE cc.max \in Releases
  <2>1. cc.max \in Nat
    BY <1>2, VersionsAreOrdered
  <2>2. Ceiling = IF cc.max >= SUPPORTED_MAX THEN cc.max ELSE SUPPORTED_MAX
    BY <1>1, <1>2, <2>1, MaxOfTwo DEF Ceiling
  <2> QED BY <1>1, <1>2, <2>1, <2>2 DEF Refused, InRange
<1>3. CASE cc.max \notin Releases
  BY <1>1, <1>3 DEF Refused, InRange, Ceiling
<1> QED BY <1>2, <1>3

(* A plan goes on to plaintext only under "auto", and starts with TLS then. *)
LEMMA PlanShape ==
  ASSUME TypeOK
  PROVE  /\ conn.index < Len(Plan) => cc.security = "auto" /\ conn.index = 1
         /\ cc.security = "auto" /\ Transport = "plaintext" => conn.index = 2
         /\ cc.security = "auto" => Plan = <<"tls", "plaintext">>
         /\ cc.security = "strict" => Plan = <<"tls">>
         /\ cc.security = "legacy" => Plan = <<"plaintext">>
<1>a. cc.security \in {"auto", "strict", "legacy"}
  BY VersionsAreOrdered DEF TypeOK, CcEndpoints
<1>b. conn.index \in 1 .. 2
  BY DEF TypeOK, Conns
<1>1. cc.security \in {"auto", "strict", "legacy"} /\ conn.index \in {1, 2}
  BY <1>a, <1>b
<1>2. CASE cc.security = "auto"
  BY <1>1, <1>2 DEF Plan, Transport
<1>3. CASE cc.security = "strict"
  BY <1>1, <1>3 DEF Plan, Transport
<1>4. CASE cc.security = "legacy"
  BY <1>1, <1>4 DEF Plan, Transport
<1> QED BY <1>1, <1>2, <1>3, <1>4

LEMMA PlanStarts ==
  ASSUME TypeOK
  PROVE  1 <= Len(Plan) /\ Len(Plan) \in Nat
<1>1. cc.security \in {"auto", "strict", "legacy"}
  BY VersionsAreOrdered DEF TypeOK, CcEndpoints
<1> QED BY <1>1, PlanShape

(* The initial states satisfy the invariant.                                *)
LEMMA InitInv == Init => WatchInv
<1> SUFFICES ASSUME Init PROVE WatchInv
  OBVIOUS
<1>1. TypeOK
  BY VersionsAreOrdered
  DEF Init, TypeOK, Unconnected, ConnPCs, Conns, Streams, Metas, Hists
<1>2. TurnedDown /\ DowngradeIsJustified
  BY NoneIsNoFailure DEF Init, TurnedDown, DowngradeIsJustified, Unconnected
<1>3. Passed /\ NoLossySteps /\ SupportedServer
  BY VersionsAreOrdered, NoneIsNoFailure
  DEF Init, Passed, NoLossySteps, SupportedServer, Lossy, Unconnected
<1>4. Reached
  BY <1>1, PlanStarts DEF Init, Reached, Unconnected
<1> QED BY <1>1, <1>2, <1>3, <1>4 DEF WatchInv

(* The fields, and what a failed try becomes.                               *)
LEMMA Fields ==
  ASSUME TypeOK
  PROVE  /\ conn.pc \in ConnPCs /\ conn.attempt \in 0 .. MAX_ATTEMPTS /\ conn.index \in 1 .. 2
         /\ conn.fault \in Failures \cup {None} /\ conn.version \in Reports \cup {Absent, None}
         /\ conn.server \in Servers \cup {None}
         /\ cc.max \in Releases \cup {Absent} /\ cc.allow \in BOOLEAN
         /\ stream.quiet \in 0 .. SilenceTimeout /\ stream.checked \in Reports \cup {Absent}
BY VersionsAreOrdered DEF TypeOK, CcEndpoints, Conns, Streams

LEMMA FailTyped ==
  ASSUME conn \in Conns, NEW fault \in Failures, NEW v \in Reports \cup {Absent, None},
         Fail(fault, v)
  PROVE  conn' \in Conns
<1>1. "failed" \in ConnPCs
  BY DEF ConnPCs
<1> QED BY <1>1 DEF Fail, Conns

LEMMA DialTyped ==
  ASSUME conn \in Conns, NEW n \in 0 .. MAX_ATTEMPTS,
         conn' = [conn EXCEPT !.pc = "dial", !.attempt = n, !.index = 1,
                              !.fault = None, !.version = None]
  PROVE  conn' \in Conns
<1>1. "dial" \in ConnPCs /\ 1 \in 1 .. 2
  BY DEF ConnPCs
<1> QED BY <1>1 DEF Conns

LEMMA SentTyped ==
  ASSUME hist \in Hists, Sent
  PROVE  hist' \in Hists
BY DEF Hists, Sent

(* The transport tried is one of the two.                                   *)
LEMMA TransportTyped ==
  ASSUME TypeOK, Reached
  PROVE  Transport \in Transports
<1>1. cc.security \in {"auto", "strict", "legacy"} /\ conn.index \in 1 .. 2
  BY VersionsAreOrdered DEF TypeOK, CcEndpoints, Conns
<1>2. conn.index \in {1, 2}
  BY <1>1
<1>3. CASE cc.security = "auto"
  BY <1>2, <1>3, PlanShape DEF Transport, Transports
<1>4. CASE cc.security # "auto"
  <2>1. conn.index <= 1 /\ (Plan = <<"tls">> \/ Plan = <<"plaintext">>)
    BY <1>1, <1>2, <1>4, PlanShape DEF Reached
  <2>2. conn.index = 1
    BY <1>2, <2>1
  <2> QED BY <2>1, <2>2 DEF Transport, Transports
<1> QED BY <1>3, <1>4

(* Messages of the stream: none changes the connection or the configuration. *)
LEMMA DisconnectTyped ==
  ASSUME TypeOK, NEW reason \in {"silence", "transport", "agent_gone", "lossy"},
         Disconnect(reason)
  PROVE  TypeOK'
<1>1. stream' \in Streams
  BY DEF TypeOK, Disconnect, Streams
<1> QED BY <1>1 DEF TypeOK, Disconnect

(* The types are kept.                                                      *)
LEMMA TypeStep ==
  ASSUME TypeOK, Reached, [Next]_vars
  PROVE  TypeOK'
<1> USE DEF TypeOK
<1>a. conn \in Conns /\ stream \in Streams /\ meta \in Metas /\ hist \in Hists
  OBVIOUS
<1>1. CASE StartWatch
  <2>1. 1 \in 0 .. MAX_ATTEMPTS
    BY VersionsAreOrdered
  <2>2. "dial" \in ConnPCs
    BY DEF ConnPCs
  <2>3. conn' \in Conns
    BY <1>a, <1>1, <2>1, <2>2 DEF StartWatch, Conns
  <2> QED BY <1>1, <2>3 DEF StartWatch
<1>2. CASE Dial
  <2>1. ASSUME NEW fault \in {"channel", "config"}, Fail(fault, None)
        PROVE  TypeOK'
    <3>1. conn' \in Conns
      BY <1>a, <2>1, FailTyped DEF Failures, TransportFailures
    <3> QED BY <1>2, <3>1 DEF Dial
  <2>2. ASSUME NEW s \in Servers, conn' = [conn EXCEPT !.pc = "identity", !.server = s]
        PROVE  TypeOK'
    <3>1. "identity" \in ConnPCs
      BY DEF ConnPCs
    <3>2. conn' \in Conns
      BY <1>a, <2>2, <3>1 DEF Conns
    <3> QED BY <1>2, <3>2 DEF Dial
  <2> QED BY <1>2, <2>1, <2>2 DEF Dial
<1>3. ASSUME NEW answered \in BOOLEAN, CheckVersion(answered)
      PROVE  TypeOK'
  <2> DEFINE v == IF answered THEN conn.server.version ELSE Absent
  <2>1. v \in Reports \cup {Absent, None}
    BY <1>3 DEF CheckVersion, Reached, Servers
  <2>2. hist' \in Hists
    BY <1>a, <1>3, SentTyped DEF CheckVersion
  <2>3. CASE Fail("unsupported", v)
    <3>1. conn' \in Conns
      BY <1>a, <2>1, <2>3, FailTyped DEF Failures
    <3> QED BY <1>3, <2>2, <3>1 DEF CheckVersion
  <2>4. CASE conn' = [conn EXCEPT !.pc = "watch", !.version = v]
    <3>1. "watch" \in ConnPCs
      BY DEF ConnPCs
    <3> HIDE DEF v
    <3>2. conn' \in Conns
      BY <1>a, <2>1, <2>4, <3>1 DEF Conns
    <3> QED BY <1>3, <2>2, <3>2 DEF CheckVersion
  <2> QED BY <1>3, <2>3, <2>4 DEF CheckVersion
<1>4. ASSUME NEW status \in {"ok", "auth", "status"}, WatchCommands(status)
      PROVE  TypeOK'
  <2>1. CASE status = "ok"
    <3>1. "up" \in ConnPCs /\ 0 \in 0 .. MAX_ATTEMPTS
      BY VersionsAreOrdered DEF ConnPCs
    <3>2. Unconnected("up") \in Conns
      BY <3>1 DEF Unconnected, Conns
    <3>3. Transport \in Transports /\ conn.version \in Reports \cup {Absent, None}
      BY TransportTyped, Fields
    <3>4. meta' \in Metas
      BY <1>a, <1>4, <2>1, <3>3 DEF WatchCommands, Metas
    <3>5. hist' \in Hists
      BY <1>a, <1>4, <2>1 DEF WatchCommands, Hists
    <3> QED BY <1>4, <2>1, <3>2, <3>4, <3>5 DEF WatchCommands
  <2>2. CASE status # "ok"
    <3>1. status \in Failures /\ conn.version \in Reports \cup {Absent, None}
      BY <1>4, <2>2, Fields DEF Failures, TransportFailures
    <3>2. Fail(status, conn.version) /\ Sent /\ UNCHANGED <<cc, meta, stream, reg>>
      BY <1>4, <2>2 DEF WatchCommands
    <3>3. conn' \in Conns /\ hist' \in Hists
      BY <1>a, <3>1, <3>2, FailTyped, SentTyped
    <3> QED BY <3>2, <3>3
  <2> QED BY <2>1, <2>2
<1>b. "dial" \in ConnPCs /\ "refused" \in ConnPCs
  BY DEF ConnPCs
<1>5. CASE Negotiate
  <2>1. conn.index + 1 \in 1 .. 2
    BY <1>5, PlanShape DEF Negotiate
  <2>2. conn' \in Conns
    BY <1>a, <1>b, <1>5, <2>1 DEF Negotiate, Conns
  <2>3. hist' \in Hists
    BY <1>a, <1>5, Fields DEF Negotiate, Hists
  <2> QED BY <1>5, <2>2, <2>3 DEF Negotiate
<1>6. CASE Retry
  <2>1. conn.attempt + 1 \in 0 .. MAX_ATTEMPTS
    BY <1>6, Fields, VersionsAreOrdered DEF Retry, Retryable
  <2>a. conn' = [conn EXCEPT !.pc = "dial", !.attempt = @ + 1, !.index = 1,
                             !.fault = None, !.version = None]
    BY <1>6 DEF Retry
  <2>2. conn' \in Conns
    <3> DEFINE n == conn.attempt + 1
    <3>1. n \in 0 .. MAX_ATTEMPTS
      BY <2>1
    <3>2. conn' = [conn EXCEPT !.pc = "dial", !.attempt = n, !.index = 1,
                               !.fault = None, !.version = None]
      BY <2>a
    <3> HIDE DEF n
    <3> QED BY <1>a, <3>1, <3>2, DialTyped
  <2>3. hist' \in Hists
    BY <1>a, <1>6 DEF Retry, Hists
  <2> QED BY <1>6, <2>2, <2>3 DEF Retry
<1>7. CASE GiveUp
  <2>1. conn' \in Conns
    BY <1>a, <1>b, <1>7 DEF GiveUp, Conns
  <2> QED BY <1>7, <2>1 DEF GiveUp
<1>8. ASSUME NEW kind \in {"heartbeat", "position", "step"}, NEW v \in Reports,
             NextEvent(kind, v)
      PROVE  TypeOK'
  <2>1. CASE Disconnect("lossy")
    BY <2>1, DisconnectTyped
  <2>2. CASE ~Disconnect("lossy")
    <3>a. 0 \in 0 .. SilenceTimeout
      BY VersionsAreOrdered
    <3>1. stream' = Took(v)
      BY <1>8, <2>2 DEF NextEvent
    <3>2. stream' \in Streams
      BY <1>a, <3>a, <3>1 DEF Streams, Took
    <3>3. meta' \in Metas
      BY <1>a, <1>8, <2>2 DEF NextEvent, Metas
    <3> QED BY <1>8, <2>2, <3>2, <3>3 DEF NextEvent
  <2> QED BY <2>1, <2>2
<1>9. CASE Tick
  <2>1. stream.quiet + 1 \in 0 .. SilenceTimeout
    BY <1>9, Fields, VersionsAreOrdered DEF Tick
  <2>2. stream' \in Streams
    BY <1>a, <1>9, <2>1 DEF Tick, Streams
  <2> QED BY <1>9, <2>2 DEF Tick
<1>10. CASE Silence
  BY <1>10, DisconnectTyped DEF Silence
<1>11. CASE StreamEnds
  BY <1>11, DisconnectTyped DEF StreamEnds
<1>12. CASE UNCHANGED vars
  BY <1>12 DEF vars
<1>13. CASE BadToken
  <2>1. "config" \in Failures /\ conn.version \in Reports \cup {Absent, None}
    BY Fields DEF Failures, TransportFailures
  <2>2. conn' \in Conns
    BY <1>a, <1>13, <2>1, FailTyped DEF BadToken
  <2> QED BY <1>13, <2>2 DEF BadToken
<1>14. CASE Hang
  <2>1. conn' \in Conns
    BY <1>a, <1>14 DEF Hang, Conns, ConnPCs
  <2>2. hist' \in Hists
    BY <1>a, <1>14, SentTyped DEF Hang
  <2> QED BY <1>14, <2>1, <2>2 DEF Hang
<1> QED BY <1>1, <1>2, <1>3, <1>4, <1>5, <1>6, <1>7, <1>8, <1>9, <1>10, <1>11, <1>12, <1>13, <1>14
    DEF Next, Connecting

(* A server that is asked for its identity is there, and an attempt that    *)
(* goes on to plaintext under "auto" remembers how its try over TLS failed.  *)
LEMMA DownStep ==
  ASSUME WatchInv, [Next]_vars
  PROVE  Reached' /\ TurnedDown' /\ DowngradeIsJustified'
<1> USE DEF WatchInv, Reached, TurnedDown, DowngradeIsJustified
<1>a. Token /\ Transport = "plaintext" => cc.security = "legacy"
  BY DEF Token, credentials_allowed
<1>b. conn \in Conns /\ hist \in Hists
  BY DEF TypeOK
<1>c. 1 <= Len(Plan) /\ Len(Plan) \in Nat /\ conn.index \in Nat
  BY PlanStarts, Fields
<1>1. CASE StartWatch
  BY <1>1, <1>b DEF StartWatch, Conns, Plan
<1>2. CASE Dial
  <2>1. ASSUME NEW fault \in {"channel", "config"}, Fail(fault, None)
        PROVE  Reached' /\ TurnedDown' /\ DowngradeIsJustified'
    BY <1>2, <2>1, <1>b DEF Dial, Fail, Conns, Plan
  <2>2. ASSUME NEW s \in Servers, conn' = [conn EXCEPT !.pc = "identity", !.server = s]
        PROVE  Reached' /\ TurnedDown' /\ DowngradeIsJustified'
    BY <1>2, <2>2, <1>b DEF Dial, Conns, Plan
  <2> QED BY <1>2, <2>1, <2>2 DEF Dial
<1>3. ASSUME NEW answered \in BOOLEAN, CheckVersion(answered)
      PROVE  Reached' /\ TurnedDown' /\ DowngradeIsJustified'
  BY <1>3, <1>a, <1>b DEF CheckVersion, Sent, Fail, Conns, Hists, Plan
<1>4. ASSUME NEW status \in {"ok", "auth", "status"}, WatchCommands(status)
      PROVE  Reached' /\ TurnedDown' /\ DowngradeIsJustified'
  <2>1. CASE status = "ok"
    <3>1. conn' = Unconnected("up") /\ cc' = cc
      BY <1>4, <2>1 DEF WatchCommands
    <3>2. conn'.pc = "up" /\ conn'.index = 1 /\ conn'.fault = None /\ Plan' = Plan
      BY <3>1 DEF Unconnected, Plan
    <3>3. hist' = [hist EXCEPT !.clear = @ \/ (Token /\ Transport = "plaintext"),
                               !.down = cc.security = "auto" /\ Transport = "plaintext"]
      BY <1>4, <2>1 DEF WatchCommands
    <3>4. hist'.tls = hist.tls /\ (hist'.clear => cc.security = "legacy")
      BY <3>3, <1>a, <1>b DEF Hists
    <3>5. hist'.down => cc.security = "auto" /\ Transport = "plaintext"
      BY <3>3, <1>b DEF Hists
    <3>6. hist'.down => hist'.tls \in TransportFailures
      BY <3>4, <3>5, PlanShape
    <3> QED BY <3>1, <3>2, <3>4, <3>6, <1>c
  <2>2. CASE status # "ok"
    BY <1>4, <2>2, <1>a, <1>b DEF WatchCommands, Sent, Fail, Conns, Hists, Plan
  <2> QED BY <2>1, <2>2
<1>d. UNCHANGED cc => Plan' = Plan
  BY DEF Plan
<1>5. CASE Negotiate
  <2>1. conn'.pc = "dial" /\ conn'.index = conn.index + 1 /\ conn'.fault = None
    BY <1>5, <1>b DEF Negotiate, Conns
  <2>2. hist'.tls = conn.fault /\ hist'.clear = hist.clear /\ hist'.down = hist.down
        /\ conn.fault \in TransportFailures
    BY <1>5, <1>b DEF Negotiate, Hists
  <2>5. conn.fault \notin {"auth", "unsupported"}
    BY <2>2 DEF TransportFailures
  <2>3. hist.down = FALSE
    BY <1>5, <1>b DEF Negotiate, Hists
  <2>4. UNCHANGED cc /\ conn.index < Len(Plan)
    BY <1>5 DEF Negotiate
  <2> QED BY <2>1, <2>2, <2>3, <2>4, <2>5, <1>c, <1>d
<1>6. CASE Retry
  <2>1. conn'.pc = "dial" /\ conn'.index = 1 /\ conn'.fault = None
    BY <1>6, <1>b DEF Retry, Conns
  <2>2. hist'.tls = None /\ hist'.clear = hist.clear /\ hist'.down = hist.down
    BY <1>6, <1>b DEF Retry, Hists
  <2>3. hist.down = FALSE
    BY <1>6, <1>b DEF Retry, Hists
  <2>4. UNCHANGED cc
    BY <1>6 DEF Retry
  <2> QED BY <2>1, <2>2, <2>3, <2>4, <1>c, <1>d, NoneIsNoFailure
<1>7. CASE GiveUp
  BY <1>7, <1>b DEF GiveUp, Conns, Plan
<1>8. ASSUME UNCHANGED <<cc, conn, hist>>
      PROVE  Reached' /\ TurnedDown' /\ DowngradeIsJustified'
  BY <1>8 DEF Plan
<1>9. CASE BadToken
  BY <1>9, <1>b DEF BadToken, Fail, Conns, Plan
<1>10. CASE Hang
  BY <1>10, <1>a, <1>b DEF Hang, Sent, Conns, Hists, Plan
<1> QED BY <1>1, <1>2, <1>3, <1>4, <1>5, <1>6, <1>7, <1>8, <1>9, <1>10
    DEF Next, Connecting, NextEvent, Tick, Silence, StreamEnds, Disconnect, vars

(* What the gates let pass: after a message, the agent's version is either  *)
(* the one that was checked before or one that was checked now.             *)
LEMMA AgentStep ==
  ASSUME WatchInv, [Next]_vars
  PROVE  (~cc.allow => ~Lossy(stream.checked))' /\ NoLossySteps'
<1> USE DEF WatchInv
<1>a. stream \in Streams /\ meta \in Metas
  BY DEF TypeOK
<1>b. (~cc.allow => ~Lossy(stream.checked)) /\ NoLossySteps
  BY DEF Passed
<1>c. ~Lossy(Absent)
  BY VersionsAreOrdered DEF Lossy
<1>1. ASSUME UNCHANGED <<cc, meta.by, stream.checked>>
      PROVE  (~cc.allow => ~Lossy(stream.checked))' /\ NoLossySteps'
  BY <1>1, <1>b DEF NoLossySteps, Lossy
<1>2. ASSUME NEW status \in {"ok", "auth", "status"}, WatchCommands(status)
      PROVE  UNCHANGED <<cc, meta.by, stream.checked>>
  BY <1>2, <1>a DEF WatchCommands, Metas
<1>3. ASSUME NEW reason, Disconnect(reason)
      PROVE  UNCHANGED <<cc, meta.by, stream.checked>>
  BY <1>3, <1>a DEF Disconnect, Streams
<1>4. CASE Tick
  BY <1>4, <1>a, <1>1 DEF Tick, Streams
<1>5. ASSUME NEW kind \in {"heartbeat", "position", "step"}, NEW v \in Reports,
             NextEvent(kind, v)
      PROVE  (~cc.allow => ~Lossy(stream.checked))' /\ NoLossySteps'
  <2>1. CASE Disconnect("lossy")
    BY <2>1, <1>1, <1>3
  <2>2. CASE ~Disconnect("lossy")
    <3>1. ~cc.allow => ~Lossy(v)
      BY <1>5, <2>2, <1>b DEF NextEvent
    <3>2. stream'.checked \in {v, stream.checked} /\ cc' = cc
      BY <1>5, <2>2, <1>a DEF NextEvent, Took, Streams
    <3>3. meta'.by \in {v, meta.by}
      BY <1>5, <2>2, <1>a DEF NextEvent, Metas
    <3> QED BY <3>1, <3>2, <3>3, <1>b DEF NoLossySteps, Lossy
  <2> QED BY <2>1, <2>2
<1>6. ASSUME UNCHANGED <<cc, meta, stream>>
      PROVE  (~cc.allow => ~Lossy(stream.checked))' /\ NoLossySteps'
  BY <1>6, <1>1
<1>7. CASE Connecting
  BY <1>1, <1>2, <1>6, <1>7
  DEF Connecting, Dial, CheckVersion, BadToken, Negotiate, Retry, GiveUp
<1> QED BY <1>1, <1>3, <1>4, <1>5, <1>6, <1>7
    DEF Next, Hang, StartWatch, Silence, StreamEnds, vars

(* The server about to be recorded, and the one recorded, were let pass.    *)
Judged ==
  /\ conn.pc = "watch" /\ conn.version \in Releases /\ ~cc.allow => InRange(conn.version)
  /\ meta.server \in Releases /\ ~cc.allow => InRange(meta.server)
  /\ conn.fault = "unsupported" => ~cc.allow /\ ~InRange(conn.version)

LEMMA JudgedStep ==
  ASSUME WatchInv, [Next]_vars
  PROVE  Judged'
<1> USE DEF WatchInv
<1>a. conn \in Conns /\ meta \in Metas /\ stream \in Streams /\ cc.max \in Releases \cup {Absent}
  BY Fields DEF TypeOK
<1>b. Judged
  BY DEF Judged, Passed, SupportedServer
<1>c. conn.pc \notin {"failed", "refused"} => conn.fault = None
  BY DEF Reached
<1>1. ASSUME cc' = cc, meta'.server = meta.server, conn'.pc # "watch",
             conn'.fault # "unsupported"
      PROVE  Judged'
  BY <1>1, <1>b DEF Judged, InRange
<1>2. ASSUME UNCHANGED <<cc, conn, meta.server>>
      PROVE  Judged'
  BY <1>2, <1>b DEF Judged, InRange
<1>3. CASE StartWatch
  <2>1. conn'.pc = "dial" /\ conn'.fault = conn.fault /\ cc' = cc /\ meta' = meta
    BY <1>3, <1>a DEF StartWatch, Conns
  <2>2. conn.fault = None
    BY <1>3, <1>c DEF StartWatch
  <2> QED BY <2>1, <2>2, <1>1, NoneIsNoFailure
<1>4. CASE Dial
  <2>1. cc' = cc /\ meta' = meta /\ conn.fault = None
    BY <1>4, <1>c DEF Dial
  <2>2. ASSUME NEW fault \in {"channel", "config"}, Fail(fault, None)
        PROVE  Judged'
    <3>1. conn'.pc = "failed" /\ conn'.fault = fault
      BY <2>2, <1>a DEF Fail, Conns
    <3> QED BY <2>1, <3>1, <1>1
  <2>3. ASSUME NEW s \in Servers, conn' = [conn EXCEPT !.pc = "identity", !.server = s]
        PROVE  Judged'
    <3>1. conn'.pc = "identity" /\ conn'.fault = conn.fault
      BY <2>3, <1>a DEF Conns
    <3> QED BY <2>1, <3>1, <1>1, NoneIsNoFailure
  <2> QED BY <1>4, <2>2, <2>3 DEF Dial
<1>5. ASSUME NEW answered \in BOOLEAN, CheckVersion(answered)
      PROVE  Judged'
  <2> DEFINE v == IF answered THEN conn.server.version ELSE Absent
  <2>1. cc' = cc /\ meta' = meta /\ conn.fault = None
    BY <1>5, <1>c DEF CheckVersion
  <2>2. CASE Refused(v) /\ ~cc.allow
    <3>1. Fail("unsupported", v)
      BY <1>5, <2>2 DEF CheckVersion
    <3>2. v \in Releases
      BY <2>2 DEF Refused
    <3> HIDE DEF v
    <3>3. conn'.pc = "failed" /\ conn'.version = v
      BY <3>1, <1>a DEF Fail, Conns
    <3>4. ~InRange(v)
      BY <2>2, <3>2, <1>a, CeilingRaised
    <3> QED BY <2>1, <2>2, <3>3, <3>4, <1>b DEF Judged, InRange
  <2>3. CASE ~(Refused(v) /\ ~cc.allow)
    <3>1. conn' = [conn EXCEPT !.pc = "watch", !.version = v]
      BY <1>5, <2>3 DEF CheckVersion
    <3> HIDE DEF v
    <3>2. conn'.pc = "watch" /\ conn'.version = v /\ conn'.fault = None
      BY <2>1, <3>1, <1>a DEF Conns
    <3>3. v \in Releases /\ ~cc.allow => InRange(v)
      BY <2>3, <1>a, CeilingRaised
    <3> QED BY <2>1, <3>2, <3>3, <1>b, NoneIsNoFailure DEF Judged, InRange
  <2> QED BY <2>2, <2>3
<1>6. ASSUME NEW status \in {"ok", "auth", "status"}, WatchCommands(status)
      PROVE  Judged'
  <2>0. conn.pc = "watch" /\ cc' = cc
    BY <1>6 DEF WatchCommands
  <2>1. CASE status = "ok"
    <3>1. conn'.pc = "up" /\ conn'.fault = None
      BY <1>6, <2>1 DEF WatchCommands, Unconnected
    <3>2. meta'.server = conn.version
      BY <1>6, <2>1, <1>a DEF WatchCommands, Metas
    <3> QED BY <2>0, <3>1, <3>2, <1>b, NoneIsNoFailure DEF Judged, InRange
  <2>2. CASE status # "ok"
    <3>1. Fail(status, conn.version) /\ meta' = meta /\ status # "unsupported"
      BY <1>6, <2>2 DEF WatchCommands
    <3>2. conn'.pc = "failed" /\ conn'.fault # "unsupported"
      BY <3>1, <1>a DEF Fail, Conns
    <3> QED BY <2>0, <3>1, <3>2, <1>1
  <2> QED BY <2>1, <2>2
<1>7. CASE Negotiate \/ Retry
  <2>1. conn'.pc = "dial" /\ conn'.fault = None /\ cc' = cc /\ meta' = meta
    BY <1>7, <1>a DEF Negotiate, Retry, Conns
  <2> QED BY <2>1, <1>1, NoneIsNoFailure
<1>8. CASE GiveUp
  <2>1. conn'.pc = "refused" /\ conn'.fault = conn.fault /\ conn'.version = conn.version
    BY <1>8, <1>a DEF GiveUp, Conns
  <2>2. cc' = cc /\ meta' = meta
    BY <1>8 DEF GiveUp
  <2> QED BY <2>1, <2>2, <1>b DEF Judged, InRange
<1>9. ASSUME NEW kind \in {"heartbeat", "position", "step"}, NEW v \in Reports,
             NextEvent(kind, v)
      PROVE  Judged'
  <2>1. UNCHANGED <<cc, conn>> /\ meta'.server = meta.server
    BY <1>9, <1>a DEF NextEvent, Disconnect, Metas
  <2> QED BY <2>1, <1>2
<1>10. CASE Tick \/ Silence \/ StreamEnds
  BY <1>10, <1>2 DEF Tick, Silence, StreamEnds, Disconnect
<1>11. CASE UNCHANGED vars
  BY <1>11, <1>2 DEF vars
<1>12. CASE BadToken
  <2>1. conn'.pc = "failed" /\ conn'.fault = "config"
    BY <1>12, <1>a DEF BadToken, Fail, Conns
  <2>2. cc' = cc /\ meta' = meta
    BY <1>12 DEF BadToken
  <2> QED BY <2>1, <2>2, <1>1
<1>13. CASE Hang
  <2>1. conn'.pc = "hung" /\ conn'.fault = conn.fault /\ cc' = cc /\ meta' = meta
    BY <1>13, <1>a DEF Hang, Conns
  <2>2. conn.fault = None
    BY <1>13, <1>c DEF Hang
  <2> QED BY <2>1, <2>2, <1>1, NoneIsNoFailure
<1> QED BY <1>3, <1>4, <1>5, <1>6, <1>7, <1>8, <1>9, <1>10, <1>11, <1>12, <1>13
    DEF Next, Connecting

(* The invariant is kept.                                                   *)
LEMMA WatchStep == WatchInv /\ [Next]_vars => WatchInv'
<1> SUFFICES ASSUME WatchInv, [Next]_vars PROVE WatchInv'
  OBVIOUS
<1>1. TypeOK'
  BY TypeStep DEF WatchInv
<1>2. Reached' /\ TurnedDown' /\ DowngradeIsJustified'
  BY DownStep
<1>3. (~cc.allow => ~Lossy(stream.checked))' /\ NoLossySteps'
  BY AgentStep
<1>4. Passed' /\ SupportedServer'
  BY <1>3, JudgedStep DEF Judged, Passed, SupportedServer
<1> QED BY <1>1, <1>2, <1>3, <1>4 DEF WatchInv

THEOREM WatchSafe == Spec => []WatchInv
BY InitInv, WatchStep, PTL DEF Spec

(* Every variable keeps its type.                                           *)
THEOREM WatchTypes == Spec => []TypeOK
<1>1. WatchInv => TypeOK
  BY DEF WatchInv
<1> QED BY <1>1, WatchSafe, PTL

(* negotiate goes on to plaintext only after a try over TLS that failed in   *)
(* the same attempt with neither the token nor the version refused, and      *)
(* try_connect sends no token with it.  That TLS could not be had is not     *)
(* said: any other status, or a CA that cannot be read, will do.             *)
THEOREM PlaintextJustified == Spec => []DowngradeIsJustified
<1>1. WatchInv => DowngradeIsJustified
  BY DEF WatchInv
<1> QED BY <1>1, WatchSafe, PTL

(* next_event lets no step through from an agent known to lose commands,     *)
(* whichever versions follow each other on the stream.                       *)
THEOREM NoLossyStepRecorded == Spec => []NoLossySteps
<1>1. WatchInv => NoLossySteps
  BY DEF WatchInv
<1> QED BY <1>1, WatchSafe, PTL

(* The server a recording comes from is in the range, and only a server out  *)
(* of it is refused for its version, whatever the setting of the ceiling.    *)
THEOREM ServerSupported == Spec => []SupportedServer
<1>1. WatchInv => SupportedServer
  BY DEF WatchInv
<1> QED BY <1>1, WatchSafe, PTL
=============================================================================
