------------------------------- MODULE Settings -------------------------------
(***************************************************************************)
(* config/mod.rs, config/credentials.rs, session/options.rs and            *)
(* connect_configured: the settings a caller may build, and what the       *)
(* session makes of them.                                                  *)
(*                                                                         *)
(* A duration is a number of ticks, TicksPerMilli of them a millisecond;   *)
(* an optional value is a sequence of at most one.                         *)
(***************************************************************************)
EXTENDS Naturals, Sequences

CONSTANTS TicksPerMilli,
          MaxTiming,             \* the longest duration accepted
          DefaultPollingMillis, DefaultIdleMillis

ASSUME TimingAssumption ==
    /\ TicksPerMilli \in Nat \ {0} /\ MaxTiming \in Nat
    /\ DefaultPollingMillis \in Nat /\ DefaultIdleMillis \in Nat

IsPositive(duration) == duration # 0
IsWithinMaximum(duration) == duration <= MaxTiming

(* ClientConfigBuilder::build *)
TimingsAreChecked(settings) ==
    /\ IsPositive(settings.openTimeout) /\ IsWithinMaximum(settings.openTimeout)
    /\ IsWithinMaximum(settings.slack)
    /\ \A option \in {settings.hint, settings.commitment} : \A k \in DOMAIN option :
          IsPositive(option[k]) /\ IsWithinMaximum(option[k])
    /\ IsPositive(settings.retryInitial) /\ IsWithinMaximum(settings.retryInitial)
    /\ IsWithinMaximum(settings.retryMax) /\ settings.retryInitial <= settings.retryMax

-----------------------------------------------------------------------------
(* SessionOptions::from_client_config *)

AsMillis(duration) == duration \div TicksPerMilli
Millis(option) == [k \in DOMAIN option |-> AsMillis(option[k])]
FromMillis(millis) == millis * TicksPerMilli

(* The parameters of LS_polling, or of a stream.  A polling transport      *)
(* takes the keepalive hint for its idle time.                             *)
Connection(settings) ==
    IF settings.transport = "HttpPolling"
    THEN [polling |-> TRUE, millis |-> DefaultPollingMillis,
          idle |-> IF settings.hint = << >> THEN <<DefaultIdleMillis>> ELSE Millis(settings.hint)]
    ELSE [polling |-> FALSE, inactivity |-> Millis(settings.commitment),
          keepalive |-> Millis(settings.hint),
          sendSync |-> IF settings.sendSync THEN << >> ELSE <<FALSE>>]

\* The whole commitment.
HeartbeatAtCommitment(settings) ==
    LET connection == Connection(settings)
    IN  IF connection.polling THEN << >>
        ELSE [k \in DOMAIN connection.inactivity |-> FromMillis(connection.inactivity[k])]
(* Half the commitment, and none on a polling connection.                  *)
HeartbeatEvery(settings) ==
    LET connection == Connection(settings)
    IN  IF connection.polling THEN << >>
        ELSE [k \in DOMAIN connection.inactivity |-> FromMillis(connection.inactivity[k]) \div 2]

(* How long an opening may take: a poll may be held for its idle time, and *)
(* the server may have raised that.                                        *)
EstablishmentBudget(settings, negotiated) ==
    LET connection == Connection(settings)
        requested  == FromMillis(connection.idle[1])
        idle       == IF negotiated # << >> /\ negotiated[1] > requested
                      THEN negotiated[1] ELSE requested
    IN  settings.openTimeout + (IF connection.polling THEN idle ELSE 0)

(* Control requests travel on a WebSocket, each on its own HTTP request    *)
(* otherwise: control_kind.                                                *)
ControlKind(settings) == IF settings.transport = "WebSocket" THEN "ws" ELSE "http"
=============================================================================
