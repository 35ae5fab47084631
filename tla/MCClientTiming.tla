---------------------------- MODULE MCClientTiming ----------------------------
EXTENDS ClientTiming

Built(transport, hint, commitment, slack) ==
    [transport |-> transport, hint |-> hint, commitment |-> commitment, slack |-> slack,
     openTimeout |-> 2, retryInitial |-> 1, retryMax |-> 2, retryAttempts |-> <<1>>,
     sendSync |-> TRUE]

\* A commitment that is not a whole number of heartbeats; one the server's promise
\* outlasts; none; a polling client, and one that leaves its idle time to the crate.
MCConfigurations ==
    {Built("WebSocket", << >>, <<3>>, 1), Built("WebSocket", << >>, << >>, 0),
     Built("HttpStreaming", << >>, <<2>>, 1),
     Built("HttpPolling", <<2>>, <<2>>, 0), [Built("HttpPolling", << >>, << >>, 1) EXCEPT !.retryMax = 1]}
=============================================================================
