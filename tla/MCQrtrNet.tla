----------------------------- MODULE MCQrtrNet ------------------------------
(* Two nodes; a server socket on one, and on the other a socket that looks  *)
(* the service up and sends to it.                                          *)
EXTENDS QrtrNet, TLC

MCNodes == {"apps", "modem"}
MCServer == <<"modem", 10>>
MCClient == <<"apps", 20>>
MCClients == {MCServer, MCClient}

Op(cmd, of) == [cmd |-> cmd, of |-> of]
Offer(i) == Op("NEW_SERVER", <<7, i>>)
Withdraw == Op("DEL_SERVER", <<7, 1>>)
Filter == [service |-> 7, instance |-> 0]
Watch == Op("NEW_LOOKUP", Filter)
Unwatch == Op("DEL_LOOKUP", Filter)
Data == Op("DATA", <<>>)
Shut == Op("CLOSE", <<>>)

Scenario(server, client, n) ==
  [plan |-> (MCServer :> server) @@ (MCClient :> client), faults |-> n]

\* A server that comes back, over a failure; one that is replaced and withdrawn; a
\* client that goes, over a failure; both come and go.
MCScenarios == {
  Scenario(<<Offer(1), Shut, Offer(2)>>, <<>>, 1),
  Scenario(<<Offer(1), Offer(2), Withdraw, Offer(1)>>, <<Watch, Unwatch, Watch>>, 0),
  Scenario(<<Offer(1)>>, <<Watch, Data, Shut>>, 1),
  Scenario(<<Offer(1), Shut, Offer(1), Shut>>, <<Watch, Data, Shut, Watch>>, 0)}
=============================================================================
