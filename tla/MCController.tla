---------------------------- MODULE MCController ----------------------------
(* Small configurations of the controller. *)
EXTENDS Controller

CONSTANTS f, g

\* The lines of configurations.
Transport(kind, name, connections) ==
    [kind |-> kind, name |-> name, connections |-> connections]

Client(name, n) == Transport("HTTP client", name, n)
Server(n) == Transport("HTTP server", None, n)
Udp == Transport("UDP transport", None, 1)
InsecureUdp(name) == Transport("Insecure UDP transport", name, 1)

MCConfigs ==
    { <<Client(None, 3)>>,
      <<Server(2), Udp>>,
      <<Client(None, 2), InsecureUdp(None)>>,
      <<Udp, Client("home", 2)>>,
      <<Client("home", 1), Client(None, 2)>>,
      <<Client("home", 1), Client("home", 1)>>,
      <<Client("HTTP client", 1), Client(None, 2), Udp>>,
      <<InsecureUdp("HTTP client"), Client(None, 1)>>,
      <<Client(None, 2), Client(None, 2)>>,
      <<Udp, InsecureUdp("home"), InsecureUdp(None)>>,
      <<InsecureUdp(None), Udp, InsecureUdp("home")>>,
      <<Client("Blackhole", 1)>> }

MCNames == {"home", "HTTP client", "Blackhole"}

MCFlows == {f, g}

MCHashes == { (f :> 0 @@ g :> 1), (f :> 5 @@ g :> 3) }

=============================================================================
