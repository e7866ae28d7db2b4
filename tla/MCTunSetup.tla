----------------------------- MODULE MCTunSetup -----------------------------
(* Small instance of TunSetup: two servers that push different options,    *)
(* and lists that fail at the address, at openTun and at the tun-mtu.      *)
EXTENDS TunSetup

Plain == [server |-> "a", ip |-> "10.8.0.2", routes |-> {"10.1.0.0/16"},
          redirect |-> FALSE, domains |-> <<>>, dns |-> {"10.1.0.1"}, mtu |-> 0]
Full == [server |-> "b", ip |-> "10.9.0.2", routes |-> {}, redirect |-> TRUE,
         domains |-> <<"one.example", "two.example">>, dns |-> {"10.9.0.1"},
         mtu |-> 1400]
Broken == [Full EXCEPT !.mtu = BadMtu]
Loopback == [Plain EXCEPT !.ip = "127.0.0.1"]
NoAddress == [Plain EXCEPT !.ip = None]

MCDefaultRoute == "0.0.0.0/0"
MCText == {"a", "b", "10.8.0.2", "10.9.0.2", "127.0.0.1", "10.1.0.1", "10.9.0.1",
           "10.1.0.0/16", MCDefaultRoute, "one.example", "two.example"}
MCPushes == {Plain, Full, Broken, Loopback, NoAddress}
MCRefused == {"127.0.0.1"}
=============================================================================
