------------------------------- MODULE MCStartup -------------------------------
(***************************************************************************)
(* Small clusters for the start-up: the rows are those of the repository's *)
(* config/cluster_4.conf, where a second space shifts the fields of the    *)
(* second row.                                                             *)
(***************************************************************************)
EXTENDS Startup

CONSTANT stranger

MCConf ==
    << <<0, "192.168.41.214", "vg", "10000", "10001", "10002", "10003",
         "10100", "10200", "10300", "10007">>,
       <<1, "192.168.41.95", "", "vg", "10000", "10001", "10002", "10003",
         "10100", "10200", "10300", "10007">>,
       <<2, "192.168.41.194", "vg", "10000", "10001", "10002", "10003",
         "10100", "10200", "10300", "10007">> >>

\* Booths of two, of all servers and of more servers than there are, and the
\* default ids of the commit booth in the three booth modes.
MCFlags == {[boo |-> 2, cmt |-> 0], [boo |-> 2, cmt |-> 1], [boo |-> 3, cmt |-> 0],
            [boo |-> 3, cmt |-> 5], [boo |-> 4, cmt |-> 0]}

\* The shift of the second row leaves the addresses of the servers apart.
ASSUME AddressesOfInstance == DistinctAddresses
===============================================================================
